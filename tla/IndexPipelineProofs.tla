------------------------ MODULE IndexPipelineProofs -------------------------
(***************************************************************************)
(* Proofs about IndexPipeline, for any repository, any embedding spaces    *)
(* and any number of edits, crashes, failing statements, cancels and       *)
(* client switches: one embedding space per repository, file_meta as the   *)
(* commit marker, and that no change of a file is forgotten.               *)
(***************************************************************************)
EXTENDS IndexPipeline, FiniteSetTheorems, TLAPS

-----------------------------------------------------------------------------
(* Sequences of statements                                                 *)

IsSeq(s) == s \in Seq(ToSet(s))

\* A sequence is one of its own elements.
LEMMA OwnSeq ==
  ASSUME NEW S, NEW s \in Seq(S)
  PROVE  IsSeq(s)
<1>1. \A i \in 1..Len(s) : s[i] \in ToSet(s)
  BY DEF ToSet
<1> QED
  BY <1>1 DEF IsSeq

LEMMA FunctionSeq ==
  ASSUME NEW S, NEW n \in Nat, NEW f \in [1..n -> S]
  PROVE  IsSeq(f)
<1>1. f \in Seq(S)
  OBVIOUS
<1> QED
  BY <1>1, OwnSeq

\* The statements of a concatenation are those of its parts.
LEMMA ConcatSeq ==
  ASSUME NEW a, NEW b, IsSeq(a), IsSeq(b)
  PROVE  /\ IsSeq(a \o b)
         /\ ToSet(a \o b) = ToSet(a) \cup ToSet(b)
<1> DEFINE T == ToSet(a) \cup ToSet(b)
<1>1. a \in Seq(T) /\ b \in Seq(T)
  BY DEF IsSeq
<1>2. a \o b \in Seq(T) /\ Len(a \o b) = Len(a) + Len(b)
  BY <1>1
<1>3. \A i \in 1..Len(a) : (a \o b)[i] = a[i]
  BY <1>1
<1>4. \A i \in 1..Len(b) : (a \o b)[Len(a) + i] = b[i]
  BY <1>1
<1>5. ToSet(a \o b) \subseteq T
  BY <1>2 DEF ToSet
<1>6. ASSUME NEW x \in ToSet(a) PROVE x \in ToSet(a \o b)
  <2>1. PICK i \in 1..Len(a) : x = a[i]
    BY <1>1 DEF ToSet
  <2>2. i \in DOMAIN (a \o b) /\ (a \o b)[i] = x
    BY <1>1, <1>2, <1>3, <2>1
  <2> QED
    BY <2>2 DEF ToSet
<1>7. ASSUME NEW x \in ToSet(b) PROVE x \in ToSet(a \o b)
  <2>1. PICK i \in 1..Len(b) : x = b[i]
    BY <1>1 DEF ToSet
  <2>2. Len(a) + i \in DOMAIN (a \o b) /\ (a \o b)[Len(a) + i] = x
    BY <1>1, <1>2, <1>4, <2>1
  <2> QED
    BY <2>2 DEF ToSet
<1>8. ToSet(a \o b) = T
  BY <1>5, <1>6, <1>7
<1> QED
  BY <1>2, <1>8 DEF IsSeq

LEMMA OneSeq ==
  ASSUME NEW x
  PROVE  IsSeq(<<x>>) /\ ToSet(<<x>>) = {x} /\ Len(<<x>>) = 1
BY DEF IsSeq, ToSet

LEMMA TwoSeq ==
  ASSUME NEW x, NEW y
  PROVE  IsSeq(<<x, y>>) /\ ToSet(<<x, y>>) = {x, y}
BY DEF IsSeq, ToSet

LEMMA ThreeSeq ==
  ASSUME NEW x, NEW y, NEW z
  PROVE  IsSeq(<<x, y, z>>) /\ ToSet(<<x, y, z>>) = {x, y, z}
BY DEF IsSeq, ToSet

LEMMA FiveSeq ==
  ASSUME NEW x, NEW y, NEW z, NEW u, NEW v
  PROVE  IsSeq(<<x, y, z, u, v>>) /\ ToSet(<<x, y, z, u, v>>) = {x, y, z, u, v}
BY DEF IsSeq, ToSet

LEMMA SevenSeq ==
  ASSUME NEW x, NEW y, NEW z, NEW u, NEW v, NEW w, NEW q
  PROVE  /\ IsSeq(<<x, y, z, u, v, w, q>>)
         /\ ToSet(<<x, y, z, u, v, w, q>>) = {x, y, z, u, v, w, q}
BY DEF IsSeq, ToSet

LEMMA NoSeq == IsSeq(<<>>) /\ ToSet(<<>>) = {}
BY DEF IsSeq, ToSet

\* The next statement and the others.
LEMMA TailSeq ==
  ASSUME NEW s, IsSeq(s), s # <<>>
  PROVE  /\ IsSeq(Tail(s)) /\ Head(s) \in ToSet(s)
         /\ ToSet(s) = {Head(s)} \cup ToSet(Tail(s))
<1> DEFINE T == ToSet(s)
<1>1. s \in Seq(T) /\ Len(s) \in Nat /\ Len(s) >= 1 /\ DOMAIN s = 1..Len(s)
  BY DEF IsSeq
<1>2. /\ Tail(s) \in Seq(T) /\ Len(Tail(s)) = Len(s) - 1 /\ Head(s) = s[1]
      /\ \A i \in 1..Len(s) - 1 : Tail(s)[i] = s[i + 1]
  BY <1>1
<1>3. Head(s) \in T
  BY <1>1, <1>2 DEF ToSet
<1>4. ToSet(Tail(s)) \subseteq T
  BY <1>2 DEF ToSet
<1>5. ASSUME NEW x \in T PROVE x = Head(s) \/ x \in ToSet(Tail(s))
  <2>1. PICK i \in 1..Len(s) : x = s[i]
    BY <1>1 DEF ToSet
  <2>2. CASE i = 1
    BY <1>2, <2>1, <2>2
  <2>3. CASE i # 1
    <3>1. i - 1 \in 1..Len(s) - 1 /\ i - 1 + 1 = i
      BY <1>1, <2>1, <2>3
    <3>2. i - 1 \in DOMAIN Tail(s) /\ Tail(s)[i - 1] = x
      BY <1>1, <1>2, <2>1, <3>1
    <3> QED
      BY <3>2 DEF ToSet
  <2> QED
    BY <2>2, <2>3
<1> QED
  BY <1>2, <1>3, <1>4, <1>5, OwnSeq

\* One statement comes before another one in a sequence.
Precedes(q, s, t) == \E i, j \in DOMAIN q : i < j /\ q[i] = s /\ q[j] = t

LEMMA PrecedesIn ==
  ASSUME NEW q, NEW s, NEW t, Precedes(q, s, t)
  PROVE  s \in ToSet(q) /\ t \in ToSet(q)
BY DEF Precedes, ToSet

LEMMA PrecedesTail ==
  ASSUME NEW q, IsSeq(q), q # <<>>
  PROVE  /\ \A s, t : Precedes(Tail(q), s, t) => Precedes(q, s, t)
         /\ \A t \in ToSet(Tail(q)) : Precedes(q, Head(q), t)
<1>1. q \in Seq(ToSet(q)) /\ Len(q) \in Nat /\ Len(q) >= 1 /\ DOMAIN q = 1..Len(q)
  BY DEF IsSeq
<1>2. /\ DOMAIN Tail(q) = 1..Len(q) - 1 /\ Head(q) = q[1]
      /\ \A i \in 1..Len(q) - 1 : Tail(q)[i] = q[i + 1]
  BY <1>1
<1>3. ASSUME NEW s, NEW t, Precedes(Tail(q), s, t) PROVE Precedes(q, s, t)
  <2>1. PICK i \in DOMAIN Tail(q), j \in DOMAIN Tail(q) :
           i < j /\ Tail(q)[i] = s /\ Tail(q)[j] = t
    BY <1>3 DEF Precedes
  <2>2. i + 1 \in DOMAIN q /\ j + 1 \in DOMAIN q /\ i + 1 < j + 1
    BY <1>1, <1>2, <2>1
  <2>3. q[i + 1] = s /\ q[j + 1] = t
    BY <1>2, <2>1
  <2> QED
    BY <2>2, <2>3 DEF Precedes
<1>4. ASSUME NEW t \in ToSet(Tail(q)) PROVE Precedes(q, Head(q), t)
  <2>1. PICK i \in 1..Len(q) - 1 : t = Tail(q)[i]
    BY <1>2 DEF ToSet
  <2>2. 1 \in DOMAIN q /\ i + 1 \in DOMAIN q /\ 1 < i + 1
    BY <1>1, <2>1
  <2>3. q[1] = Head(q) /\ q[i + 1] = t
    BY <1>2, <2>1
  <2> QED
    BY <2>2, <2>3 DEF Precedes
<1> QED
  BY <1>3, <1>4

LEMMA PrecedesConcat ==
  ASSUME NEW a, NEW b, IsSeq(a), IsSeq(b), NEW s, NEW t, Precedes(a \o b, s, t)
  PROVE  Precedes(a, s, t) \/ Precedes(b, s, t) \/ (s \in ToSet(a) /\ t \in ToSet(b))
<1> DEFINE m == Len(a)
           n == Len(b)
           T == ToSet(a) \cup ToSet(b)
<1>1. a \in Seq(T) /\ b \in Seq(T) /\ m \in Nat /\ n \in Nat
      /\ DOMAIN a = 1..m /\ DOMAIN b = 1..n
  BY DEF IsSeq
<1>2. /\ DOMAIN (a \o b) = 1..m + n
      /\ \A i \in 1..m : (a \o b)[i] = a[i]
      /\ \A i \in 1..m + n : i > m => (a \o b)[i] = b[i - m]
  BY <1>1
<1> HIDE DEF m, n, T
<1>3. PICK i \in 1..m + n, j \in 1..m + n : i < j /\ (a \o b)[i] = s /\ (a \o b)[j] = t
  BY <1>2 DEF Precedes
<1>4. CASE j <= m
  <2>1. i \in DOMAIN a /\ j \in DOMAIN a /\ a[i] = s /\ a[j] = t
    BY <1>1, <1>2, <1>3, <1>4
  <2> QED
    BY <1>3, <2>1 DEF Precedes
<1>5. CASE i > m
  <2>1. i - m \in DOMAIN b /\ j - m \in DOMAIN b /\ i - m < j - m
    BY <1>1, <1>3, <1>5
  <2>2. b[i - m] = s /\ b[j - m] = t
    BY <1>1, <1>2, <1>3, <1>5
  <2> QED
    BY <2>1, <2>2 DEF Precedes
<1>6. CASE i <= m /\ j > m
  <2>1. i \in DOMAIN a /\ j - m \in DOMAIN b
    BY <1>1, <1>3, <1>6
  <2>2. a[i] = s /\ b[j - m] = t
    BY <1>1, <1>2, <1>3, <1>6
  <2> QED
    BY <2>1, <2>2 DEF ToSet
<1> QED
  BY <1>1, <1>3, <1>4, <1>5, <1>6

-----------------------------------------------------------------------------
(* Statements                                                              *)

TableNames == Tables \cup {"index_meta"}
MetaKeys == {"identity", "raw_edge_complete", "edges_resolved", "needs_rebuild"}

Shape(s) ==
    /\ s.op \in {"meta", "insert", "delete"}
    /\ s.op # "meta" => s.table \in Tables

\* What the constructors put into a statement.
LEMMA InsertFields ==
  ASSUME NEW t \in Tables, NEW rows
  PROVE  /\ Shape(Insert(t, rows)) /\ Insert(t, rows).op = "insert" 
         /\ Insert(t, rows).table = t /\ Insert(t, rows).rows = rows
         /\ ~Insert(t, rows).soft /\ ~Insert(t, rows).check
BY DEF Insert, Stmt, Shape

LEMMA DeleteFields ==
  ASSUME NEW t \in Tables, NEW files
  PROVE  /\ Shape(Delete(t, files)) /\ Delete(t, files).op = "delete" 
         /\ Delete(t, files).table = t /\ Delete(t, files).files = files
         /\ ~Delete(t, files).soft /\ ~Delete(t, files).check
BY DEF Delete, Stmt, Shape

LEMMA MetaFields ==
  ASSUME NEW m
  PROVE  /\ Shape(Meta(m)) /\ Meta(m).op = "meta" /\ Meta(m).rows = m
         /\ ~Meta(m).soft /\ ~Meta(m).check
         /\ Shape(Soft(Meta(m))) /\ Soft(Meta(m)).op = "meta" /\ Soft(Meta(m)).rows = m
         /\ ~Soft(Meta(m)).check
BY DEF Meta, Soft, Stmt, Shape

LEMMA CheckedFields ==
  ASSUME NEW t \in Tables, NEW rows, NEW files
  PROVE  /\ Shape(Checked(Insert(t, rows))) /\ Checked(Insert(t, rows)).op = "insert"
         /\ Checked(Insert(t, rows)).table = t /\ Checked(Insert(t, rows)).rows = rows
         /\ ~Checked(Insert(t, rows)).soft
         /\ Shape(Checked(Delete(t, files))) /\ Checked(Delete(t, files)).op = "delete"
         /\ Checked(Delete(t, files)).table = t /\ Checked(Delete(t, files)).files = files
         /\ ~Checked(Delete(t, files)).soft
BY DEF Insert, Delete, Checked, Stmt, Shape

\* What a statement does to the tables.
DbShape(d) == DOMAIN d = TableNames /\ DOMAIN d.index_meta = MetaKeys

LEMMA PerformMeta ==
  ASSUME NEW d, DbShape(d), NEW s, s.op = "meta"
  PROVE  /\ DbShape(Perform(d, s))
         /\ \A t \in Tables : Perform(d, s)[t] = d[t]
         /\ \A k \in MetaKeys : Perform(d, s).index_meta[k] =
               IF k \in DOMAIN s.rows THEN s.rows[k] ELSE d.index_meta[k]
<1> DEFINE m == [k \in DOMAIN d.index_meta |-> IF k \in DOMAIN s.rows
                                               THEN s.rows[k] ELSE d.index_meta[k]]
<1>1. Perform(d, s) = [d EXCEPT !.index_meta = m]
  BY DEF Perform
<1>2. "index_meta" \in DOMAIN d /\ "index_meta" \notin Tables
  BY DEF DbShape, TableNames, Tables
<1> HIDE DEF m
<1>3. /\ DOMAIN Perform(d, s) = DOMAIN d /\ Perform(d, s).index_meta = m
      /\ \A t \in Tables : Perform(d, s)[t] = d[t]
  BY <1>1, <1>2 DEF DbShape, TableNames
<1>4. DOMAIN m = MetaKeys
      /\ \A k \in MetaKeys : m[k] = IF k \in DOMAIN s.rows THEN s.rows[k] ELSE d.index_meta[k]
  BY DEF m, DbShape
<1> QED
  BY <1>3, <1>4 DEF DbShape

LEMMA PerformInsert ==
  ASSUME NEW d, DbShape(d), NEW s, s.op = "insert", s.table \in Tables
  PROVE  /\ DbShape(Perform(d, s)) /\ Perform(d, s).index_meta = d.index_meta
         /\ \A t \in Tables \ {s.table} : Perform(d, s)[t] = d[t]
         /\ Perform(d, s)[s.table] =
               {r \in d[s.table] : \A n \in s.rows : ~SameKey(s.table, r, n)} \cup s.rows
<1> DEFINE new == {r \in d[s.table] : \A n \in s.rows : ~SameKey(s.table, r, n)} \cup s.rows
<1>1. Perform(d, s) = [d EXCEPT ![s.table] = new]
  BY DEF Perform
<1>2. s.table \in DOMAIN d /\ s.table # "index_meta" /\ "index_meta" \in DOMAIN d
  BY DEF DbShape, TableNames, Tables
<1> HIDE DEF new
<1>3. /\ DOMAIN Perform(d, s) = DOMAIN d /\ Perform(d, s)[s.table] = new
      /\ \A t \in TableNames \ {s.table} : Perform(d, s)[t] = d[t]
  BY <1>1, <1>2 DEF DbShape
<1>4. Perform(d, s).index_meta = d.index_meta
  BY <1>2, <1>3 DEF TableNames
<1> QED
  BY <1>3, <1>4 DEF new, DbShape, TableNames

LEMMA PerformDelete ==
  ASSUME NEW d, DbShape(d), NEW s, s.op = "delete", s.table \in Tables
  PROVE  /\ DbShape(Perform(d, s)) /\ Perform(d, s).index_meta = d.index_meta
         /\ \A t \in Tables \ {s.table} : Perform(d, s)[t] = d[t]
         /\ Perform(d, s)[s.table] = {r \in d[s.table] : r.file \notin s.files}
<1> DEFINE new == {r \in d[s.table] : r.file \notin s.files}
<1>1. Perform(d, s) = [d EXCEPT ![s.table] = new]
  BY DEF Perform
<1>2. s.table \in DOMAIN d /\ s.table # "index_meta" /\ "index_meta" \in DOMAIN d
  BY DEF DbShape, TableNames, Tables
<1> HIDE DEF new
<1>3. /\ DOMAIN Perform(d, s) = DOMAIN d /\ Perform(d, s)[s.table] = new
      /\ \A t \in TableNames \ {s.table} : Perform(d, s)[t] = d[t]
  BY <1>1, <1>2 DEF DbShape
<1>4. Perform(d, s).index_meta = d.index_meta
  BY <1>2, <1>3 DEF TableNames
<1> QED
  BY <1>3, <1>4 DEF new, DbShape, TableNames

-----------------------------------------------------------------------------
(* The statements the run issues                                           *)

LEMMA SetToSeqOf ==
  ASSUME NEW S, IsFiniteSet(S)
  PROVE  /\ Cardinality(S) \in Nat
         /\ SetToSeq(S) \in [1..Cardinality(S) -> S]
         /\ \A x \in S : \E i \in 1..Cardinality(S) : SetToSeq(S)[i] = x
<1> DEFINE n == Cardinality(S)
           I == 1..n
<1>1. n \in Nat /\ ExistsBijection(I, S)
  BY FS_CardinalityType
<1>2. \E f \in [I -> S] : IsInjective(f)
  BY <1>1 DEF ExistsBijection, Bijection, Injection, IsInjective
<1>3. SetToSeq(S) \in [I -> S] /\ IsInjective(SetToSeq(S))
  BY <1>2 DEF SetToSeq
<1> DEFINE q == SetToSeq(S)
           R == {q[i] : i \in I}
<1>4. IsFiniteSet(I) /\ Cardinality(I) = n
  BY <1>1, FS_Interval
<1> HIDE DEF n, I, q
<1>5. q \in [I -> S] /\ IsInjective(q)
  BY <1>3 DEF q
<1>6. q \in [I -> R]
  BY <1>5
<1>7. q \in Surjection(I, R)
  BY <1>6 DEF Surjection
<1>8. IsFiniteSet(R) /\ (Cardinality(R) = n <=> q \in Injection(I, R))
  BY <1>4, <1>7, FS_Surjection
<1>9. q \in Injection(I, R)
  BY <1>5, <1>6 DEF Injection, IsInjective
<1>10. R \subseteq S
  BY <1>5
<1>11. R = S
  BY <1>8, <1>9, <1>10, FS_Subset DEF n
<1> QED
  BY <1>1, <1>5, <1>11 DEF n, I, q

\* One upsert per row.
LEMMA UpsertStatements ==
  ASSUME NEW rows, IsFiniteSet(rows)
  PROVE  /\ IsSeq(upsert_file_meta(rows))
         /\ \A s \in ToSet(upsert_file_meta(rows)) : 
               \E r \in rows : s = Insert("file_meta", {r})
         /\ \A r \in rows : Insert("file_meta", {r}) \in ToSet(upsert_file_meta(rows))
<1> DEFINE n == Cardinality(rows)
           u == [i \in 1..n |-> Insert("file_meta", {SetToSeq(rows)[i]})]
<1>1. n \in Nat /\ \A i \in 1..n : SetToSeq(rows)[i] \in rows
  BY SetToSeqOf
<1>2. \A r \in rows : \E i \in 1..n : SetToSeq(rows)[i] = r
  BY SetToSeqOf
<1> HIDE DEF n
<1>3. u \in Seq({u[i] : i \in 1..n}) /\ DOMAIN u = 1..n
  BY <1>1
<1>4. upsert_file_meta(rows) = u
  BY DEF upsert_file_meta, n
<1>5. IsSeq(u)
  BY <1>3, OwnSeq
<1>6. \A s \in ToSet(u) : \E r \in rows : s = Insert("file_meta", {r})
  BY <1>1 DEF ToSet
<1>7. \A r \in rows : Insert("file_meta", {r}) \in ToSet(u)
  BY <1>2, <1>3 DEF ToSet
<1> QED
  BY <1>4, <1>5, <1>6, <1>7

\* One insert per file the rows are about.
LEMMA ByFileStatements ==
  ASSUME NEW table, NEW rows, IsFiniteSet(FilesOf(rows))
  PROVE  /\ IsSeq(InsertByFile(table, rows))
         /\ \A s \in ToSet(InsertByFile(table, rows)) :
               \E S \in SUBSET rows : s = Checked(Insert(table, S))
         /\ \A r \in rows : \E S : /\ r \in S
                                   /\ Checked(Insert(table, S)) \in ToSet(InsertByFile(table, rows))
<1> DEFINE order == SetToSeq(FilesOf(rows))
           n == Cardinality(FilesOf(rows))
           Of(i) == {r \in rows : r.file = order[i]}
           u == [i \in 1..n |-> Checked(Insert(table, Of(i)))]
<1>1. n \in Nat /\ DOMAIN order = 1..n
  BY SetToSeqOf
<1>2. InsertByFile(table, rows) = u
  BY <1>1 DEF InsertByFile
<1>3. \A x \in FilesOf(rows) : \E i \in 1..n : order[i] = x
  BY SetToSeqOf
<1> HIDE DEF n, order
<1>4. u \in [1..n -> {Checked(Insert(table, Of(i))) : i \in 1..n}]
  OBVIOUS
<1>5. IsSeq(u)
  <2> HIDE DEF u
  <2> QED
    BY <1>1, <1>4, FunctionSeq
<1>6. \A i \in 1..n : Of(i) \in SUBSET rows
  OBVIOUS
<1>7. ASSUME NEW s \in ToSet(u) PROVE \E S \in SUBSET rows : s = Checked(Insert(table, S))
  <2>1. PICK i \in 1..n : s = u[i]
    BY DEF ToSet
  <2> QED
    BY <1>6, <2>1
<1>8. ASSUME NEW r \in rows
      PROVE  \E S : r \in S /\ Checked(Insert(table, S)) \in ToSet(u)
  <2>1. PICK i \in 1..n : order[i] = r.file
    BY <1>3 DEF FilesOf
  <2>2. r \in Of(i)
    BY <2>1
  <2>3. u[i] = Checked(Insert(table, Of(i))) /\ i \in DOMAIN u
    OBVIOUS
  <2> HIDE DEF u, Of
  <2>4. u[i] \in ToSet(u)
    BY <2>3 DEF ToSet
  <2> QED
    BY <2>2, <2>3, <2>4
<1> QED
  BY <1>2, <1>5, <1>7, <1>8

\* The statements of the call graph write raw edges, calls and edge markers only.
GraphStmt(s) ==
    /\ Shape(s) /\ ~s.soft
    /\ s.op # "meta" => s.table \in {"raw_edge", "calls"}
    /\ s.op = "meta" => "identity" \notin DOMAIN s.rows
    /\ s.op = "insert" /\ s.table = "raw_edge" => \A e \in s.rows : e.file \in Files

EdgesIn(raw) == \A e \in raw : e.file \in Files

LEMMA ResolvedFiles ==
  ASSUME NEW symbols, NEW raw, EdgesIn(raw)
  PROVE  IsFiniteSet(FilesOf(resolve_raw_edges(symbols, raw)))
<1>1. FilesOf(resolve_raw_edges(symbols, raw)) \subseteq Files
  BY DEF FilesOf, resolve_raw_edges, EdgesIn
<1> QED
  BY <1>1, FS_Subset, PipelineAssumption

LEMMA ResolveInserts ==
  ASSUME NEW symbols, NEW raw, EdgesIn(raw)
  PROVE  LET q == InsertByFile("calls", resolve_raw_edges(symbols, raw)) \o StampEdgesResolved
         IN  IsSeq(q) /\ \A s \in ToSet(q) : GraphStmt(s)
<1> DEFINE a == InsertByFile("calls", resolve_raw_edges(symbols, raw))
<1>1. IsSeq(a) /\ \A s \in ToSet(a) : \E S : s = Checked(Insert("calls", S))
  BY ResolvedFiles, ByFileStatements
<1>2. \A s \in ToSet(a) : GraphStmt(s)
  BY <1>1, CheckedFields DEF GraphStmt, Tables
<1>3. IsSeq(StampEdgesResolved) /\ ToSet(StampEdgesResolved) = {Meta([edges_resolved |-> TRUE])}
  BY OneSeq DEF StampEdgesResolved
<1>4. GraphStmt(Meta([edges_resolved |-> TRUE]))
  BY MetaFields DEF GraphStmt
<1> HIDE DEF a
<1>5. IsSeq(a \o StampEdgesResolved) /\ \A s \in ToSet(a \o StampEdgesResolved) : GraphStmt(s)
  BY <1>1, <1>2, <1>3, <1>4, ConcatSeq
<1> QED
  BY <1>5 DEF a

LEMMA Phase2Statements ==
  ASSUME NEW raw, EdgesIn(raw)
  PROVE  /\ IsSeq(resolve_edges_phase2(raw)) /\ resolve_edges_phase2(raw) # <<>>
         /\ \A s \in ToSet(resolve_edges_phase2(raw)) : GraphStmt(s)
<1> DEFINE b == InsertByFile("calls", resolve_raw_edges(db.symbol, raw))
           a == b \o StampEdgesResolved
           h == <<Delete("calls", Files)>>
<1>1. IsSeq(a) /\ \A s \in ToSet(a) : GraphStmt(s)
  BY ResolveInserts
<1>2. IsSeq(h) /\ ToSet(h) = {Delete("calls", Files)}
  BY OneSeq
<1>3. GraphStmt(Delete("calls", Files))
  BY DeleteFields DEF GraphStmt, Tables
<1>4. IsSeq(b) /\ IsSeq(StampEdgesResolved)
  BY ResolvedFiles, ByFileStatements, OneSeq DEF StampEdgesResolved
<1> HIDE DEF h, b
<1>5. (h \o b) \o StampEdgesResolved = h \o (b \o StampEdgesResolved)
  <2> DEFINE T == ToSet(h) \cup ToSet(b) \cup ToSet(StampEdgesResolved)
  <2>1. h \in Seq(T) /\ b \in Seq(T) /\ StampEdgesResolved \in Seq(T)
    BY <1>2, <1>4 DEF IsSeq
  <2> QED
    BY <2>1
<1>6. resolve_edges_phase2(raw) = h \o a
  BY <1>5 DEF resolve_edges_phase2, h, b
<1> HIDE DEF a
<1>7. IsSeq(h \o a) /\ ToSet(h \o a) = ToSet(h) \cup ToSet(a)
  BY <1>1, <1>2, ConcatSeq
<1>8. h \o a # <<>>
  BY <1>2, <1>7, NoSeq
<1> QED
  BY <1>1, <1>2, <1>3, <1>6, <1>7, <1>8

LEMMA ReresolveStatements ==
  ASSUME NEW resolve_set, EdgesIn(db.raw_edge)
  PROVE  /\ IsSeq(reresolve_statements(resolve_set))
         /\ \A s \in ToSet(reresolve_statements(resolve_set)) : GraphStmt(s)
<1> DEFINE raw == {e \in db.raw_edge : e.file \in resolve_set}
           h == <<Checked(Delete("calls", resolve_set))>>
           b == InsertByFile("calls", resolve_raw_edges(db.symbol, raw))
<1>1. EdgesIn(raw)
  BY DEF EdgesIn
<1>2. IsSeq(b) /\ \A s \in ToSet(b) : \E S : s = Checked(Insert("calls", S))
  <2> DEFINE rows == resolve_raw_edges(db.symbol, raw)
  <2>1. IsFiniteSet(FilesOf(rows))
    BY <1>1, ResolvedFiles
  <2> HIDE DEF rows
  <2>2. /\ IsSeq(InsertByFile("calls", rows))
        /\ \A s \in ToSet(InsertByFile("calls", rows)) : \E S : s = Checked(Insert("calls", S))
    BY <2>1, ByFileStatements
  <2> QED
    BY <2>2 DEF rows
<1>3. \A s \in ToSet(b) : GraphStmt(s)
  BY <1>2, CheckedFields DEF GraphStmt, Tables
<1>4. IsSeq(h) /\ \A s \in ToSet(h) : GraphStmt(s)
  <2>1. IsSeq(h) /\ ToSet(h) = {Checked(Delete("calls", resolve_set))}
    BY OneSeq
  <2>2. GraphStmt(Checked(Delete("calls", resolve_set)))
    BY CheckedFields DEF GraphStmt, Tables
  <2> QED
    BY <2>1, <2>2
<1>5. IsSeq(StampEdgesResolved) /\ \A s \in ToSet(StampEdgesResolved) : GraphStmt(s)
  <2>1. ToSet(StampEdgesResolved) = {Meta([edges_resolved |-> TRUE])}
    BY OneSeq DEF StampEdgesResolved
  <2>2. GraphStmt(Meta([edges_resolved |-> TRUE]))
    BY MetaFields DEF GraphStmt
  <2> QED
    BY <2>1, <2>2, OneSeq DEF StampEdgesResolved
<1>6. reresolve_statements(resolve_set) = (h \o b) \o StampEdgesResolved
  BY DEF reresolve_statements
<1> HIDE DEF h, b
<1>7. IsSeq(h \o b) /\ \A s \in ToSet(h \o b) : GraphStmt(s)
  BY <1>2, <1>3, <1>4, ConcatSeq
<1> QED
  BY <1>5, <1>6, <1>7, ConcatSeq

LEMMA HealStatements ==
  ASSUME DOMAIN disk = Files, \A f \in Files : disk[f] # Absent => disk[f].content \in Contents,
         NEW unreadable
  PROVE  /\ IsSeq(heal_edges(unreadable))
         /\ \A s \in ToSet(heal_edges(unreadable)) : GraphStmt(s)
<1> DEFINE readable == (Stored \cap OnDisk) \ unreadable
           raw == UNION {EdgesOf[f][disk[f].content] : f \in readable}
           a == <<Meta([raw_edge_complete |-> FALSE, edges_resolved |-> FALSE]),
                  Delete("raw_edge", Files)>>
           b == InsertByFile("raw_edge", raw)
           c == <<Meta([raw_edge_complete |-> TRUE])>>
           d == resolve_edges_phase2(raw)
<1>1. EdgesIn(raw)
  BY PipelineAssumption DEF EdgesIn, OnDisk
<1>2. FilesOf(raw) \subseteq Files
  BY <1>1 DEF FilesOf, EdgesIn
<1>3. IsFiniteSet(FilesOf(raw))
  BY <1>2, FS_Subset, PipelineAssumption
<1>4. heal_edges(unreadable) = ((a \o b) \o c) \o d
  BY DEF heal_edges
<1> HIDE DEF raw, readable
<1>5. IsSeq(b) /\ \A s \in ToSet(b) : \E S \in SUBSET raw : s = Checked(Insert("raw_edge", S))
  BY <1>3, ByFileStatements
<1>6. \A s \in ToSet(b) : GraphStmt(s)
  BY <1>1, <1>5, CheckedFields DEF GraphStmt, Tables, EdgesIn
<1>7. IsSeq(a) /\ ToSet(a) = {Meta([raw_edge_complete |-> FALSE, edges_resolved |-> FALSE]),
                              Delete("raw_edge", Files)}
  BY TwoSeq
<1>8. \A s \in ToSet(a) : GraphStmt(s)
  <2>1. GraphStmt(Meta([raw_edge_complete |-> FALSE, edges_resolved |-> FALSE]))
    BY MetaFields DEF GraphStmt
  <2>2. GraphStmt(Delete("raw_edge", Files))
    BY DeleteFields DEF GraphStmt, Tables
  <2> QED
    BY <1>7, <2>1, <2>2
<1>9. IsSeq(c) /\ \A s \in ToSet(c) : GraphStmt(s)
  <2>1. IsSeq(c) /\ ToSet(c) = {Meta([raw_edge_complete |-> TRUE])}
    BY OneSeq
  <2>2. GraphStmt(Meta([raw_edge_complete |-> TRUE]))
    BY MetaFields DEF GraphStmt
  <2> QED
    BY <2>1, <2>2
<1>10. IsSeq(d) /\ \A s \in ToSet(d) : GraphStmt(s)
  BY <1>1, Phase2Statements
<1> HIDE DEF a, b, c, d
<1>11. IsSeq(a \o b) /\ \A s \in ToSet(a \o b) : GraphStmt(s)
  BY <1>5, <1>6, <1>7, <1>8, ConcatSeq
<1>12. IsSeq((a \o b) \o c) /\ \A s \in ToSet((a \o b) \o c) : GraphStmt(s)
  BY <1>9, <1>11, ConcatSeq
<1> QED
  BY <1>4, <1>10, <1>12, ConcatSeq

-----------------------------------------------------------------------------
(* Failures the code does not see                                          *)

LossTypes == /\ {"clears", "rows"} \subseteq DOMAIN used
             /\ used.clears \in Nat /\ used.rows \in Nat

\* A record of bounds in which no loss is counted that was not before.
NoLoss(u) == /\ {"clears", "rows"} \subseteq DOMAIN u
             /\ u.clears = used.clears /\ u.rows = used.rows

LEMMA NoLossSpent ==
  ASSUME LossTypes
  PROVE  /\ NoLoss(used)
         /\ \A k \in {"edits", "crashes", "errors", "fatal", "requests", "soft", "heal"} :
               NoLoss(Spend(k))
BY DEF LossTypes, NoLoss, Spend

LEMMA NoLossFail ==
  ASSUME NEW d, NEW isFatal, NEW spent, NoLoss(spent), Fail(d, isFatal, spent)
  PROVE  NoLoss(used')
<1>1. PICK marked \in BOOLEAN :
         used' = IF marked THEN spent ELSE [spent EXCEPT !.soft = @ + 1]
  BY DEF Fail
<1> QED
  BY <1>1 DEF NoLoss

LEMMA NoLossStep ==
  ASSUME LossTypes, [Next]_vars, ~StatementLost, ~RollbackLost
  PROVE  NoLoss(used')
<1>1. NoLoss(used) /\ \A k \in {"edits", "crashes", "errors", "fatal", "requests", "soft", "heal"} :
                        NoLoss(Spend(k))
  BY NoLossSpent
<1>2. CASE Trigger
  BY <1>1, <1>2 DEF Trigger, TakeRescan, TakeWatcherBatch
<1>3. CASE TakeRebuild
  <2>1. used' = Spend("requests")
    BY <1>3 DEF TakeRebuild, Spend
  <2> QED
    BY <1>1, <2>1
<1>4. CASE RunStep
  <2>1. CASE AbortStream
    <3>1. CASE fatal
      BY <1>1, <2>1, <3>1, NoLossFail DEF AbortStream
    <3>2. CASE ~fatal
      BY <1>1, <2>1, <3>2 DEF AbortStream, Cancelled
    <3> QED
      BY <3>1, <3>2
  <2>2. CASE IncrementalPhase2 \/ NoChangePhase2
    <3>1. used' = used \/ used' = Spend("heal")
      BY <2>2 DEF IncrementalPhase2, NoChangePhase2, Heal
    <3> QED
      BY <1>1, <3>1
  <2>3. CASE PerformNext \/ BeginFull \/ BeginIncremental \/ StartStream \/ FlushTail
             \/ CommitRows \/ FullPhase2
    BY <1>1, <2>3 DEF PerformNext, BeginFull, BeginIncremental, StartStream, FlushTail,
                      CommitRows, FullPhase2
  <2>4. CASE \E f \in Files : StatFile(f) \/ ReadAndEmbed(f) \/ StoreFile(f)
    BY <1>1, <2>4 DEF StatFile, ReadAndEmbed, StoreFile
  <2>5. CASE RunSucceeds \/ Finish \/ CancelBeforeRebuild \/ CancelBeforeStatement
    BY <1>1, <2>5 DEF RunSucceeds, Finish, CancelBeforeRebuild, CancelBeforeStatement, Cancelled
  <2> QED
    BY <1>4, <2>1, <2>2, <2>3, <2>4, <2>5 DEF RunStep
<1>5. CASE Fault
  <2>1. CASE StatementFails
    BY <1>1, <2>1, NoLossFail DEF StatementFails
  <2>2. CASE PreflightFails
    BY <1>1, <2>2, NoLossFail DEF PreflightFails
  <2>3. CASE SoftStatementFails \/ Crash
    BY <1>1, <2>3 DEF SoftStatementFails, Crash
  <2>4. CASE \E f \in Files : TransientSkip(f) \/ FatalEmbed(f)
    BY <1>1, <2>4 DEF TransientSkip, FatalEmbed
  <2> QED
    BY <1>5, <2>1, <2>2, <2>3, <2>4 DEF Fault
<1>6. CASE (\E f \in Files : Edit(f)) \/ SwitchClient \/ RequestCancel
  BY <1>1, <1>6 DEF Edit, SwitchClient, RequestCancel
<1>7. CASE UNCHANGED vars
  BY <1>1, <1>7 DEF vars
<1> QED
  BY <1>2, <1>3, <1>4, <1>5, <1>6, <1>7 DEF Next, Environment

\* Losses are counted, a clear as a clear, and never forgotten.
LEMMA LossStep ==
  ASSUME LossTypes, [Next]_vars
  PROVE  /\ LossTypes'
         /\ ClearsSeen' => /\ ClearsSeen /\ ~RollbackLost
                           /\ StatementLost => Head(ops).op # "meta"
         /\ AllSeen' => AllSeen /\ ~StatementLost
<1>1. CASE StatementLost
  <2>1. \/ used' = Spend("clears") /\ Head(ops).op = "meta"
        \/ used' = Spend("rows") /\ Head(ops).op # "meta"
    <3>1. used' = Spend(IF Head(ops).op = "meta" THEN "clears" ELSE "rows")
      BY <1>1 DEF StatementLost
    <3> QED
      BY <3>1
  <2>2. ~RollbackLost
    <3>1. RollbackLost => pc = "commit" /\ pc' = "idle"
      BY DEF RollbackLost, Fail, ClearRun
    <3>2. pc' = pc
      BY <1>1 DEF StatementLost
    <3> QED
      BY <3>1, <3>2
  <2>3. CASE used' = Spend("clears") /\ Head(ops).op = "meta"
    <3>1. /\ LossTypes' /\ used'.clears = used.clears + 1 /\ used'.clears # 0
      BY <2>3 DEF LossTypes, Spend
    <3> QED
      BY <3>1 DEF ClearsSeen, AllSeen
  <2>4. CASE used' = Spend("rows") /\ Head(ops).op # "meta"
    <3>1. /\ LossTypes' /\ used'.clears = used.clears /\ used'.rows # 0
      BY <2>4 DEF LossTypes, Spend
    <3> QED
      BY <2>2, <2>4, <3>1 DEF ClearsSeen, RowsSeen, AllSeen
  <2> QED
    BY <2>1, <2>3, <2>4
<1>2. CASE RollbackLost
  <2> DEFINE spent == [Spend("errors") EXCEPT !.clears = @ + 1]
  <2>1. \E marked \in BOOLEAN : used' = IF marked THEN spent ELSE [spent EXCEPT !.soft = @ + 1]
    BY <1>2 DEF RollbackLost, Fail
  <2>2. {"clears", "rows"} \subseteq DOMAIN spent /\ spent.clears \in Nat \ {0} /\ spent.rows \in Nat
    <3>1. NoLoss(Spend("errors"))
      BY NoLossSpent
    <3> QED
      BY <3>1 DEF NoLoss, LossTypes
  <2> HIDE DEF spent
  <2>3. LossTypes' /\ used'.clears # 0
    BY <2>1, <2>2 DEF LossTypes
  <2> QED
    BY <2>3 DEF ClearsSeen, AllSeen
<1>3. CASE ~StatementLost /\ ~RollbackLost
  BY <1>3, NoLossStep DEF NoLoss, LossTypes, ClearsSeen, RowsSeen, AllSeen
<1> QED
  BY <1>1, <1>2, <1>3

LEMMA LossInit ==
  ASSUME Init
  PROVE  LossTypes
BY DEF Init, LossTypes

-----------------------------------------------------------------------------
(* One embedding space                                                     *)

Marker == db.index_meta.identity
Pure(id) == \A c \in db.chunk : c.id = id

JobKeys == {"mode", "force", "identity", "process", "delete", "indexed", "oldSymbols",
            "graphComplete"}

\* The shape of the state, as far as the statements depend on it.
SpaceTypes ==
    /\ DOMAIN disk = Files
    /\ \A f \in Files : disk[f] # Absent => disk[f].content \in Contents
    /\ DbShape(db) /\ IsFiniteSet(db.chunk)
    /\ \A c \in db.chunk : c.file \in Files
    /\ EdgesIn(db.raw_edge)
    /\ DOMAIN job = JobKeys
    /\ DOMAIN st = Files
    /\ \A f \in Files : /\ DOMAIN st[f] = {"at", "stamp", "ver"}
                        /\ st[f].at = "embedded" => st[f].ver.content \in Contents
    /\ IsFiniteSet(buf.chunk) /\ IsFiniteSet(buf.file_meta) /\ EdgesIn(buf.raw_edge)
    /\ \A c \in buf.chunk : c.id = job.identity /\ c.file \in Files
    /\ DOMAIN skipped = {"retry", "permanent"} /\ IsFiniteSet(skipped.permanent)

\* A statement inserts chunks of the run's space only and writes the run's identity,
\* or none; while the old rows are being removed it does neither.
StmtOK(s) ==
    /\ Shape(s)
    /\ s.op = "insert" /\ s.table = "chunk" =>
          /\ pc \notin {"preflight", "begin"} /\ IsFiniteSet(s.rows)
          /\ \A c \in s.rows : c.id = job.identity /\ c.file \in Files
    /\ s.op = "insert" /\ s.table = "raw_edge" => EdgesIn(s.rows)
    /\ s.op = "meta" /\ "identity" \in DOMAIN s.rows =>
          s.rows.identity = None \/ (s.rows.identity = job.identity /\ pc # "begin")
    /\ s.soft => s.op = "meta" /\ "identity" \notin DOMAIN s.rows

StatementsOK == IsSeq(ops) /\ \A s \in ToSet(ops) : StmtOK(s)

ClearMarkers == Meta([identity |-> None, raw_edge_complete |-> FALSE])

\* Where the run stands: an incremental run starts on vectors of its own space, a
\* full one has removed all others, and their marker, before it streams.
SpacePhase ==
    /\ pc = "idle" => ops = <<>>
    /\ pc # "stream" => buf.chunk = {}
    /\ pc # "idle" => job.mode \in {"full", "incr"}
    /\ pc = "plan" => job.mode = "incr"
    /\ pc = "preflight" /\ ops # <<>> => Pure(job.identity)
    /\ pc = "begin" /\ job.mode = "full" =>
          /\ Delete("chunk", Files) \in ToSet(ops) \/ db.chunk = {}
          /\ ClearMarkers \in ToSet(ops) \/ Marker = None
    /\ pc # "idle" /\ (job.mode = "incr" \/ pc \notin {"preflight", "begin"}) =>
          Pure(job.identity) /\ Marker \in {None, job.identity}

OneSpace == IdentitySound /\ OneEmbeddingSpace

SpaceInv == SpaceTypes /\ StatementsOK /\ SpacePhase /\ OneSpace

LEMMA GraphIsOK ==
  ASSUME NEW s, GraphStmt(s)
  PROVE  StmtOK(s) /\ StmtOK(s)'
BY DEF GraphStmt, StmtOK, EdgesIn

\* A run that ends leaves the vectors and at most takes their marker away.
LEMMA SpaceRunEnds ==
  ASSUME SpaceInv, ClearRun, disk' = disk, DbShape(db'), db'.chunk = db.chunk,
         db'.raw_edge = db.raw_edge, Marker' \in {Marker, None}
  PROVE  SpaceInv'
<1>1. SpaceTypes'
  <2>1. st' = [f \in Files |-> NoStage] /\ buf' = NoBuf /\ job' = NoJob
        /\ skipped' = [retry |-> {}, permanent |-> {}]
    BY DEF ClearRun
  <2>2. DOMAIN job' = JobKeys
    BY <2>1 DEF NoJob, JobKeys
  <2>3. DOMAIN st' = Files /\ \A f \in Files : DOMAIN st'[f] = {"at", "stamp", "ver"}
                                            /\ st'[f].at # "embedded"
    BY <2>1 DEF NoStage
  <2>4. buf'.chunk = {} /\ buf'.file_meta = {} /\ buf'.raw_edge = {}
    BY <2>1 DEF NoBuf
  <2>5. DOMAIN skipped' = {"retry", "permanent"} /\ skipped'.permanent = {}
    BY <2>1
  <2>6. IsFiniteSet(buf'.chunk) /\ IsFiniteSet(buf'.file_meta) /\ IsFiniteSet(skipped'.permanent)
    BY <2>4, <2>5, FS_EmptySet
  <2> QED
    BY <2>2, <2>3, <2>4, <2>5, <2>6 DEF SpaceInv, SpaceTypes, EdgesIn
<1>2. StatementsOK' /\ SpacePhase'
  <2>1. ops' = <<>> /\ pc' = "idle" /\ buf'.chunk = {}
    BY DEF ClearRun, NoBuf
  <2> QED
    BY <2>1, NoSeq DEF StatementsOK, SpacePhase
<1>3. OneSpace'
  BY DEF SpaceInv, OneSpace, IdentitySound, OneEmbeddingSpace, Marker
<1> QED
  BY <1>1, <1>2, <1>3 DEF SpaceInv

\* The durable part stays, and so does the job: what is left to show is what the
\* step does to the statements.
LEMMA SpaceIssue ==
  ASSUME SpaceInv, db' = db, job'.identity = job.identity, job'.mode = job.mode,
         SpaceTypes', StatementsOK', SpacePhase'
  PROVE  SpaceInv'
BY DEF SpaceInv, OneSpace, IdentitySound, OneEmbeddingSpace

LEMMA SpaceInit ==
  ASSUME Init
  PROVE  SpaceInv
<1>1. /\ DOMAIN db = TableNames
      /\ db.index_meta = [identity |-> None, raw_edge_complete |-> FALSE,
                          edges_resolved |-> FALSE, needs_rebuild |-> FALSE]
      /\ db.chunk = {} /\ db.raw_edge = {}
  BY DEF Init, TableNames, Tables
<1>2. DbShape(db) /\ Marker = None
  BY <1>1 DEF DbShape, MetaKeys, Marker
<1>3. /\ ops = <<>> /\ pc = "idle" /\ buf.chunk = {} /\ buf.file_meta = {} /\ buf.raw_edge = {}
      /\ DOMAIN skipped = {"retry", "permanent"} /\ skipped.permanent = {}
  BY DEF Init, NoBuf
<1>4. DOMAIN job = JobKeys
  BY DEF Init, NoJob, JobKeys
<1>5. DOMAIN st = Files /\ \A f \in Files : DOMAIN st[f] = {"at", "stamp", "ver"}
                                         /\ st[f].at # "embedded"
  BY DEF Init, NoStage
<1>6. DOMAIN disk = Files /\ \A f \in Files : disk[f] # Absent => disk[f].content \in Contents
  BY DEF Init
<1>7. IsFiniteSet(db.chunk) /\ IsFiniteSet(buf.chunk) /\ IsFiniteSet(buf.file_meta)
      /\ IsFiniteSet(skipped.permanent)
  BY <1>1, <1>3, FS_EmptySet
<1>8. SpaceTypes
  BY <1>1, <1>2, <1>3, <1>4, <1>5, <1>6, <1>7 DEF SpaceTypes, EdgesIn
<1>9. StatementsOK /\ SpacePhase
  BY <1>3, NoSeq DEF StatementsOK, SpacePhase
<1>10. OneSpace
  BY <1>1 DEF OneSpace, IdentitySound, OneEmbeddingSpace
<1> QED
  BY <1>8, <1>9, <1>10 DEF SpaceInv

\* The next statement, performed: chunks of the run's space are added or rows
\* removed, and the marker becomes the run's identity, or none.
LEMMA SpacePerform ==
  ASSUME SpaceInv, PerformNext
  PROVE  SpaceInv'
<1> DEFINE s == Head(ops)
<1>1. /\ ops # <<>> /\ db' = Perform(db, s) /\ ops' = Tail(ops)
      /\ UNCHANGED <<disk, pc, job, st, buf, skipped>>
  BY DEF PerformNext, runVars
<1>2. IsSeq(ops') /\ s \in ToSet(ops) /\ ToSet(ops) = {s} \cup ToSet(ops')
  BY <1>1, TailSeq DEF SpaceInv, StatementsOK
<1>3. StmtOK(s) /\ Shape(s) /\ DbShape(db)
  BY <1>2 DEF SpaceInv, StatementsOK, StmtOK, SpaceTypes
<1>4. StatementsOK'
  BY <1>1, <1>2 DEF SpaceInv, StatementsOK, StmtOK
<1>5. pc # "idle"
  BY <1>1 DEF SpaceInv, SpacePhase
<1> HIDE DEF s
<1>6. CASE s.op = "meta"
  <2>1. /\ DbShape(db') /\ db'.chunk = db.chunk /\ db'.raw_edge = db.raw_edge
        /\ Marker' = IF "identity" \in DOMAIN s.rows THEN s.rows.identity ELSE Marker
    BY <1>1, <1>3, <1>6, PerformMeta DEF Tables, MetaKeys, Marker
  <2>2. Marker' = Marker \/ Marker' = None \/ (Marker' = job.identity /\ pc # "begin")
    BY <1>3, <1>6, <2>1 DEF StmtOK
  <2>3. SpaceTypes'
    BY <1>1, <2>1 DEF SpaceInv, SpaceTypes, EdgesIn
  <2>4. pc \notin {"idle", "begin"} => Pure(job.identity)
    BY <1>1 DEF SpaceInv, SpacePhase
  <2>5. SpacePhase'
    <3>1. Delete("chunk", Files) # s
      BY <1>6, DeleteFields DEF Tables
    <3>2. ClearMarkers = s => Marker' = None
      <4>1. ClearMarkers.rows = [identity |-> None, raw_edge_complete |-> FALSE]
        BY MetaFields DEF ClearMarkers
      <4> QED
        BY <2>1, <4>1
    <3>3. pc = "begin" /\ job.mode = "full" =>
             /\ Delete("chunk", Files) \in ToSet(ops') \/ db'.chunk = {}
             /\ ClearMarkers \in ToSet(ops') \/ Marker' = None
      BY <1>1, <1>2, <2>1, <2>2, <3>1, <3>2 DEF SpaceInv, SpacePhase
    <3>4. \A i : Pure(i)' <=> Pure(i)
      BY <2>1 DEF Pure
    <3>5. pc # "idle" /\ (job.mode = "incr" \/ pc \notin {"preflight", "begin"}) =>
             Pure(job.identity)' /\ Marker' \in {None, job.identity}
      BY <1>1, <2>2, <3>4 DEF SpaceInv, SpacePhase, Pure
    <3> QED
      BY <1>1, <1>5, <2>4, <3>3, <3>4, <3>5 DEF SpaceInv, SpacePhase, Pure
  <2>6. OneSpace'
    <3>1. OneEmbeddingSpace'
      BY <2>1 DEF SpaceInv, OneSpace, OneEmbeddingSpace
    <3>2. CASE Marker' = Marker
      BY <2>1, <3>1, <3>2 DEF SpaceInv, OneSpace, IdentitySound, Marker
    <3>3. CASE Marker' = None
      BY <3>1, <3>3 DEF OneSpace, IdentitySound, Marker
    <3>4. CASE Marker' = job.identity /\ pc # "begin"
      BY <1>5, <2>1, <2>4, <3>1, <3>4 DEF OneSpace, IdentitySound, Marker, Pure
    <3> QED
      BY <2>2, <3>2, <3>3, <3>4
  <2> QED
    BY <1>4, <2>3, <2>5, <2>6 DEF SpaceInv
<1>7. CASE s.op = "insert"
  <2>1. /\ DbShape(db') /\ db'.index_meta = db.index_meta
        /\ \A t \in Tables \ {s.table} : db'[t] = db[t]
        /\ db'[s.table] = {r \in db[s.table] : \A n \in s.rows : ~SameKey(s.table, r, n)}
                          \cup s.rows
        /\ s.table \in Tables
    BY <1>1, <1>3, <1>7, PerformInsert DEF Shape
  <2>2. EdgesIn(db'.raw_edge)
    <3>1. CASE s.table = "raw_edge"
      BY <1>3, <1>7, <2>1, <3>1 DEF StmtOK, EdgesIn, SpaceInv, SpaceTypes
    <3>2. CASE s.table # "raw_edge"
      BY <2>1, <3>2 DEF Tables, SpaceInv, SpaceTypes
    <3> QED
      BY <3>1, <3>2
  <2>3. Marker' = Marker
    BY <2>1 DEF Marker
  <2>4. CASE s.table = "chunk"
    <3>1. /\ pc \notin {"idle", "preflight", "begin"} /\ IsFiniteSet(s.rows)
          /\ \A c \in s.rows : c.id = job.identity /\ c.file \in Files
      BY <1>3, <1>5, <1>7, <2>4 DEF StmtOK
    <3>2. Pure(job.identity) /\ Marker \in {None, job.identity}
      BY <3>1 DEF SpaceInv, SpacePhase
    <3>3. db'.chunk \subseteq db.chunk \cup s.rows
      BY <2>1, <2>4
    <3>4. Pure(job.identity)'
      BY <1>1, <3>1, <3>2, <3>3 DEF Pure
    <3>5. IsFiniteSet(db'.chunk) /\ \A c \in db'.chunk : c.file \in Files
      <4>1. IsFiniteSet(db.chunk \cup s.rows)
        BY <3>1, FS_Union DEF SpaceInv, SpaceTypes
      <4>2. IsFiniteSet(db'.chunk)
        BY <3>3, <4>1, FS_Subset
      <4> QED
        BY <3>1, <3>3, <4>2 DEF SpaceInv, SpaceTypes
    <3>6. SpaceTypes'
      BY <1>1, <2>1, <2>2, <3>5 DEF SpaceInv, SpaceTypes, EdgesIn
    <3>7. SpacePhase'
      BY <1>1, <2>3, <3>1, <3>2, <3>4 DEF SpaceInv, SpacePhase, Pure
    <3>8. OneSpace'
      BY <1>1, <2>3, <3>2, <3>4 DEF OneSpace, IdentitySound, OneEmbeddingSpace, Pure, Marker
    <3> QED
      BY <1>4, <3>6, <3>7, <3>8 DEF SpaceInv
  <2>5. CASE s.table # "chunk"
    <3>1. db'.chunk = db.chunk
      BY <2>1, <2>5 DEF Tables
    <3>2. SpaceTypes'
      BY <1>1, <2>1, <2>2, <3>1 DEF SpaceInv, SpaceTypes, EdgesIn
    <3>3. s # Delete("chunk", Files) /\ s # ClearMarkers
      BY <1>7, DeleteFields, MetaFields DEF Tables, ClearMarkers
    <3>4. SpacePhase'
      BY <1>1, <1>2, <1>5, <2>3, <3>1, <3>3 DEF SpaceInv, SpacePhase, Pure
    <3>5. OneSpace'
      BY <2>1, <3>1 DEF SpaceInv, OneSpace, IdentitySound, OneEmbeddingSpace
    <3> QED
      BY <1>4, <3>2, <3>4, <3>5 DEF SpaceInv
  <2> QED
    BY <2>4, <2>5
<1>8. CASE s.op = "delete"
  <2>1. /\ DbShape(db') /\ db'.index_meta = db.index_meta
        /\ \A t \in Tables \ {s.table} : db'[t] = db[t]
        /\ db'[s.table] = {r \in db[s.table] : r.file \notin s.files}
        /\ s.table \in Tables
    <3>1. s.table \in Tables
      BY <1>3, <1>8 DEF Shape
    <3> QED
      BY SMTT(60), <1>1, <1>3, <1>8, <3>1, PerformDelete
  <2>2. db'.chunk \subseteq db.chunk /\ db'.raw_edge \subseteq db.raw_edge
    BY <2>1 DEF Tables
  <2>3. IsFiniteSet(db'.chunk)
    BY <2>2, FS_Subset DEF SpaceInv, SpaceTypes
  <2>4. SpaceTypes'
    BY <1>1, <2>1, <2>2, <2>3 DEF SpaceInv, SpaceTypes, EdgesIn
  <2>5. s = Delete("chunk", Files) => db'.chunk = {}
    <3>1. SUFFICES ASSUME s = Delete("chunk", Files) PROVE db'.chunk = {}
      OBVIOUS
    <3>2. s.table = "chunk" /\ s.files = Files
      BY <3>1, DeleteFields DEF Tables
    <3> QED
      BY <2>1, <3>2 DEF SpaceInv, SpaceTypes
  <2>6. s # ClearMarkers
    BY <1>8, MetaFields DEF ClearMarkers
  <2>7. Marker' = Marker
    BY <2>1 DEF Marker
  <2>8. db.chunk = {} => db'.chunk = {}
    BY <2>2
  <2>9. \A i : Pure(i) => Pure(i)'
    BY <2>2 DEF Pure
  <2>10. SpacePhase'
    <3>1. pc = "begin" /\ job.mode = "full" =>
             /\ Delete("chunk", Files) \in ToSet(ops') \/ db'.chunk = {}
             /\ ClearMarkers \in ToSet(ops') \/ Marker' = None
      BY <1>1, <1>2, <2>5, <2>6, <2>7, <2>8 DEF SpaceInv, SpacePhase
    <3> QED
      BY <1>1, <1>5, <2>7, <2>9, <3>1 DEF SpaceInv, SpacePhase, Pure
  <2>11. OneSpace'
    BY <2>1, <2>2 DEF SpaceInv, OneSpace, IdentitySound, OneEmbeddingSpace
  <2> QED
    BY <1>4, <2>4, <2>10, <2>11 DEF SpaceInv
<1> QED
  BY <1>3, <1>6, <1>7, <1>8 DEF Shape

\* Every way a run ends, as what it does to the database.
LEMMA SpaceEnds ==
  ASSUME SpaceInv,
         StatementFails \/ PreflightFails \/ AbortStream \/ Crash \/ Finish
            \/ CancelBeforeRebuild \/ CancelBeforeStatement
  PROVE  SpaceInv'
<1> DEFINE rolled == Perform(db, Meta([identity |-> None, edges_resolved |-> FALSE]))
           Kept(d) == /\ DbShape(d) /\ d.chunk = db.chunk /\ d.raw_edge = db.raw_edge
                      /\ d.index_meta.identity \in {Marker, None}
<1>1. DbShape(db) /\ Kept(db)
  BY DEF SpaceInv, SpaceTypes, Marker
<1>2. Kept(rolled)
  <2>1. Meta([identity |-> None, edges_resolved |-> FALSE]).op = "meta"
        /\ Meta([identity |-> None, edges_resolved |-> FALSE]).rows
             = [identity |-> None, edges_resolved |-> FALSE]
    BY MetaFields
  <2> QED
    BY <1>1, <2>1, PerformMeta DEF Tables, MetaKeys
<1>3. ASSUME NEW d, Kept(d) PROVE Kept(Perform(d, Meta([needs_rebuild |-> TRUE])))
  <2>1. Meta([needs_rebuild |-> TRUE]).op = "meta"
        /\ Meta([needs_rebuild |-> TRUE]).rows = [needs_rebuild |-> TRUE]
    BY MetaFields
  <2> QED
    BY <1>3, <2>1, PerformMeta DEF Tables, MetaKeys
<1>4. ASSUME NEW d, Kept(d), NEW isFatal, NEW spent, Fail(d, isFatal, spent) PROVE SpaceInv'
  <2>1. ClearRun /\ disk' = disk /\ db' \in {d, Perform(d, Meta([needs_rebuild |-> TRUE]))}
    BY <1>4 DEF Fail
  <2>2. Kept(db')
    BY <1>3, <1>4, <2>1
  <2> QED
    BY <2>1, <2>2, SpaceRunEnds DEF Marker
<1>5. ASSUME ClearRun, disk' = disk, db' = db PROVE SpaceInv'
  BY <1>1, <1>5, SpaceRunEnds DEF Marker
<1> HIDE DEF Kept, rolled
<1>6. CASE StatementFails
  <2>1. Fail(IF pc = "commit" /\ Head(ops).op = "meta" THEN rolled ELSE db, FALSE, Spend("errors"))
    BY <1>6 DEF StatementFails, rolled
  <2>2. CASE pc = "commit" /\ Head(ops).op = "meta"
    BY <1>2, <1>4, <2>1, <2>2
  <2>3. CASE ~(pc = "commit" /\ Head(ops).op = "meta")
    BY <1>1, <1>4, <2>1, <2>3
  <2> QED
    BY <2>2, <2>3
<1>7. CASE PreflightFails
  BY <1>1, <1>4, <1>7 DEF PreflightFails
<1>8. CASE AbortStream
  BY <1>1, <1>4, <1>5, <1>8 DEF AbortStream, Cancelled
<1>9. CASE Crash \/ Finish \/ CancelBeforeRebuild \/ CancelBeforeStatement
  BY <1>5, <1>9 DEF Crash, Finish, CancelBeforeRebuild, CancelBeforeStatement, Cancelled
<1> QED
  BY <1>6, <1>7, <1>8, <1>9

\* Edits, settings and cancels, and a statement whose failure is ignored or not
\* seen: it is never one that moves the marker or removes vectors.
LEMMA SpaceAround ==
  ASSUME SpaceInv,
         SoftStatementFails \/ (StatementLost /\ Head(ops).op # "meta")
            \/ (\E f \in Files : Edit(f)) \/ SwitchClient \/ RequestCancel
  PROVE  SpaceInv'
<1>1. CASE SoftStatementFails \/ (StatementLost /\ Head(ops).op # "meta")
  <2>1. ops # <<>> /\ (Head(ops).soft \/ (Unchecked(Head(ops)) /\ Head(ops).op # "meta"))
        /\ ops' = Tail(ops) /\ UNCHANGED <<disk, db, pc, job, st, buf, skipped>>
    BY <1>1 DEF SoftStatementFails, StatementLost, runVars
  <2>2. IsSeq(ops') /\ Head(ops) \in ToSet(ops) /\ ToSet(ops) = {Head(ops)} \cup ToSet(ops')
    BY <2>1, TailSeq DEF SpaceInv, StatementsOK
  <2>3. StmtOK(Head(ops))
    BY <2>2 DEF SpaceInv, StatementsOK
  <2>4. pc = "begin" => Head(ops) # Delete("chunk", Files) /\ Head(ops) # ClearMarkers
    <3>1. "identity" \in DOMAIN ClearMarkers.rows /\ ClearMarkers.op = "meta"
      BY MetaFields DEF ClearMarkers
    <3>2. Delete("chunk", Files).op = "delete"
      BY DeleteFields DEF Tables
    <3> QED
      BY <2>1, <2>3, <3>1, <3>2 DEF StmtOK, Unchecked, Clears
  <2>5. SpaceTypes'
    BY <2>1 DEF SpaceInv, SpaceTypes, EdgesIn
  <2>6. StatementsOK'
    BY <2>1, <2>2 DEF SpaceInv, StatementsOK, StmtOK
  <2>7. SpacePhase'
    BY <2>1, <2>2, <2>4 DEF SpaceInv, SpacePhase, Pure, Marker
  <2> QED
    BY <2>1, <2>5, <2>6, <2>7, SpaceIssue
<1>2. ASSUME NEW f \in Files, Edit(f) PROVE SpaceInv'
  <2>1. PICK v \in [stamp : {used.edits + 1}, content : Contents] \cup {Absent} :
           disk' = [disk EXCEPT ![f] = v]
    BY <1>2 DEF Edit
  <2>2. UNCHANGED <<db, pc, ops, job, st, buf, skipped>>
    BY <1>2 DEF Edit, runVars
  <2>3. v # Absent => v.content \in Contents
    BY <2>1
  <2>4. /\ DOMAIN disk' = Files
        /\ \A g \in Files : disk'[g] # Absent => disk'[g].content \in Contents
    BY <2>1, <2>3 DEF SpaceInv, SpaceTypes
  <2>5. SpaceTypes'
    BY <2>2, <2>4 DEF SpaceInv, SpaceTypes, EdgesIn
  <2>6. StatementsOK' /\ SpacePhase'
    BY <2>2 DEF SpaceInv, StatementsOK, StmtOK, SpacePhase, Pure, Marker
  <2> QED
    BY <2>2, <2>5, <2>6, SpaceIssue
<1>3. CASE SwitchClient \/ RequestCancel
  <2>1. UNCHANGED <<disk, db, pc, ops, job, st, buf, skipped>>
    BY <1>3 DEF SwitchClient, RequestCancel, runVars
  <2>2. SpaceTypes'
    BY <2>1 DEF SpaceInv, SpaceTypes, EdgesIn
  <2>3. StatementsOK' /\ SpacePhase'
    BY <2>1 DEF SpaceInv, StatementsOK, StmtOK, SpacePhase, Pure, Marker
  <2> QED
    BY <2>1, <2>2, <2>3, SpaceIssue
<1> QED
  BY <1>1, <1>2, <1>3

\* The probe looks at a stored vector at least, and one vector stands for all.
LEMMA ProbeShowsSpace ==
  ASSUME SpaceInv, stored_vectors_match_client(client)
  PROVE  Pure(client)
<1>1. PICK S \in SUBSET db.chunk :
         /\ Cardinality(S) = IF Cardinality(db.chunk) < IDENTITY_PROBE_SAMPLES
                             THEN Cardinality(db.chunk) ELSE IDENTITY_PROBE_SAMPLES
         /\ \A c \in S : c.id = client
  BY DEF stored_vectors_match_client
<1>2. Cardinality(db.chunk) \in Nat /\ Cardinality(db.chunk) # 0
  BY FS_CardinalityType, FS_EmptySet DEF SpaceInv, SpaceTypes, stored_vectors_match_client
<1>3. Cardinality(S) # 0
  BY <1>1, <1>2, PipelineAssumption
<1>4. PICK c \in S : TRUE
  BY <1>3, FS_EmptySet
<1> QED
  BY <1>1, <1>4 DEF SpaceInv, OneSpace, OneEmbeddingSpace, Pure

LEMMA SpaceStart ==
  ASSUME SpaceInv, NEW changes, NEW forced, StartRun(changes, forced)
  PROVE  SpaceInv'
<1> DEFINE marker == db.index_meta.identity
           force == forced \/ db.index_meta.needs_rebuild
           hasData == Stored # {}
           unmarked == marker = None /\ hasData
           Rebuild(adopt) == ~hasData \/ force \/ identity_forces_rebuild(marker, hasData, adopt)
           adoptOp(adopt) == IF adopt THEN <<Meta([identity |-> client])>> ELSE <<>>
           retryOp(adopt) == IF Rebuild(adopt) \/ Vanished = {} THEN <<>>
                             ELSE <<Delete("pending_retry", Vanished)>>
<1>1. PICK adopt \in BOOLEAN :
         /\ adopt => unmarked /\ stored_vectors_match_client(client)
         /\ ops' = adoptOp(adopt) \o retryOp(adopt)
         /\ DOMAIN job' = JobKeys /\ job'.identity = client
         /\ job'.mode = IF Rebuild(adopt) THEN "full" ELSE "incr"
         /\ pc' \in {"preflight", "nochange", "plan"}
         /\ pc' = "preflight" <=> Rebuild(adopt)
  BY DEF StartRun, JobKeys
<1>2. UNCHANGED <<disk, db, st, buf, skipped>> /\ pc = "idle"
  BY DEF StartRun
<1>3. adopt => Pure(client)
  BY <1>1, ProbeShowsSpace
<1>4. ~Rebuild(adopt) => Pure(client) /\ marker \in {None, client}
  <2>1. SUFFICES ASSUME ~Rebuild(adopt) PROVE Pure(client) /\ marker \in {None, client}
    OBVIOUS
  <2>2. CASE marker = None
    BY <1>3, <2>1, <2>2 DEF identity_forces_rebuild
  <2>3. CASE marker # None
    <3>1. marker = client
      BY <2>1, <2>3 DEF identity_forces_rebuild
    <3> QED
      BY <2>3, <3>1 DEF SpaceInv, OneSpace, IdentitySound, Pure
  <2> QED
    BY <2>2, <2>3
<1>5. buf.chunk = {}
  BY <1>2 DEF SpaceInv, SpacePhase
<1>6. SpaceTypes'
  BY <1>1, <1>2, <1>5 DEF SpaceInv, SpaceTypes, EdgesIn
<1>7. IsSeq(adoptOp(adopt)) /\ ToSet(adoptOp(adopt)) \subseteq {Meta([identity |-> client])}
      /\ (~adopt => adoptOp(adopt) = <<>>)
  BY NoSeq, OneSeq
<1>8. IsSeq(retryOp(adopt)) /\ ToSet(retryOp(adopt)) \subseteq {Delete("pending_retry", Vanished)}
      /\ (Rebuild(adopt) => retryOp(adopt) = <<>>)
  <2> HIDE DEF Rebuild
  <2>1. CASE Rebuild(adopt) \/ Vanished = {}
    BY <2>1, NoSeq
  <2>2. CASE ~(Rebuild(adopt) \/ Vanished = {})
    BY <2>2, OneSeq
  <2> QED
    BY <2>1, <2>2
<1> HIDE DEF marker, force, hasData, unmarked, Rebuild, adoptOp, retryOp
<1>9. StatementsOK'
  <2>1. IsSeq(ops')
        /\ ToSet(ops') \subseteq {Meta([identity |-> client]), Delete("pending_retry", Vanished)}
    BY <1>1, <1>7, <1>8, ConcatSeq
  <2>2. ASSUME NEW s \in ToSet(ops') PROVE StmtOK(s)'
    <3>1. CASE s = Meta([identity |-> client])
      <4>1. Shape(s) /\ s.op = "meta" /\ s.rows = [identity |-> client] /\ ~s.soft
        BY <3>1, MetaFields
      <4>2. s.rows.identity = job'.identity /\ pc' # "begin"
        BY <1>1, <4>1
      <4> QED
        BY <4>1, <4>2 DEF StmtOK
    <3>2. CASE s = Delete("pending_retry", Vanished)
      <4>1. Shape(s) /\ s.op = "delete" /\ ~s.soft
        BY <3>2, DeleteFields DEF Tables
      <4> QED
        BY <4>1 DEF StmtOK
    <3> QED
      BY <2>1, <3>1, <3>2
  <2> QED
    BY <2>1, <2>2 DEF StatementsOK
<1>10. SpacePhase'
  <2>1. Rebuild(adopt) /\ ~adopt => ops' = <<>>
    BY <1>1, <1>7, <1>8
  <2>2. \A i : Pure(i) => Pure(i)'
    BY <1>2 DEF Pure
  <2>3. Marker' = marker
    BY <1>2 DEF Marker, marker
  <2>4. pc' = "preflight" /\ ops' # <<>> => Pure(job.identity)'
    BY <1>1, <1>3, <2>1, <1>2 DEF Pure
  <2>5. pc' # "preflight" => Pure(job.identity)' /\ Marker' \in {None, job'.identity}
    BY <1>1, <1>2, <1>4, <2>3 DEF Pure
  <2>6. job'.mode \in {"full", "incr"} /\ (job'.mode = "incr" => pc' # "preflight")
    BY <1>1
  <2> QED
    BY <1>1, <1>2, <1>5, <2>4, <2>5, <2>6 DEF SpacePhase
<1>11. OneSpace'
  BY <1>2 DEF SpaceInv, OneSpace, IdentitySound, OneEmbeddingSpace
<1> QED
  BY <1>6, <1>9, <1>10, <1>11 DEF SpaceInv

\* Deletes and markers other than the identity are always in order.
LEMMA PlainIsOK ==
  ASSUME NEW s, NEW t \in Tables, NEW files, NEW m,
         \/ s = Delete(t, files)
         \/ s \in {Meta(m), Soft(Meta(m))} /\ "identity" \notin DOMAIN m
         \/ s = Meta(m) /\ m.identity = None
  PROVE  StmtOK(s)'
<1>1. CASE s = Delete(t, files)
  BY <1>1, DeleteFields DEF StmtOK
<1>2. CASE s \in {Meta(m), Soft(Meta(m))} /\ "identity" \notin DOMAIN m
  BY <1>2, MetaFields DEF StmtOK
<1>3. CASE s = Meta(m) /\ m.identity = None
  BY <1>3, MetaFields DEF StmtOK
<1> QED
  BY <1>1, <1>2, <1>3

\* The bulk deletes go first; a full rebuild deletes every chunk and the marker.
LEMMA SpaceBegin ==
  ASSUME SpaceInv, BeginFull \/ BeginIncremental
  PROVE  SpaceInv'
<1>1. CASE BeginFull
  <2> DEFINE es == Soft(Meta([edges_resolved |-> FALSE]))
  <2>1. /\ ops' = <<ClearMarkers, Delete("calls", Files), Delete("raw_edge", Files),
                    Delete("symbol", Files), Delete("chunk", Files),
                    Delete("file_meta", Files), es>>
        /\ pc' = "begin" /\ pc = "preflight" /\ UNCHANGED <<disk, db, job, st, buf, skipped>>
    BY <1>1 DEF BeginFull, ClearMarkers, runVars
  <2> HIDE DEF es
  <2>2. IsSeq(ops') /\ ToSet(ops') = {ClearMarkers, Delete("calls", Files),
            Delete("raw_edge", Files), Delete("symbol", Files), Delete("chunk", Files),
            Delete("file_meta", Files), es}
    BY <2>1, SevenSeq
  <2>3. ASSUME NEW s \in ToSet(ops') PROVE StmtOK(s)'
    <3>1. CASE s = ClearMarkers
      <4>1. [identity |-> None, raw_edge_complete |-> FALSE].identity = None
        OBVIOUS
      <4> QED
        BY <3>1, <4>1, PlainIsOK DEF ClearMarkers, Tables
    <3>2. CASE s = es
      BY <3>2, PlainIsOK DEF es, Tables
    <3>3. CASE s # ClearMarkers /\ s # es
      <4>1. \E t \in Tables : s = Delete(t, Files)
        BY <2>2, <3>3 DEF Tables
      <4> QED
        BY <4>1, PlainIsOK
    <3> QED
      BY <3>1, <3>2, <3>3
  <2>4. SpaceTypes'
    BY <2>1 DEF SpaceInv, SpaceTypes, EdgesIn
  <2>5. StatementsOK'
    BY <2>2, <2>3 DEF StatementsOK
  <2>7. SpacePhase'
    BY <2>1, <2>2 DEF SpaceInv, SpacePhase, Pure, Marker
  <2> QED
    BY <2>1, <2>4, <2>5, <2>7, SpaceIssue
<1>2. CASE BeginIncremental
  <2> DEFINE affected == job.process \cup job.delete
             old == Meta([identity |-> None, edges_resolved |-> FALSE])
  <2>1. /\ ops' = <<old, Delete("symbol", affected), Delete("chunk", affected),
                    Delete("raw_edge", affected), Delete("file_meta", affected)>>
        /\ pc' = "begin" /\ pc = "plan" /\ UNCHANGED <<disk, db, st, buf, skipped>>
    BY <1>2 DEF BeginIncremental
  <2>2. DOMAIN job' = JobKeys /\ job'.identity = job.identity /\ job'.mode = job.mode
    BY <1>2 DEF BeginIncremental, SpaceInv, SpaceTypes, JobKeys
  <2> HIDE DEF affected, old
  <2>3. IsSeq(ops') /\ ToSet(ops') = {old, Delete("symbol", affected), Delete("chunk", affected),
                    Delete("raw_edge", affected), Delete("file_meta", affected)}
    BY <2>1, FiveSeq
  <2>4. ASSUME NEW s \in ToSet(ops') PROVE StmtOK(s)'
    <3>1. CASE s = old
      <4>1. [identity |-> None, edges_resolved |-> FALSE].identity = None
        OBVIOUS
      <4> QED
        BY <3>1, <4>1, PlainIsOK DEF old, Tables
    <3>2. CASE s # old
      <4>1. \E t \in Tables : s = Delete(t, affected)
        BY <2>3, <3>2 DEF Tables
      <4> QED
        BY <4>1, PlainIsOK
    <3> QED
      BY <3>1, <3>2
  <2>5. SpaceTypes'
    BY <2>1, <2>2 DEF SpaceInv, SpaceTypes, EdgesIn
  <2>6. StatementsOK'
    BY <2>3, <2>4 DEF StatementsOK
  <2>7. SpacePhase'
    BY <2>1, <2>2 DEF SpaceInv, SpacePhase, Pure, Marker
  <2> QED
    BY <2>1, <2>2, <2>5, <2>6, <2>7, SpaceIssue
<1> QED
  BY <1>1, <1>2

LEMMA SpaceStartStream ==
  ASSUME SpaceInv, StartStream
  PROVE  SpaceInv'
<1>1. /\ pc = "begin" /\ ops = <<>> /\ pc' \in {"tail", "stream"}
      /\ st' = [f \in Files |-> IF f \in job.process THEN [NoStage EXCEPT !.at = "todo"]
                                ELSE NoStage]
      /\ UNCHANGED <<disk, db, ops, job, buf, skipped>>
  BY DEF StartStream
<1>2. DOMAIN st' = Files /\ \A f \in Files : DOMAIN st'[f] = {"at", "stamp", "ver"}
                                          /\ st'[f].at # "embedded"
  BY <1>1 DEF NoStage
<1>3. SpaceTypes'
  BY <1>1, <1>2 DEF SpaceInv, SpaceTypes, EdgesIn
<1>4. ToSet(ops) = {}
  BY <1>1, NoSeq
<1>5. StatementsOK'
  BY <1>1, <1>4 DEF SpaceInv, StatementsOK
<1>6. job.mode = "full" => db.chunk = {} /\ Marker = None
  BY <1>1, <1>4 DEF SpaceInv, SpacePhase
<1>7. Pure(job.identity) /\ Marker \in {None, job.identity}
  <2>1. CASE job.mode = "full"
    BY <1>6, <2>1 DEF Pure
  <2>2. CASE job.mode # "full"
    BY <1>1, <2>2 DEF SpaceInv, SpacePhase
  <2> QED
    BY <2>1, <2>2
<1>8. SpacePhase'
  BY <1>1, <1>7 DEF SpaceInv, SpacePhase, Pure, Marker
<1> QED
  BY <1>1, <1>3, <1>5, <1>8, SpaceIssue

\* A step of the stream that hands nothing to the database.
LEMMA SpaceReading ==
  ASSUME SpaceInv, NEW f \in Files,
         StatFile(f) \/ ReadAndEmbed(f) \/ TransientSkip(f) \/ FatalEmbed(f)
  PROVE  SpaceInv'
<1>1. pc = "stream" /\ UNCHANGED <<disk, db, pc, job, ops, buf>>
  BY DEF StatFile, ReadAndEmbed, TransientSkip, FatalEmbed, Streaming
<1>2. DOMAIN st = Files /\ DOMAIN st[f] = {"at", "stamp", "ver"}
      /\ DOMAIN skipped = {"retry", "permanent"} /\ IsFiniteSet(skipped.permanent)
  BY DEF SpaceInv, SpaceTypes
<1> DEFINE Done == [NoStage EXCEPT !.at = "done"]
           Staged == [st EXCEPT ![f].at = "stat", ![f].stamp = disk[f]]
           Embedded == [st EXCEPT ![f].at = "embedded", ![f].ver = disk[f]]
           StOK(q) == /\ DOMAIN q = Files
                      /\ \A g \in Files : /\ DOMAIN q[g] = {"at", "stamp", "ver"}
                                          /\ q[g].at = "embedded" => q[g].ver.content \in Contents
<1>3. StOK([st EXCEPT ![f] = Done])
  BY <1>2 DEF SpaceInv, SpaceTypes, NoStage
<1>4. StOK(Staged)
  BY <1>2 DEF SpaceInv, SpaceTypes
<1>5. disk[f] # Absent => StOK(Embedded)
  BY <1>2 DEF SpaceInv, SpaceTypes
<1> HIDE DEF StOK, Done, Staged, Embedded
<1>6. StOK(st')
  <2>1. CASE StatFile(f)
    BY <1>3, <1>4, <2>1 DEF StatFile, SkipForRetry, Staged, Done
  <2>2. CASE ReadAndEmbed(f)
    BY <1>3, <1>5, <2>2 DEF ReadAndEmbed, SkipForRetry, Embedded, Done
  <2>3. CASE TransientSkip(f) \/ FatalEmbed(f)
    BY <1>3, <2>3 DEF TransientSkip, FatalEmbed, SkipForRetry, Done
  <2> QED
    BY <2>1, <2>2, <2>3
<1>7. DOMAIN skipped' = {"retry", "permanent"} /\ IsFiniteSet(skipped'.permanent)
  <2>1. ASSUME skipped' = [skipped EXCEPT !.retry = @ \cup {f}]
        PROVE  DOMAIN skipped' = {"retry", "permanent"} /\ IsFiniteSet(skipped'.permanent)
    BY <1>2, <2>1
  <2>2. ASSUME NEW r, skipped' = [skipped EXCEPT !.permanent = @ \cup {r}]
        PROVE  DOMAIN skipped' = {"retry", "permanent"} /\ IsFiniteSet(skipped'.permanent)
    <3>1. IsFiniteSet(skipped.permanent \cup {r})
      BY <1>2, FS_AddElement
    <3> QED
      BY <1>2, <2>2, <3>1
  <2>3. ASSUME skipped' = skipped
        PROVE  DOMAIN skipped' = {"retry", "permanent"} /\ IsFiniteSet(skipped'.permanent)
    BY <1>2, <2>3
  <2>4. CASE StatFile(f) \/ TransientSkip(f) \/ FatalEmbed(f)
    BY <2>1, <2>3, <2>4 DEF StatFile, TransientSkip, FatalEmbed, SkipForRetry
  <2>5. CASE ReadAndEmbed(f)
    BY <2>1, <2>2, <2>3, <2>5 DEF ReadAndEmbed, SkipForRetry
  <2> QED
    BY <2>4, <2>5
<1>8. SpaceTypes'
  BY <1>1, <1>6, <1>7 DEF SpaceInv, SpaceTypes, EdgesIn, StOK
<1>9. StatementsOK' /\ SpacePhase'
  BY <1>1 DEF SpaceInv, StatementsOK, StmtOK, SpacePhase, Pure, Marker
<1> QED
  BY <1>1, <1>8, <1>9, SpaceIssue

\* Statements a run of space `id` may issue once the old rows are gone.
SafeStmt(s, id) ==
    /\ Shape(s) /\ (s.soft => s.op = "meta" /\ "identity" \notin DOMAIN s.rows)
    /\ s.op = "insert" /\ s.table = "chunk" =>
          IsFiniteSet(s.rows) /\ \A c \in s.rows : c.id = id /\ c.file \in Files
    /\ s.op = "insert" /\ s.table = "raw_edge" => EdgesIn(s.rows)
    /\ s.op = "meta" /\ "identity" \in DOMAIN s.rows => s.rows.identity \in {None, id}

SafeSeq(q, id) == IsSeq(q) /\ \A s \in ToSet(q) : SafeStmt(s, id)

RowsOK(t, rows, id) ==
    /\ t = "chunk" => IsFiniteSet(rows) /\ \A c \in rows : c.id = id /\ c.file \in Files
    /\ t = "raw_edge" => EdgesIn(rows)

LEMMA SafeConcat ==
  ASSUME NEW id, NEW a, NEW b, SafeSeq(a, id), SafeSeq(b, id)
  PROVE  SafeSeq(a \o b, id)
BY ConcatSeq DEF SafeSeq

LEMMA SafeParts ==
  ASSUME NEW id
  PROVE  /\ SafeSeq(<<>>, id)
         /\ \A s : SafeStmt(s, id) => SafeSeq(<<s>>, id)
         /\ \A t \in Tables : \A rows : RowsOK(t, rows, id) =>
               SafeStmt(Insert(t, rows), id) /\ SafeSeq(InsertSome(t, rows), id)
         /\ \A t \in Tables : \A files : SafeStmt(Delete(t, files), id)
         /\ \A rows : IsFiniteSet(rows) => SafeSeq(upsert_file_meta(rows), id)
<1>1. SafeSeq(<<>>, id)
  BY NoSeq DEF SafeSeq
<1>2. ASSUME NEW s, SafeStmt(s, id) PROVE SafeSeq(<<s>>, id)
  BY <1>2, OneSeq DEF SafeSeq
<1>3. ASSUME NEW t \in Tables, NEW rows, RowsOK(t, rows, id)
      PROVE  SafeStmt(Insert(t, rows), id) /\ SafeSeq(InsertSome(t, rows), id)
  <2>1. SafeStmt(Insert(t, rows), id)
    BY <1>3, InsertFields DEF SafeStmt, RowsOK
  <2>2. CASE rows = {}
    BY <1>1, <2>1, <2>2 DEF InsertSome
  <2>3. CASE rows # {}
    BY <1>2, <2>1, <2>3 DEF InsertSome
  <2> QED
    BY <2>1, <2>2, <2>3
<1>4. ASSUME NEW t \in Tables, NEW files PROVE SafeStmt(Delete(t, files), id)
  BY DeleteFields DEF SafeStmt
<1>5. ASSUME NEW rows, IsFiniteSet(rows) PROVE SafeSeq(upsert_file_meta(rows), id)
  <2>1. /\ IsSeq(upsert_file_meta(rows))
        /\ \A s \in ToSet(upsert_file_meta(rows)) : \E r \in rows : s = Insert("file_meta", {r})
    BY <1>5, UpsertStatements
  <2>2. "file_meta" \in Tables /\ \A r : RowsOK("file_meta", {r}, id)
    BY DEF Tables, RowsOK
  <2> QED
    BY <1>3, <2>1, <2>2 DEF SafeSeq
<1> QED
  BY <1>1, <1>2, <1>3, <1>4, <1>5

\* A step that issues safe statements outside the phases that remove old rows.
LEMMA SpaceSafe ==
  ASSUME SpaceInv, UNCHANGED <<disk, db, job>>, SpaceTypes',
         pc \notin {"idle", "preflight", "begin"}, SafeSeq(ops', job.identity),
         pc' \notin {"idle", "plan", "preflight", "begin"},
         pc' # "stream" => buf'.chunk = {}
  PROVE  SpaceInv'
<1>1. StatementsOK'
  BY DEF SafeSeq, SafeStmt, StatementsOK, StmtOK
<1>2. Pure(job.identity) /\ Marker \in {None, job.identity} /\ job.mode \in {"full", "incr"}
  BY DEF SpaceInv, SpacePhase
<1>3. SpacePhase'
  BY <1>2 DEF SpacePhase, Pure, Marker
<1> QED
  BY <1>1, <1>3, SpaceIssue

LEMMA GraphIsSafe ==
  ASSUME NEW id, NEW s, GraphStmt(s)
  PROVE  SafeStmt(s, id)
BY DEF GraphStmt, SafeStmt, EdgesIn

LEMMA SpaceStore ==
  ASSUME SpaceInv, NEW f \in Files, StoreFile(f)
  PROVE  SpaceInv'
<1> DEFINE v        == st[f].ver
           symbols  == buf.symbol \cup SymbolsOf[f][v.content]
           raw      == buf.raw_edge \cup EdgesOf[f][v.content]
           symFull  == Cardinality(symbols) >= SYM_BATCH_SIZE
           rawFull  == Cardinality(raw) >= RAW_EDGE_INSERT_BATCH_SIZE
           symLeft  == IF symFull THEN {} ELSE symbols
           rawLeft  == IF rawFull THEN {} ELSE raw
           room     == WRITE_BATCH_SIZE - Cardinality(buf.chunk)
           chunks   == ChunksOf(f, v, job.identity)
           fitting  == {c \in chunks : c.part <= room}
           boundary == Cardinality(chunks) >= room
           meta     == {[file |-> f, stamp |-> RecordedStamp(f)]}
           oSym     == IF symFull THEN InsertSome("symbol", symbols) ELSE <<>>
           oRaw     == IF rawFull THEN InsertSome("raw_edge", raw) ELSE <<>>
           oEnd     == IF boundary
                       THEN FlushBoundary(buf.chunk \cup fitting, rawLeft, symLeft, buf.file_meta)
                       ELSE <<>>
           Done     == [NoStage EXCEPT !.at = "done"]
<1>1. /\ pc = "stream" /\ pc' = "stream" /\ UNCHANGED <<disk, db, job, skipped>>
      /\ st[f].at = "embedded" /\ ops' = (oSym \o oRaw) \o oEnd
      /\ st' = [st EXCEPT ![f] = Done]
      /\ buf' = IF boundary
                THEN [chunk |-> chunks \ fitting, symbol |-> {}, raw_edge |-> {},
                      file_meta |-> meta]
                ELSE [chunk |-> buf.chunk \cup chunks, symbol |-> symLeft,
                      raw_edge |-> rawLeft, file_meta |-> buf.file_meta \cup meta]
  BY ZenonT(60) DEF StoreFile, Streaming
<1>2. v.content \in Contents
  BY <1>1 DEF SpaceInv, SpaceTypes
<1>3. IsFiniteSet(chunks) /\ \A c \in chunks : c.id = job.identity /\ c.file \in Files
  <2> DEFINE all == {[file |-> f, ver |-> v, part |-> p, id |-> job.identity] : p \in Parts}
  <2>1. IsFiniteSet(all)
    <3> DEFINE g == [p \in Parts |-> [file |-> f, ver |-> v, part |-> p, id |-> job.identity]]
    <3>1. g \in Surjection(Parts, all)
      BY DEF Surjection
    <3> QED
      BY <3>1, FS_Surjection, PipelineAssumption
  <2>2. IsFiniteSet({})
    BY FS_EmptySet
  <2>3. \A c \in all : c.id = job.identity /\ c.file \in Files
    OBVIOUS
  <2> HIDE DEF all
  <2>4. chunks = IF v.content \in Binary THEN {} ELSE all
    BY DEF ChunksOf, all
  <2> QED
    BY <2>1, <2>2, <2>3, <2>4
<1>4. EdgesIn(raw)
  BY <1>2, PipelineAssumption DEF EdgesIn, SpaceInv, SpaceTypes
<1>5. EdgesIn(rawLeft)
  BY <1>4 DEF EdgesIn
<1>6. IsFiniteSet(buf.chunk) /\ IsFiniteSet(buf.file_meta)
      /\ \A c \in buf.chunk : c.id = job.identity /\ c.file \in Files
  BY DEF SpaceInv, SpaceTypes
<1> HIDE DEF chunks, v, raw, symbols, symFull, rawFull, boundary, symLeft, rawLeft, meta
<1>7. fitting \subseteq chunks
  OBVIOUS
<1> HIDE DEF fitting
<1>8. IsFiniteSet(buf.chunk \cup fitting) /\ IsFiniteSet(buf.chunk \cup chunks)
      /\ IsFiniteSet(chunks \ fitting)
  BY <1>3, <1>6, <1>7, FS_Subset, FS_Union
<1>9. SafeSeq(oSym, job.identity) /\ SafeSeq(oRaw, job.identity)
  BY <1>4, SafeParts DEF RowsOK, Tables
<1>10. SafeSeq(oEnd, job.identity)
  <2> DEFINE id == job.identity
             a == <<Insert("chunk", buf.chunk \cup fitting)>>
             b == InsertSome("raw_edge", rawLeft)
             c == InsertSome("symbol", symLeft)
             d == upsert_file_meta(buf.file_meta)
  <2>1. SafeSeq(a, id)
    <3>1. RowsOK("chunk", buf.chunk \cup fitting, id)
      BY <1>3, <1>6, <1>7, <1>8 DEF RowsOK
    <3> QED
      BY <3>1, SafeParts DEF Tables
  <2>2. SafeSeq(b, id) /\ SafeSeq(c, id) /\ SafeSeq(d, id)
    <3>1. RowsOK("raw_edge", rawLeft, id) /\ RowsOK("symbol", symLeft, id)
      BY <1>5 DEF RowsOK
    <3>2. "raw_edge" \in Tables /\ "symbol" \in Tables
      BY DEF Tables
    <3> QED
      BY <1>6, <3>1, <3>2, SafeParts
  <2>3. FlushBoundary(buf.chunk \cup fitting, rawLeft, symLeft, buf.file_meta)
           = ((a \o b) \o c) \o d
    BY DEF FlushBoundary
  <2> HIDE DEF a, b, c, d, id
  <2>4. SafeSeq(((a \o b) \o c) \o d, id)
    BY <2>1, <2>2, SafeConcat
  <2>5. SafeSeq(<<>>, id)
    BY SafeParts
  <2> QED
    BY <2>3, <2>4, <2>5 DEF id
<1> HIDE DEF oSym, oRaw, oEnd
<1>11. SafeSeq(ops', job.identity)
  BY <1>1, <1>9, <1>10, SafeConcat
<1>12. /\ IsFiniteSet(buf'.chunk) /\ IsFiniteSet(buf'.file_meta) /\ EdgesIn(buf'.raw_edge)
       /\ \A c \in buf'.chunk : c.id = job.identity /\ c.file \in Files
  <2>1. IsFiniteSet(meta) /\ IsFiniteSet(buf.file_meta \cup meta)
    BY <1>6, FS_Singleton, FS_AddElement DEF meta
  <2>2. CASE boundary
    <3>1. buf'.chunk = chunks \ fitting /\ buf'.file_meta = meta /\ buf'.raw_edge = {}
      BY <1>1, <2>2
    <3> QED
      BY <1>3, <1>8, <2>1, <3>1 DEF EdgesIn
  <2>3. CASE ~boundary
    <3>1. buf'.chunk = buf.chunk \cup chunks /\ buf'.file_meta = buf.file_meta \cup meta
          /\ buf'.raw_edge = rawLeft
      BY <1>1, <2>3
    <3> QED
      BY <1>3, <1>5, <1>6, <1>8, <2>1, <3>1
  <2> QED
    BY <2>2, <2>3
<1>13. /\ DOMAIN st' = Files
       /\ \A g \in Files : /\ DOMAIN st'[g] = {"at", "stamp", "ver"}
                           /\ st'[g].at = "embedded" => st'[g].ver.content \in Contents
  BY <1>1 DEF SpaceInv, SpaceTypes, NoStage
<1>14. SpaceTypes'
  <2>1. /\ DOMAIN disk' = Files /\ DbShape(db')
        /\ \A g \in Files : disk'[g] # Absent => disk'[g].content \in Contents
        /\ IsFiniteSet(db'.chunk) /\ \A c \in db'.chunk : c.file \in Files
    BY <1>1 DEF SpaceInv, SpaceTypes
  <2>2. /\ EdgesIn(db'.raw_edge) /\ DOMAIN job' = JobKeys
        /\ DOMAIN skipped' = {"retry", "permanent"} /\ IsFiniteSet(skipped'.permanent)
    BY <1>1 DEF SpaceInv, SpaceTypes
  <2>3. \A c \in buf'.chunk : c.id = job'.identity /\ c.file \in Files
    <3>1. job' = job
      BY <1>1
    <3> QED
      BY <1>12, <3>1
  <2> QED
    BY <1>12, <1>13, <2>1, <2>2, <2>3 DEF SpaceTypes, EdgesIn
<1> QED
  BY SMTT(60), <1>1, <1>11, <1>14, SpaceSafe

LEMMA SpaceFlush ==
  ASSUME SpaceInv, FlushTail
  PROVE  SpaceInv'
<1> DEFINE id == job.identity
           a == InsertSome("symbol", buf.symbol)
           b == InsertSome("chunk", buf.chunk)
           c == InsertSome("raw_edge", buf.raw_edge)
           d == upsert_file_meta(buf.file_meta)
           gone == IF job.mode = "full" THEN Files ELSE job.process
           e == <<Delete("pending_retry", gone)>>
           g == InsertSome("pending_retry", {[file |-> f] : f \in skipped.retry})
           h == upsert_file_meta(skipped.permanent)
<1>1. /\ pc = "stream" /\ pc' = "tail" /\ UNCHANGED <<disk, db, job>>
      /\ ops' = (((((a \o b) \o c) \o d) \o e) \o g) \o h
      /\ buf' = NoBuf /\ skipped' = [retry |-> {}, permanent |-> {}]
      /\ st' = [f \in Files |-> NoStage]
  BY DEF FlushTail
<1>2. {"symbol", "chunk", "raw_edge", "pending_retry"} \subseteq Tables
  BY DEF Tables
<1>3. /\ RowsOK("symbol", buf.symbol, id) /\ RowsOK("chunk", buf.chunk, id)
      /\ RowsOK("raw_edge", buf.raw_edge, id)
      /\ RowsOK("pending_retry", {[file |-> f] : f \in skipped.retry}, id)
  BY DEF RowsOK, SpaceInv, SpaceTypes
<1>4. SafeSeq(a, id) /\ SafeSeq(b, id) /\ SafeSeq(c, id) /\ SafeSeq(g, id)
  BY <1>2, <1>3, SafeParts
<1>5. SafeSeq(d, id) /\ SafeSeq(h, id)
  BY SafeParts DEF SpaceInv, SpaceTypes
<1>6. SafeSeq(e, id)
  BY <1>2, SafeParts
<1> HIDE DEF a, b, c, d, e, g, h
<1>7. SafeSeq((((a \o b) \o c) \o d), id)
  BY <1>4, <1>5, SafeConcat
<1>8. SafeSeq(ops', id)
  BY <1>1, <1>4, <1>5, <1>6, <1>7, SafeConcat
<1>9. buf'.chunk = {} /\ buf'.file_meta = {} /\ buf'.raw_edge = {}
  BY <1>1 DEF NoBuf
<1>10. DOMAIN skipped' = {"retry", "permanent"} /\ skipped'.permanent = {}
  BY <1>1
<1>11. IsFiniteSet(buf'.chunk) /\ IsFiniteSet(buf'.file_meta) /\ IsFiniteSet(skipped'.permanent)
  BY <1>9, <1>10, FS_EmptySet
<1>12. DOMAIN st' = Files /\ \A f \in Files : DOMAIN st'[f] = {"at", "stamp", "ver"}
                                           /\ st'[f].at # "embedded"
  BY <1>1 DEF NoStage
<1>13. UNCHANGED <<disk, db, job>>
  BY <1>1
<1>14. SpaceTypes'
  BY <1>9, <1>10, <1>11, <1>12, <1>13 DEF SpaceInv, SpaceTypes, EdgesIn
<1> QED
  BY <1>1, <1>8, <1>9, <1>14, SpaceSafe DEF id

\* The marker is written last, and only with the identity the vectors have.
LEMMA SpaceCommit ==
  ASSUME SpaceInv, CommitRows \/ RunSucceeds
  PROVE  SpaceInv'
<1> DEFINE id == job.identity
<1>1. UNCHANGED <<disk, db, job, st, buf, skipped>> /\ pc \in {"tail", "phase2"}
      /\ pc' \in {"commit", "finish"}
  BY DEF CommitRows, RunSucceeds, runVars
<1>2. SpaceTypes' /\ buf'.chunk = {}
  BY <1>1 DEF SpaceInv, SpaceTypes, SpacePhase, EdgesIn
<1>3. /\ SafeStmt(Meta([raw_edge_complete |-> TRUE]), id)
      /\ SafeStmt(Soft(Meta([needs_rebuild |-> FALSE])), id)
  BY MetaFields DEF SafeStmt
<1>4. SafeStmt(Meta([identity |-> id]), id)
  BY MetaFields DEF SafeStmt
<1>5. SafeStmt(Delete("file_meta", job.delete), id) /\ SafeStmt(Delete("pending_retry", job.delete), id)
  BY SafeParts DEF Tables
<1>6. SafeSeq(ops', id)
  <2>1. CASE CommitRows
    <3>1. CASE job.mode = "full"
      <4>1. ops' = <<Meta([raw_edge_complete |-> TRUE]), Meta([identity |-> id])>>
        BY <2>1, <3>1 DEF CommitRows
      <4> QED
        BY <1>3, <1>4, <4>1, TwoSeq DEF SafeSeq
    <3>2. CASE job.mode # "full"
      <4>1. ops' = <<Delete("file_meta", job.delete), Delete("pending_retry", job.delete),
                     Meta([identity |-> id])>>
        BY <2>1, <3>2 DEF CommitRows
      <4> QED
        BY <1>4, <1>5, <4>1, ThreeSeq DEF SafeSeq
    <3> QED
      BY <3>1, <3>2
  <2>2. CASE RunSucceeds
    <3>1. ops' \in {<<Soft(Meta([needs_rebuild |-> FALSE]))>>, <<>>}
      BY <2>2 DEF RunSucceeds
    <3> QED
      BY <1>3, <3>1, SafeParts
  <2> QED
    BY <2>1, <2>2
<1> QED
  BY <1>1, <1>2, <1>6, SpaceSafe

\* What a full rebuild resolves: the stored raw edges, and those lost unseen.
LEMMA FullPhase2Edges ==
  ASSUME SpaceInv, FullPhase2
  PROVE  \E raw : /\ EdgesIn(raw) /\ (RowsSeen => raw = db.raw_edge)
                  /\ \/ raw = {} /\ ops' = resolve_edges_phase2(raw)
                     \/ ops' = Tail(resolve_edges_phase2(raw))
<1>1. PICK lost \in SUBSET (IF RowsSeen THEN {} ELSE AllEdges) :
        ops' = IF db.raw_edge \cup lost = {} THEN resolve_edges_phase2({})
               ELSE Tail(resolve_edges_phase2(db.raw_edge \cup lost))
  BY DEF FullPhase2
<1>2. EdgesIn(AllEdges)
  BY PipelineAssumption DEF EdgesIn, AllEdges
<1>3. EdgesIn(db.raw_edge \cup lost) /\ (RowsSeen => lost = {})
  BY <1>1, <1>2 DEF EdgesIn, SpaceInv, SpaceTypes
<1> DEFINE raw == db.raw_edge \cup lost
<1>4. \/ raw = {} /\ ops' = resolve_edges_phase2(raw)
      \/ ops' = Tail(resolve_edges_phase2(raw))
  BY <1>1
<1>5. RowsSeen => raw = db.raw_edge
  BY <1>3
<1> HIDE DEF raw
<1>6. EdgesIn(raw)
  BY <1>3 DEF raw
<1> QED
  BY <1>4, <1>5, <1>6

\* The call graph is rebuilt without touching vectors or their marker.
LEMMA SpacePhase2 ==
  ASSUME SpaceInv, FullPhase2 \/ IncrementalPhase2 \/ NoChangePhase2
  PROVE  SpaceInv'
<1> DEFINE id == job.identity
<1>1. UNCHANGED <<disk, db, job, st, buf, skipped>> /\ pc \in {"commit", "nochange"}
      /\ pc' = "phase2"
  BY DEF FullPhase2, IncrementalPhase2, NoChangePhase2, EnterPhase2, runVars
<1>2. SpaceTypes' /\ buf'.chunk = {}
  BY <1>1 DEF SpaceInv, SpaceTypes, SpacePhase, EdgesIn
<1>3. EdgesIn(db.raw_edge) /\ EdgesIn({})
  BY DEF SpaceInv, SpaceTypes, EdgesIn
<1>4. ASSUME NEW q, IsSeq(q), \A s \in ToSet(q) : GraphStmt(s) PROVE SafeSeq(q, id)
  BY <1>4, GraphIsSafe DEF SafeSeq
<1>5. \A raw : EdgesIn(raw) => SafeSeq(resolve_edges_phase2(raw), id)
  BY <1>4, Phase2Statements
<1>6. \A R : SafeSeq(reresolve_statements(R), id)
  BY <1>3, <1>4, ReresolveStatements
<1>7. Heal => SafeSeq(ops', id)
  <2>1. \A U : SafeSeq(heal_edges(U), id)
    BY <1>4, HealStatements DEF SpaceInv, SpaceTypes
  <2> QED
    BY <2>1 DEF Heal
<1>8. ASSUME NEW raw, EdgesIn(raw) PROVE SafeSeq(Tail(resolve_edges_phase2(raw)), id)
  <2> DEFINE q == resolve_edges_phase2(raw)
  <2>1. IsSeq(q) /\ q # <<>> /\ \A s \in ToSet(q) : GraphStmt(s)
    BY <1>8, Phase2Statements
  <2> HIDE DEF q
  <2>2. IsSeq(Tail(q)) /\ ToSet(Tail(q)) \subseteq ToSet(q)
    BY <2>1, TailSeq
  <2>3. SafeSeq(Tail(q), id)
    BY <1>4, <2>1, <2>2
  <2> QED
    BY <2>3 DEF q
<1>9. SafeSeq(ops', id)
  <2>1. CASE FullPhase2
    BY <1>5, <1>8, <2>1, FullPhase2Edges
  <2>2. CASE IncrementalPhase2
    <3>1. \/ Heal
          \/ \E R : ops' = reresolve_statements(R)
          \/ ops' = resolve_edges_phase2(db.raw_edge)
      BY <2>2 DEF IncrementalPhase2
    <3> QED
      BY <1>3, <1>5, <1>6, <1>7, <3>1
  <2>3. CASE NoChangePhase2
    <3>1. Heal \/ ops' = <<>> \/ ops' = resolve_edges_phase2(db.raw_edge)
      BY <2>3 DEF NoChangePhase2
    <3> QED
      BY <1>3, <1>5, <1>7, <3>1, SafeParts
  <2> QED
    BY <2>1, <2>2, <2>3
<1> QED
  BY <1>1, <1>2, <1>9, SpaceSafe

LEMMA SpaceStep ==
  ASSUME SpaceInv, LossTypes, [Next]_vars, ClearsSeen'
  PROVE  SpaceInv'
<1>1. CASE Trigger \/ TakeRebuild
  BY <1>1, SpaceStart DEF Trigger, TakeRescan, TakeWatcherBatch, TakeRebuild
<1>2. CASE RunStep
  <2>1. ASSUME NEW f \in Files, StatFile(f) \/ ReadAndEmbed(f) \/ StoreFile(f) PROVE SpaceInv'
    BY <2>1, SpaceReading, SpaceStore
  <2> QED
    BY <1>2, <2>1, SpacePerform, SpaceBegin, SpaceStartStream, SpaceEnds, SpaceFlush,
       SpaceCommit, SpacePhase2 DEF RunStep
<1>3. CASE Fault
  <2>1. ASSUME NEW f \in Files, TransientSkip(f) \/ FatalEmbed(f) PROVE SpaceInv'
    BY <2>1, SpaceReading
  <2> QED
    BY <1>3, <2>1, LossStep, SpaceEnds, SpaceAround DEF Fault
<1>4. CASE Environment
  BY <1>1, <1>4, SpaceAround DEF Environment
<1>5. CASE UNCHANGED vars
  <2>1. UNCHANGED <<disk, db, pc, ops, job, st, buf, skipped>>
    BY <1>5 DEF vars
  <2>2. SpaceTypes'
    BY <2>1 DEF SpaceInv, SpaceTypes, EdgesIn
  <2>3. StatementsOK' /\ SpacePhase'
    BY <2>1 DEF SpaceInv, StatementsOK, StmtOK, SpacePhase, Pure, Marker
  <2> QED
    BY <2>1, <2>2, <2>3, SpaceIssue
<1> QED
  BY <1>1, <1>2, <1>3, <1>4, <1>5 DEF Next

\* Stored vectors can be compared: whatever runs were interrupted, failed or
\* cancelled at whichever statement, whichever rows were lost unseen, and however
\* often the embedding client was switched, as long as no clear of a marker was lost
\* unseen all chunks are of one embedding space, the one the identity marker names
\* if there is one.
THEOREM VectorsComparable == Spec => []VectorsOneSpace
<1> DEFINE Inv == LossTypes /\ (ClearsSeen => SpaceInv)
<1>1. Init => Inv
  BY SpaceInit, LossInit
<1>2. Inv /\ [Next]_vars => Inv'
  BY SpaceStep, LossStep
<1>3. Inv => VectorsOneSpace
  BY DEF SpaceInv, OneSpace, VectorsOneSpace
<1> QED
  BY <1>1, <1>2, <1>3, PTL DEF Spec

-----------------------------------------------------------------------------
(* file_meta as the commit marker                                          *)

RowTables == {"chunk", "symbol", "file_meta"}

\* The files whose rows the run removes before it streams.
Affected == IF job.mode = "full" THEN Files ELSE job.process \cup job.delete

\* Rows of a table that are issued and not yet written, and the rows of a file
\* that are stored, issued or buffered.
Issued(t) == UNION {s.rows : s \in {q \in ToSet(ops) : q.op = "insert" /\ q.table = t}}
ChunkRows(f) == {c \in db.chunk \cup Issued("chunk") \cup buf.chunk : c.file = f}
SymbolRows(f) == {s \in db.symbol \cup Issued("symbol") \cup buf.symbol : s.file = f}
Metas == db.file_meta \cup Issued("file_meta") \cup buf.file_meta \cup skipped.permanent

\* Version v may stand for stamp s of file f: it is not older, it is the stamped
\* version if it is not newer, and it is not newer than what is on disk.
Fits(f, s, v) ==
    /\ s \in Versions /\ v \in Versions
    /\ s.stamp <= v.stamp /\ (s.stamp = v.stamp => s = v)
    /\ v.stamp <= used.edits
    /\ disk[f] # Absent => v.stamp <= disk[f].stamp

SymbolRow(s) == s.file \in Files /\ \E c \in Contents : s \in SymbolsOf[s.file][c]

CommitTypes ==
    /\ "edits" \in DOMAIN used /\ used.edits \in 0..MaxEdits
    /\ "soft" \in DOMAIN used
    /\ client \in Identities
    /\ \A f \in Files : disk[f] # Absent => disk[f] \in Versions /\ disk[f].stamp <= used.edits
    /\ pc # "idle" => job.identity \in Identities /\ job.process \subseteq Files
    /\ \A s \in db.symbol \cup buf.symbol : SymbolRow(s)
    /\ \A m \in Metas : m.file \in Files
    /\ \A m, n \in db.file_meta : m.file = n.file => m = n
    /\ pc # "stream" => buf = NoBuf /\ skipped.permanent = {}
    /\ pc = "preflight" => job.mode = "full"

\* Which statements a phase issues on the tables of rows.
PhaseStmt(s) ==
    /\ Shape(s) /\ (s.soft => s.op = "meta")
    /\ s.op = "insert" /\ s.table \in RowTables => pc \in {"stream", "tail"}
    /\ s.op = "insert" /\ s.table = "symbol" => \A r \in s.rows : SymbolRow(r)
    /\ s.op = "insert" /\ s.table = "file_meta" =>
          \A m, n \in s.rows : m.file = n.file => m = n
    /\ s.op = "delete" /\ s.table \in RowTables =>
          pc = "begin" \/ (pc = "commit" /\ s.table = "file_meta")
    /\ pc = "begin" => ~s.check /\ (s.op = "delete" => s.files = Affected)

\* Rows before their file_meta, in both directions.
MayPrecede(s, t) ==
    /\ s.op = "insert" /\ s.table = "file_meta" /\ t.op = "insert" =>
          t.table \notin {"chunk", "symbol", "raw_edge"}
    /\ s.op = "delete" /\ s.table = "file_meta" /\ t.op = "delete" =>
          t.table \notin {"chunk", "symbol"}
    /\ s.op = "delete" /\ s.table \in {"symbol", "chunk"} /\ t.op = "delete" =>
          t.table # "symbol"

InOrder(q) == \A i, j \in DOMAIN q : i < j => MayPrecede(q[i], q[j])

CommitStmts == /\ IsSeq(ops) /\ InOrder(ops)
               /\ \A s \in ToSet(ops) : PhaseStmt(s)

\* The bulk deletes: each is still to come or has left no row of an affected file.
Removing ==
    pc = "begin" => \A t \in RowTables :
        \/ Delete(t, Affected) \in ToSet(ops)
        \/ \A r \in db[t] : r.file \notin Affected

\* The stream: a file that is not stored yet has no row anywhere and its stamp was
\* taken before its content.
Untouched(f) == /\ ChunkRows(f) = {} /\ SymbolRows(f) = {}
                /\ \A m \in Metas : m.file # f
Reading ==
    pc = "stream" => \A f \in Files :
        /\ st[f].at \in {"todo", "stat", "embedded"} => Untouched(f)
        /\ st[f].at = "stat" =>
              /\ st[f].stamp \in Versions /\ st[f].stamp.stamp <= used.edits
              /\ disk[f] # Absent => Fits(f, st[f].stamp, disk[f])
        /\ st[f].at = "embedded" => Fits(f, st[f].stamp, st[f].ver)

\* A file_meta row, wherever it is, has all rows of one version on the way with it.
Whole ==
    \A m \in Metas : m.file \notin torn \cup MidDelete =>
        \E v \in Versions : /\ Fits(m.file, m.stamp, v)
                            /\ \E id \in Identities : ChunkRows(m.file) = ChunksOf(m.file, v, id)
                            /\ SymbolRows(m.file) = SymbolsOf[m.file][v.content]

\* A file_meta row is behind all rows of its file.
Behind ==
    /\ \A m \in db.file_meta :
          /\ \A c \in Issued("chunk") \cup Issued("symbol") : c.file # m.file
          /\ \A c \in buf.chunk \cup buf.symbol : c.file # m.file
    /\ \A m \in Issued("file_meta") :
          \A c \in buf.chunk \cup buf.symbol : c.file # m.file

\* The symbols of a file, wherever they are, are those of one content.
OneContent ==
    \A f \in Files : SymbolRows(f) = {} \/ \E c \in Contents : SymbolRows(f) \subseteq SymbolsOf[f][c]

CommitInv == /\ CommitTypes /\ CommitStmts /\ Removing /\ Reading /\ Whole /\ Behind
             /\ OneContent

LEMMA OrderIs ==
  ASSUME NEW q
  PROVE  InOrder(q) <=> \A s, t : Precedes(q, s, t) => MayPrecede(s, t)
BY DEF InOrder, Precedes

LEMMA OrderTail ==
  ASSUME NEW q, IsSeq(q), q # <<>>, InOrder(q)
  PROVE  InOrder(Tail(q)) /\ \A t \in ToSet(Tail(q)) : MayPrecede(Head(q), t)
BY OrderIs, PrecedesTail

LEMMA OrderConcat ==
  ASSUME NEW a, NEW b, IsSeq(a), IsSeq(b), InOrder(a), InOrder(b),
         \A s \in ToSet(a), t \in ToSet(b) : MayPrecede(s, t)
  PROVE  InOrder(a \o b)
<1>1. \A s, t : Precedes(a \o b, s, t) =>
         Precedes(a, s, t) \/ Precedes(b, s, t) \/ (s \in ToSet(a) /\ t \in ToSet(b))
  BY PrecedesConcat
<1>2. \A s, t : Precedes(a, s, t) \/ Precedes(b, s, t) => MayPrecede(s, t)
  BY OrderIs
<1>3. \A s, t : Precedes(a \o b, s, t) => MayPrecede(s, t)
  BY <1>1, <1>2
<1> QED
  BY <1>3, OrderIs

\* Statements that may come first, and statements that may come last.
Early(s) == s.op = "insert" /\ s.table # "file_meta"
Late(s) == s.op # "meta" => s.table \notin {"chunk", "symbol", "raw_edge"}

LEMMA FirstLast ==
  ASSUME NEW s, NEW t, Early(s) \/ Late(t), Shape(s), Shape(t)
  PROVE  MayPrecede(s, t)
BY DEF Early, Late, MayPrecede, Shape

LEMMA OrderLasts ==
  ASSUME NEW q, \A s \in ToSet(q) : Shape(s) /\ Late(s)
  PROVE  InOrder(q)
BY FirstLast DEF InOrder, ToSet

LEMMA OrderFirsts ==
  ASSUME NEW q, \A s \in ToSet(q) : Shape(s) /\ Early(s)
  PROVE  InOrder(q)
BY FirstLast DEF InOrder, ToSet

LEMMA FirstThen ==
  ASSUME NEW a, NEW b, IsSeq(a), IsSeq(b), \A s \in ToSet(a) : Shape(s) /\ Early(s),
         \A s \in ToSet(b) : Shape(s), InOrder(b)
  PROVE  InOrder(a \o b)
BY FirstLast, OrderFirsts, OrderConcat

LEMMA ThenLast ==
  ASSUME NEW a, NEW b, IsSeq(a), IsSeq(b), \A s \in ToSet(b) : Shape(s) /\ Late(s),
         \A s \in ToSet(a) : Shape(s), InOrder(a)
  PROVE  InOrder(a \o b)
BY FirstLast, OrderLasts, OrderConcat

\* The files in the middle of a bulk delete, in terms of the statements to come.
Deletes(q, t, f) == \E s \in ToSet(q) : s.op = "delete" /\ s.table = t /\ f \in s.files

LEMMA MidDeleteIs ==
  /\ \A f : f \in MidDelete <=> /\ pc = "begin" /\ f \in Stored
                                /\ Deletes(ops, "file_meta", f) /\ ~Deletes(ops, "symbol", f)
  /\ \A f : f \in MidDelete' <=> /\ pc' = "begin" /\ f \in Stored'
                                 /\ Deletes(ops', "file_meta", f) /\ ~Deletes(ops', "symbol", f)
<1> DEFINE Of(q, t) == UNION {q[i].files :
                          i \in {j \in DOMAIN q : q[j].op = "delete" /\ q[j].table = t}}
<1>1. ASSUME NEW q, NEW t, NEW f PROVE f \in Of(q, t) <=> Deletes(q, t, f)
  BY DEF Deletes, ToSet
<1>2. MidDelete = IF pc # "begin" THEN {}
                  ELSE (Of(ops, "file_meta") \ Of(ops, "symbol")) \cap Stored
  BY DEF MidDelete
<1>3. MidDelete' = IF pc' # "begin" THEN {}
                   ELSE (Of(ops', "file_meta") \ Of(ops', "symbol")) \cap Stored'
  BY DEF MidDelete
<1> HIDE DEF Of
<1> QED
  BY <1>1, <1>2, <1>3

\* What is issued, before and after the next statement.
LEMMA IssuedTail ==
  ASSUME IsSeq(ops), ops # <<>>, ops' = Tail(ops), NEW t
  PROVE  Issued(t) = Issued(t)' \cup (IF Head(ops).op = "insert" /\ Head(ops).table = t
                                      THEN Head(ops).rows ELSE {})
<1>1. ToSet(ops) = {Head(ops)} \cup ToSet(ops')
  BY TailSeq
<1> QED
  BY <1>1 DEF Issued

LEMMA NoneIssued ==
  ASSUME NEW t, t \in RowTables
  PROVE  /\ CommitStmts /\ pc \notin {"stream", "tail"} => Issued(t) = {}
         /\ CommitStmts' /\ pc' \notin {"stream", "tail"} => Issued(t)' = {}
BY DEF CommitStmts, PhaseStmt, Issued

LEMMA CommitInit ==
  ASSUME Init
  PROVE  CommitInv
<1>1. /\ pc = "idle" /\ ops = <<>> /\ buf = NoBuf /\ skipped.permanent = {}
      /\ db.chunk = {} /\ db.symbol = {} /\ db.file_meta = {} /\ client \in Identities
  BY DEF Init, Tables
<1>2. ToSet(ops) = {} /\ IsSeq(ops)
  BY <1>1, NoSeq
<1>3. \A t : Issued(t) = {}
  BY <1>2 DEF Issued
<1>4. buf.chunk = {} /\ buf.symbol = {} /\ buf.file_meta = {}
  BY <1>1 DEF NoBuf
<1>5. Metas = {}
  BY <1>1, <1>3, <1>4 DEF Metas
<1>6. used.edits = 0 /\ "edits" \in DOMAIN used /\ "soft" \in DOMAIN used
  BY DEF Init
<1>7. \A f \in Files : disk[f] # Absent => disk[f] \in Versions /\ disk[f].stamp <= 0
  BY PipelineAssumption DEF Init, Versions
<1>8. CommitTypes
  BY <1>1, <1>4, <1>5, <1>6, <1>7, PipelineAssumption DEF CommitTypes
<1>9. CommitStmts
  BY <1>2, OrderLasts DEF CommitStmts
<1>10. \A f : SymbolRows(f) = {}
  BY <1>1, <1>3, <1>4 DEF SymbolRows
<1> QED
  BY <1>1, <1>3, <1>4, <1>5, <1>8, <1>9, <1>10
  DEF CommitInv, Removing, Reading, Whole, Behind, OneContent

\* A step that moves no rows: what is left to show is what it does to the phase.
LEMMA CommitCalm ==
  ASSUME CommitInv, UNCHANGED <<disk, buf, torn>>, used'.edits = used.edits,
         db'.chunk = db.chunk, db'.symbol = db.symbol, db'.file_meta = db.file_meta,
         skipped'.permanent = skipped.permanent,
         \A t \in RowTables : Issued(t)' = Issued(t), MidDelete \subseteq MidDelete',
         CommitTypes', CommitStmts', Removing', Reading'
  PROVE  CommitInv'
<1>1. Issued("chunk")' = Issued("chunk") /\ Issued("symbol")' = Issued("symbol")
      /\ Issued("file_meta")' = Issued("file_meta")
  BY DEF RowTables
<1>2. Metas' = Metas
  BY <1>1 DEF Metas
<1>3. \A f : ChunkRows(f)' = ChunkRows(f) /\ SymbolRows(f)' = SymbolRows(f)
  BY <1>1 DEF ChunkRows, SymbolRows
<1>4. \A f, s, v : Fits(f, s, v)' <=> Fits(f, s, v)
  BY DEF Fits
<1>5. Whole'
  BY <1>2, <1>3, <1>4 DEF CommitInv, Whole
<1>6. Behind'
  BY <1>1 DEF CommitInv, Behind
<1>7. OneContent'
  BY <1>1, <1>3 DEF CommitInv, OneContent
<1> QED
  BY <1>5, <1>6, <1>7 DEF CommitInv

\* A run that ends leaves what is stored: behind a file_meta row nothing was on the
\* way any more, and a file in the middle of its deletion is torn from now on.
LEMMA CommitEnds ==
  ASSUME CommitInv, ClearRun, UNCHANGED <<disk, client>>, DbShape(db), DbShape(db'),
         \A t \in RowTables : db'[t] = db[t], torn' = torn \cup MidDelete,
         used'.edits = used.edits, "edits" \in DOMAIN used', "soft" \in DOMAIN used'
  PROVE  CommitInv'
<1>1. /\ pc' = "idle" /\ ops' = <<>> /\ buf' = NoBuf /\ skipped'.permanent = {}
  BY DEF ClearRun
<1>2. ToSet(ops') = {} /\ IsSeq(ops')
  BY <1>1, NoSeq
<1>3. \A t : Issued(t)' = {}
  BY <1>2 DEF Issued
<1>4. buf'.chunk = {} /\ buf'.symbol = {} /\ buf'.file_meta = {}
  BY <1>1 DEF NoBuf
<1>5. db'.chunk = db.chunk /\ db'.symbol = db.symbol /\ db'.file_meta = db.file_meta
  BY DEF RowTables
<1>6. Metas' = db.file_meta /\ db.file_meta \subseteq Metas
  BY <1>1, <1>3, <1>4, <1>5 DEF Metas
<1>7. \A m \in db.file_meta : /\ ChunkRows(m.file)' = ChunkRows(m.file)
                              /\ SymbolRows(m.file)' = SymbolRows(m.file)
  BY <1>3, <1>4, <1>5 DEF ChunkRows, SymbolRows, CommitInv, Behind
<1>8. \A f, s, v : Fits(f, s, v)' <=> Fits(f, s, v)
  BY DEF Fits
<1>9. Whole'
  <2>1. SUFFICES ASSUME NEW m \in db.file_meta, m.file \notin torn'
                 PROVE  (\E v \in Versions :
                            /\ Fits(m.file, m.stamp, v)
                            /\ \E id \in Identities : ChunkRows(m.file) = ChunksOf(m.file, v, id)
                            /\ SymbolRows(m.file) = SymbolsOf[m.file][v.content])'
    BY <1>6 DEF Whole
  <2>2. m.file \notin torn \cup MidDelete
    BY <2>1
  <2>3. PICK v \in Versions :
                            /\ Fits(m.file, m.stamp, v)
                            /\ \E id \in Identities : ChunkRows(m.file) = ChunksOf(m.file, v, id)
                            /\ SymbolRows(m.file) = SymbolsOf[m.file][v.content]
    BY <1>6, <2>2 DEF CommitInv, Whole
  <2> QED
    BY <1>7, <1>8, <2>3
<1>10. Behind' /\ OneContent'
  <2>1. \A f : SymbolRows(f)' \subseteq SymbolRows(f)
    BY <1>3, <1>4, <1>5 DEF SymbolRows
  <2> QED
    BY <1>3, <1>4, <2>1 DEF CommitInv, Behind, OneContent
<1>11. CommitTypes'
  BY <1>1, <1>4, <1>5, <1>6 DEF CommitInv, CommitTypes
<1>12. CommitStmts' /\ Removing' /\ Reading'
  BY <1>1, <1>2, OrderLasts DEF CommitStmts, Removing, Reading
<1> QED
  BY <1>9, <1>10, <1>11, <1>12 DEF CommitInv

\* Every end of a run is one of those: only markers change with it.
LEMMA CommitEndSteps ==
  ASSUME SpaceInv, CommitInv,
         StatementFails \/ PreflightFails \/ AbortStream \/ Crash \/ Finish
            \/ CancelBeforeRebuild \/ CancelBeforeStatement
  PROVE  CommitInv'
<1> DEFINE rolled == Perform(db, Meta([identity |-> None, edges_resolved |-> FALSE]))
           Kept(d) == DbShape(d) /\ \A t \in RowTables : d[t] = db[t]
           Paid(u) == u.edits = used.edits /\ "edits" \in DOMAIN u /\ "soft" \in DOMAIN u
<1>1. DbShape(db) /\ RowTables \subseteq Tables
  BY DEF SpaceInv, SpaceTypes, RowTables, Tables
<1>2. ASSUME NEW d, Kept(d), NEW m PROVE Kept(Perform(d, Meta(m)))
  BY <1>1, <1>2, MetaFields, PerformMeta
<1>3. Kept(db) /\ Kept(rolled)
  BY <1>1, <1>2
<1>4. /\ Paid(used) /\ Paid(Spend("errors")) /\ Paid(Spend("fatal")) /\ Paid(Spend("crashes"))
      /\ \A u : Paid(u) => Paid([u EXCEPT !.soft = @ + 1])
  BY DEF CommitInv, CommitTypes, Spend
<1> HIDE DEF Kept, rolled, Paid
<1>5. ASSUME ClearRun, UNCHANGED <<disk, client>>, Kept(db'), torn' = torn \cup MidDelete,
             Paid(used')
      PROVE  CommitInv'
  BY <1>1, <1>5, CommitEnds DEF Kept, Paid
<1>6. ASSUME NEW d, Kept(d), NEW isFatal, NEW u, Paid(u), Fail(d, isFatal, u) PROVE CommitInv'
  <2>1. /\ ClearRun /\ UNCHANGED <<disk, client>> /\ torn' = torn \cup MidDelete
        /\ db' \in {d, Perform(d, Meta([needs_rebuild |-> TRUE]))}
        /\ used' \in {u, [u EXCEPT !.soft = @ + 1]}
    BY <1>6 DEF Fail
  <2>2. Kept(db') /\ Paid(used')
    BY <1>2, <1>4, <1>6, <2>1
  <2> QED
    BY <1>5, <2>1, <2>2
<1>7. ASSUME ClearRun, UNCHANGED <<disk, client, db, torn, used>>, MidDelete = {} PROVE CommitInv'
  BY <1>3, <1>4, <1>5, <1>7
<1>8. pc # "begin" => MidDelete = {}
  BY DEF MidDelete
<1>9. CASE StatementFails
  <2>1. Fail(IF pc = "commit" /\ Head(ops).op = "meta" THEN rolled ELSE db, FALSE, Spend("errors"))
    BY <1>9 DEF StatementFails, rolled
  <2>2. CASE pc = "commit" /\ Head(ops).op = "meta"
    BY <1>3, <1>4, <1>6, <2>1, <2>2
  <2>3. CASE ~(pc = "commit" /\ Head(ops).op = "meta")
    BY <1>3, <1>4, <1>6, <2>1, <2>3
  <2> QED
    BY <2>2, <2>3
<1>10. CASE PreflightFails
  BY <1>3, <1>4, <1>6, <1>10 DEF PreflightFails
<1>11. CASE AbortStream
  BY <1>3, <1>4, <1>6, <1>7, <1>8, <1>11 DEF AbortStream, Cancelled
<1>12. CASE Crash
  BY <1>3, <1>4, <1>5, <1>12 DEF Crash
<1>13. CASE Finish \/ CancelBeforeRebuild
  BY <1>7, <1>8, <1>13 DEF Finish, CancelBeforeRebuild, Cancelled
<1>14. CASE CancelBeforeStatement
  <2>1. ops # <<>> /\ Head(ops).check
    BY <1>14 DEF CancelBeforeStatement
  <2>2. PhaseStmt(Head(ops))
    BY <2>1, TailSeq DEF CommitInv, CommitStmts
  <2>3. pc # "begin"
    BY <2>1, <2>2 DEF PhaseStmt
  <2> QED
    BY <1>7, <1>8, <1>14, <2>3 DEF CancelBeforeStatement, Cancelled
<1> QED
  BY <1>9, <1>10, <1>11, <1>12, <1>13, <1>14

\* An edit only makes the version on disk newer than every stamp taken so far.
LEMMA CommitEdit ==
  ASSUME SpaceInv, CommitInv, NEW f \in Files, Edit(f)
  PROVE  CommitInv'
<1>1. PICK w \in [stamp : {used.edits + 1}, content : Contents] \cup {Absent} :
         disk' = [disk EXCEPT ![f] = w]
  BY DEF Edit
<1>2. /\ UNCHANGED <<client, db, pc, ops, job, st, buf, skipped, torn>>
      /\ used.edits < MaxEdits /\ used' = [used EXCEPT !.edits = @ + 1]
  BY DEF Edit, runVars, Spend
<1>3. /\ "edits" \in DOMAIN used' /\ "soft" \in DOMAIN used' /\ used'.edits = used.edits + 1
      /\ used.edits \in 0..MaxEdits /\ used'.edits \in 0..MaxEdits
  BY <1>2, PipelineAssumption DEF CommitInv, CommitTypes
<1>4. /\ DOMAIN disk = Files /\ disk'[f] = w /\ \A g \in Files : g # f => disk'[g] = disk[g]
  BY <1>1 DEF SpaceInv, SpaceTypes
<1>5. w # Absent => w \in Versions /\ w.stamp = used.edits + 1
  BY <1>1, <1>3 DEF Versions
<1>6. \A g \in Files : disk'[g] # Absent => disk'[g] \in Versions /\ disk'[g].stamp <= used'.edits
  <2>1. \A g \in Files : disk[g] # Absent => disk[g] \in Versions /\ disk[g].stamp <= used.edits
    BY DEF CommitInv, CommitTypes
  <2>2. \A v \in Versions : v.stamp \in Int
    BY PipelineAssumption DEF Versions
  <2> QED
    BY <1>3, <1>4, <1>5, <2>1, <2>2
<1>7. ASSUME NEW g \in Files, NEW s, NEW v, Fits(g, s, v) PROVE Fits(g, s, v)'
  <2>1. s.stamp \in Int /\ v.stamp \in Int
    BY <1>7, PipelineAssumption DEF Fits, Versions
  <2> QED
    BY <1>3, <1>4, <1>5, <1>7, <2>1 DEF Fits
<1>8. CommitTypes'
  BY <1>2, <1>3, <1>6 DEF CommitInv, CommitTypes, Metas, Issued
<1>9. Metas' = Metas /\ (\A t : Issued(t)' = Issued(t)) /\ MidDelete' = MidDelete
      /\ (\A g : ChunkRows(g)' = ChunkRows(g) /\ SymbolRows(g)' = SymbolRows(g))
  BY <1>2 DEF Metas, Issued, MidDelete, Stored, ChunkRows, SymbolRows
<1>10. CommitStmts' /\ Removing'
  BY <1>2 DEF CommitInv, CommitStmts, PhaseStmt, Affected, Removing
<1>11. Behind' /\ OneContent'
  BY <1>2, <1>9 DEF CommitInv, Behind, OneContent
<1>12. Whole'
  BY <1>2, <1>7, <1>9 DEF CommitInv, Whole, CommitTypes
<1>13. Reading'
  <2>1. SUFFICES ASSUME pc = "stream", NEW g \in Files
                 PROVE  /\ st[g].at \in {"todo", "stat", "embedded"} => Untouched(g)'
                        /\ st[g].at = "stat" =>
                              /\ st[g].stamp \in Versions /\ st[g].stamp.stamp <= used'.edits
                              /\ disk'[g] # Absent => Fits(g, st[g].stamp, disk[g])'
                        /\ st[g].at = "embedded" => Fits(g, st[g].stamp, st[g].ver)'
    BY <1>2 DEF Reading
  <2>2. Untouched(g) => Untouched(g)'
    BY <1>9 DEF Untouched
  <2>3. ASSUME st[g].at = "stat"
        PROVE  /\ st[g].stamp \in Versions /\ st[g].stamp.stamp <= used'.edits
               /\ disk'[g] # Absent => Fits(g, st[g].stamp, disk[g])'
    <3>1. /\ st[g].stamp \in Versions /\ st[g].stamp.stamp <= used.edits
          /\ disk[g] # Absent => Fits(g, st[g].stamp, disk[g])
      BY <2>1, <2>3 DEF CommitInv, Reading
    <3>2. st[g].stamp.stamp \in Int
      BY <3>1, PipelineAssumption DEF Versions
    <3>3. CASE g = f
      <4>1. w # Absent => /\ w \in Versions /\ st[g].stamp.stamp < w.stamp
                          /\ w.stamp <= used'.edits /\ w.stamp \in Int
        BY <1>3, <1>5, <3>1, <3>2
      <4>2. w # Absent => Fits(g, st[g].stamp, disk[g])'
        BY <1>2, <1>4, <3>1, <3>2, <3>3, <4>1 DEF Fits
      <4> QED
        BY <1>3, <1>4, <3>1, <3>2, <3>3, <4>2
    <3>4. CASE g # f
      <4>1. disk'[g] = disk[g]
        BY <1>4, <3>4
      <4>2. disk[g] # Absent => Fits(g, st[g].stamp, disk[g])'
        <5>1. SUFFICES ASSUME disk[g] # Absent PROVE Fits(g, st[g].stamp, disk[g])'
          OBVIOUS
        <5>2. Fits(g, st[g].stamp, disk[g])
          BY <3>1, <5>1
        <5>3. \A s, v : Fits(g, s, v) => Fits(g, s, v)'
          BY <1>7
        <5> QED
          BY <1>2, <4>1, <5>2, <5>3 DEF Fits
      <4> QED
        BY <1>3, <3>1, <3>2, <4>1, <4>2
    <3> QED
      BY <3>3, <3>4
  <2>4. ASSUME st[g].at = "embedded" PROVE Fits(g, st[g].stamp, st[g].ver)'
    <3>1. Fits(g, st[g].stamp, st[g].ver)
      BY <2>1, <2>4 DEF CommitInv, Reading
    <3>2. \A s, v : Fits(g, s, v) => Fits(g, s, v)'
      BY <1>7
    <3> QED
      BY <1>2, <3>1, <3>2 DEF Fits
  <2> QED
    BY <2>1, <2>2, <2>3, <2>4 DEF CommitInv, Reading
<1> QED
  BY <1>8, <1>10, <1>11, <1>12, <1>13 DEF CommitInv

\* Types that no calm step disturbs.
LEMMA CalmTypes ==
  ASSUME CommitInv, UNCHANGED <<disk, buf>>, client' \in Identities,
         db'.symbol = db.symbol, db'.file_meta = db.file_meta,
         used'.edits = used.edits, "edits" \in DOMAIN used', "soft" \in DOMAIN used',
         skipped'.permanent = skipped.permanent,
         Issued("file_meta")' = Issued("file_meta"),
         pc' # "idle" => job'.identity \in Identities /\ job'.process \subseteq Files,
         pc' # "stream" => pc # "stream",
         pc' = "preflight" => job'.mode = "full"
  PROVE  CommitTypes'
BY DEF CommitInv, CommitTypes, Metas

LEMMA CommitAround ==
  ASSUME SpaceInv, CommitInv, SoftStatementFails \/ SwitchClient \/ RequestCancel \/ UNCHANGED vars
  PROVE  CommitInv'
<1>1. /\ UNCHANGED <<disk, db, pc, job, st, buf, skipped, torn>>
      /\ client' \in Identities
  BY DEF SoftStatementFails, SwitchClient, RequestCancel, runVars, vars, CommitInv, CommitTypes
<1>2. used'.edits = used.edits /\ "edits" \in DOMAIN used' /\ "soft" \in DOMAIN used'
  <2>1. used' \in {used, Spend("soft"), Spend("requests")}
    BY DEF SoftStatementFails, SwitchClient, RequestCancel, vars
  <2> QED
    BY <2>1 DEF Spend, CommitInv, CommitTypes
<1>3. \/ ops' = ops
      \/ ops # <<>> /\ Head(ops).soft /\ ops' = Tail(ops)
  BY DEF SoftStatementFails, SwitchClient, RequestCancel, vars
<1>4. /\ IsSeq(ops') /\ InOrder(ops') /\ \A t : Issued(t)' = Issued(t)
      /\ \A t, f : Deletes(ops', t, f) <=> Deletes(ops, t, f)
      /\ \A t, F : t \in Tables => (Delete(t, F) \in ToSet(ops') <=> Delete(t, F) \in ToSet(ops))
      /\ ToSet(ops') \subseteq ToSet(ops)
  <2>1. CASE ops' = ops
    BY <2>1 DEF CommitInv, CommitStmts, Issued
  <2>2. CASE ops # <<>> /\ Head(ops).soft /\ ops' = Tail(ops)
    <3>1. IsSeq(ops') /\ Head(ops) \in ToSet(ops) /\ ToSet(ops) = {Head(ops)} \cup ToSet(ops')
      BY <2>2, TailSeq DEF CommitInv, CommitStmts
    <3>2. Head(ops).op = "meta"
      BY <2>2, <3>1 DEF CommitInv, CommitStmts, PhaseStmt
    <3>3. InOrder(ops')
      BY <2>2, OrderTail DEF CommitInv, CommitStmts
    <3>4. \A t : Issued(t)' = Issued(t)
      BY <2>2, <3>2, IssuedTail DEF CommitInv, CommitStmts
    <3>5. \A t \in Tables : \A F : Head(ops) # Delete(t, F)
      BY <3>2, DeleteFields
    <3> QED
      BY <3>1, <3>2, <3>3, <3>4, <3>5 DEF Deletes
  <2> QED
    BY <1>3, <2>1, <2>2
<1>5. MidDelete' = MidDelete
  <2>1. Stored' = Stored
    BY <1>1 DEF Stored
  <2> QED
    BY <1>1, <1>4, <2>1, MidDeleteIs
<1>6. CommitTypes'
  BY <1>1, <1>2, <1>4, CalmTypes DEF CommitInv, CommitTypes
<1>7. CommitStmts'
  BY <1>1, <1>4 DEF CommitInv, CommitStmts, PhaseStmt, Affected
<1>8. Removing'
  BY <1>1, <1>4 DEF CommitInv, Removing, Affected, RowTables, Tables
<1>9. Reading'
  <2>1. \A f, s, v : Fits(f, s, v)' <=> Fits(f, s, v)
    BY <1>1, <1>2 DEF Fits
  <2>2. \A f : Untouched(f)' <=> Untouched(f)
    BY <1>1, <1>4 DEF Untouched, ChunkRows, SymbolRows, Metas
  <2> QED
    BY <1>1, <1>2, <2>1, <2>2 DEF CommitInv, Reading, Fits
<1> QED
  BY <1>1, <1>2, <1>4, <1>5, <1>6, <1>7, <1>8, <1>9, CommitCalm

\* Phases between the bulk deletes and the stream: their statements leave the rows
\* and their file_meta alone.
QuietStmt(s) == Shape(s) /\ (s.soft => s.op = "meta") /\ (s.op # "meta" => s.table \notin RowTables)

LEMMA CommitQuiet ==
  ASSUME CommitInv, UNCHANGED <<disk, client, db, buf, torn, skipped>>,
         used'.edits = used.edits, "edits" \in DOMAIN used', "soft" \in DOMAIN used',
         pc \notin {"begin", "stream"}, pc' \notin {"idle", "begin", "stream"}, ops = <<>>,
         job'.identity \in Identities, job'.process \subseteq Files,
         pc' = "preflight" => job'.mode = "full",
         IsSeq(ops'),
         \A s \in ToSet(ops') :
            \/ QuietStmt(s)
            \/ pc' = "commit" /\ \E F : s = Delete("file_meta", F)
  PROVE  CommitInv'
<1>1. \A s \in ToSet(ops') : /\ Shape(s) /\ (s.soft => s.op = "meta")
                             /\ s.op = "insert" => s.table \notin RowTables
                             /\ s.op = "delete" /\ s.table \in RowTables =>
                                   pc' = "commit" /\ s.table = "file_meta"
  BY DeleteFields DEF QuietStmt, RowTables, Tables
<1>2. \A s \in ToSet(ops') : PhaseStmt(s)'
  BY <1>1 DEF PhaseStmt, RowTables
<1>3. \A s, t \in ToSet(ops') : MayPrecede(s, t)
  BY <1>1 DEF MayPrecede, RowTables
<1>4. CommitStmts'
  BY <1>1, <1>2, <1>3, OrderIs, PrecedesIn DEF CommitStmts
<1>5. \A t \in RowTables : Issued(t)' = {} /\ Issued(t) = {}
  <2>1. ToSet(ops) = {}
    BY NoSeq
  <2> QED
    BY <1>1, <2>1 DEF Issued
<1>6. CommitTypes'
  BY <1>5, CalmTypes DEF CommitInv, CommitTypes, RowTables
<1>7. MidDelete \subseteq MidDelete' /\ Removing' /\ Reading'
  BY MidDeleteIs DEF Removing, Reading
<1> QED
  BY <1>4, <1>5, <1>6, <1>7, CommitCalm

LEMMA CommitStart ==
  ASSUME SpaceInv, CommitInv, NEW changes,
         NEW forced, StartRun(changes, forced),
         used'.edits = used.edits, "edits" \in DOMAIN used', "soft" \in DOMAIN used'
  PROVE  CommitInv'
<1> DEFINE marker == db.index_meta.identity
           force == forced \/ db.index_meta.needs_rebuild
           hasData == Stored # {}
           Rebuild(adopt) == ~hasData \/ force \/ identity_forces_rebuild(marker, hasData, adopt)
           Change(adopt) == FoldPendingRetry(IF walks(changes, adopt) THEN detect_changes
                                             ELSE normalize_explicit_changes(changes))
           adoptOp(adopt) == IF adopt THEN <<Meta([identity |-> client])>> ELSE <<>>
           retryOp(adopt) == IF Rebuild(adopt) \/ Vanished = {} THEN <<>>
                             ELSE <<Delete("pending_retry", Vanished)>>
<1>1. PICK adopt \in BOOLEAN :
         /\ ops' = adoptOp(adopt) \o retryOp(adopt)
         /\ job'.identity = client /\ job'.mode = IF Rebuild(adopt) THEN "full" ELSE "incr"
         /\ job'.process = IF Rebuild(adopt) THEN OnDisk ELSE Change(adopt).process
         /\ pc' \in {"preflight", "nochange", "plan"}
         /\ pc' = "preflight" <=> Rebuild(adopt)
  BY DEF StartRun
<1>2. UNCHANGED <<disk, client, db, buf, torn, skipped>> /\ pc = "idle"
  BY DEF StartRun
<1>3. job'.process \subseteq Files
  <2>1. OnDisk \subseteq Files
    BY DEF OnDisk
  <2>2. detect_changes.process \subseteq Files
    BY DEF detect_changes, OnDisk
  <2>3. \A E : normalize_explicit_changes(E).process \subseteq Files
    BY DEF normalize_explicit_changes, OnDisk
  <2>4. Change(adopt).process \subseteq Files
    <3> DEFINE c == IF walks(changes, adopt) THEN detect_changes
                    ELSE normalize_explicit_changes(changes)
               p == normalize_explicit_changes(FilesOf(db.pending_retry))
    <3>1. c.process \subseteq Files /\ p.process \subseteq Files
      BY <2>2, <2>3
    <3>2. Change(adopt).process = c.process \cup p.process
      BY DEF FoldPendingRetry
    <3> QED
      BY <3>1, <3>2
  <2> HIDE DEF Change, Rebuild
  <2> QED
    BY <1>1, <2>1, <2>4
<1>4. IsSeq(adoptOp(adopt)) /\ ToSet(adoptOp(adopt)) \subseteq {Meta([identity |-> client])}
  BY NoSeq, OneSeq
<1>5. IsSeq(retryOp(adopt)) /\ ToSet(retryOp(adopt)) \subseteq {Delete("pending_retry", Vanished)}
  <2> HIDE DEF Rebuild
  <2>1. CASE Rebuild(adopt) \/ Vanished = {}
    BY <2>1, NoSeq
  <2>2. CASE ~(Rebuild(adopt) \/ Vanished = {})
    BY <2>2, OneSeq
  <2> QED
    BY <2>1, <2>2
<1> HIDE DEF marker, force, hasData, Rebuild, adoptOp, retryOp, Change
<1>6. IsSeq(ops')
      /\ ToSet(ops') \subseteq {Meta([identity |-> client]), Delete("pending_retry", Vanished)}
  BY <1>1, <1>4, <1>5, ConcatSeq
<1>7. QuietStmt(Meta([identity |-> client])) /\ QuietStmt(Delete("pending_retry", Vanished))
  BY MetaFields, DeleteFields DEF QuietStmt, Tables, RowTables
<1>8. \A s \in ToSet(ops') : QuietStmt(s)
  BY <1>6, <1>7
<1>9. ops = <<>>
  BY <1>2 DEF SpaceInv, SpacePhase
<1>10. client \in Identities
  BY DEF CommitInv, CommitTypes
<1>11. pc' = "preflight" => job'.mode = "full"
  BY <1>1
<1> QED
  BY <1>1, <1>2, <1>3, <1>6, <1>8, <1>9, <1>10, <1>11, CommitQuiet

LEMMA GraphIsQuiet ==
  ASSUME NEW s, GraphStmt(s)
  PROVE  QuietStmt(s)
BY DEF GraphStmt, QuietStmt, RowTables

\* After the stream: markers, the call graph and file_meta rows of deleted files.
LEMMA CommitAfter ==
  ASSUME SpaceInv, CommitInv,
         CommitRows \/ RunSucceeds \/ FullPhase2 \/ IncrementalPhase2 \/ NoChangePhase2
  PROVE  CommitInv'
<1>1. /\ UNCHANGED <<disk, client, db, buf, torn, skipped, job>> /\ ops = <<>>
      /\ pc \in {"tail", "phase2", "commit", "nochange"}
      /\ pc' \in {"commit", "finish", "phase2"}
  BY DEF CommitRows, RunSucceeds, FullPhase2, IncrementalPhase2, NoChangePhase2, EnterPhase2, runVars
<1>2. used'.edits = used.edits /\ "edits" \in DOMAIN used' /\ "soft" \in DOMAIN used'
  <2>1. used' \in {used, Spend("heal")}
    BY DEF CommitRows, RunSucceeds, FullPhase2, IncrementalPhase2, NoChangePhase2, Heal
  <2> QED
    BY <2>1 DEF Spend, CommitInv, CommitTypes
<1>3. job.identity \in Identities /\ job.process \subseteq Files
  BY <1>1 DEF CommitInv, CommitTypes
<1> DEFINE Quiet(q) == IsSeq(q) /\ \A s \in ToSet(q) : QuietStmt(s)
<1>4. ASSUME Quiet(ops') PROVE CommitInv'
  BY <1>1, <1>2, <1>3, <1>4, CommitQuiet
<1>5. \A m : QuietStmt(Meta(m)) /\ QuietStmt(Soft(Meta(m)))
  BY MetaFields DEF QuietStmt
<1>6. CASE CommitRows
  <2>1. CASE job.mode = "full"
    <3>1. ops' = <<Meta([raw_edge_complete |-> TRUE]), Meta([identity |-> job.identity])>>
      BY <1>6, <2>1 DEF CommitRows
    <3> QED
      BY <1>4, <1>5, <3>1, TwoSeq
  <2>2. CASE job.mode # "full"
    <3>1. /\ ops' = <<Delete("file_meta", job.delete), Delete("pending_retry", job.delete),
                      Meta([identity |-> job.identity])>>
          /\ pc' = "commit"
      BY <1>6, <2>2 DEF CommitRows
    <3>2. IsSeq(ops') /\ ToSet(ops') = {Delete("file_meta", job.delete),
               Delete("pending_retry", job.delete), Meta([identity |-> job.identity])}
      BY <3>1, ThreeSeq
    <3>3. QuietStmt(Delete("pending_retry", job.delete))
      BY DeleteFields DEF QuietStmt, Tables, RowTables
    <3>4. \A s \in ToSet(ops') : \/ QuietStmt(s)
                                 \/ pc' = "commit" /\ \E F : s = Delete("file_meta", F)
      BY <1>5, <3>1, <3>2, <3>3
    <3> QED
      BY <1>1, <1>2, <1>3, <3>2, <3>4, CommitQuiet
  <2> QED
    BY <2>1, <2>2
<1>7. CASE RunSucceeds
  <2>1. ops' \in {<<Soft(Meta([needs_rebuild |-> FALSE]))>>, <<>>}
    BY <1>7 DEF RunSucceeds
  <2> QED
    BY <1>4, <1>5, <2>1, OneSeq, NoSeq
<1>8. EdgesIn(db.raw_edge) /\ EdgesIn({})
  BY DEF SpaceInv, SpaceTypes, EdgesIn
<1>9. \A raw : EdgesIn(raw) => Quiet(resolve_edges_phase2(raw))
  BY GraphIsQuiet, Phase2Statements
<1>10. \A R : Quiet(reresolve_statements(R))
  BY <1>8, GraphIsQuiet, ReresolveStatements
<1>11. Heal => Quiet(ops')
  <2>1. \A U : Quiet(heal_edges(U))
    BY GraphIsQuiet, HealStatements DEF SpaceInv, SpaceTypes
  <2> QED
    BY <2>1 DEF Heal
<1>12. ASSUME NEW raw, EdgesIn(raw) PROVE Quiet(Tail(resolve_edges_phase2(raw)))
  <2> DEFINE q == resolve_edges_phase2(raw)
  <2>1. IsSeq(q) /\ q # <<>> /\ \A s \in ToSet(q) : GraphStmt(s)
    BY <1>12, Phase2Statements
  <2> HIDE DEF q
  <2>2. IsSeq(Tail(q)) /\ ToSet(Tail(q)) \subseteq ToSet(q)
    BY <2>1, TailSeq
  <2>3. Quiet(Tail(q))
    BY <2>1, <2>2, GraphIsQuiet
  <2> QED
    BY <2>3 DEF q
<1>13. Quiet(<<>>)
  BY NoSeq
<1> HIDE DEF Quiet
<1>14. CASE FullPhase2
  BY <1>4, <1>9, <1>12, <1>14, FullPhase2Edges
<1>15. CASE IncrementalPhase2
  <2>1. \/ Heal
        \/ \E R : ops' = reresolve_statements(R)
        \/ ops' = resolve_edges_phase2(db.raw_edge)
    BY <1>15 DEF IncrementalPhase2
  <2> QED
    BY <1>4, <1>8, <1>9, <1>10, <1>11, <2>1
<1>16. CASE NoChangePhase2
  <2>1. Heal \/ ops' = <<>> \/ ops' = resolve_edges_phase2(db.raw_edge)
    BY <1>16 DEF NoChangePhase2
  <2> QED
    BY <1>4, <1>8, <1>9, <1>11, <1>13, <2>1
<1> QED
  BY <1>6, <1>7, <1>14, <1>15, <1>16

\* The bulk deletes are issued: symbols, chunks and at last file_meta.
LEMMA CommitBegin ==
  ASSUME SpaceInv, CommitInv, BeginFull \/ BeginIncremental
  PROVE  CommitInv'
<1>1. /\ UNCHANGED <<disk, client, db, buf, torn, skipped, used>> /\ ops = <<>>
      /\ pc \in {"preflight", "plan"} /\ pc' = "begin"
  BY DEF BeginFull, BeginIncremental, runVars
<1>2. /\ job'.identity = job.identity /\ job'.process = job.process
      /\ job'.mode = job.mode /\ job'.delete = job.delete
  BY DEF BeginFull, BeginIncremental, runVars, SpaceInv, SpaceTypes, JobKeys
<1>3. Affected' = Affected
  BY <1>2 DEF Affected
<1> DEFINE BulkDelete(s) == /\ Shape(s) /\ ~s.check /\ (s.soft => s.op = "meta") /\ s.op # "insert"
                            /\ s.op = "delete" => s.files = Affected
<1>4. /\ \A m : BulkDelete(Meta(m)) /\ BulkDelete(Soft(Meta(m)))
      /\ \A t \in Tables : BulkDelete(Delete(t, Affected))
  <2>1. \A m : ~Meta(m).check /\ ~Soft(Meta(m)).check
    BY DEF Meta, Soft, Stmt
  <2>2. \A t : ~Delete(t, Affected).check
    BY DEF Delete, Stmt
  <2>3. \A m : BulkDelete(Meta(m)) /\ BulkDelete(Soft(Meta(m)))
    BY <2>1, MetaFields
  <2>4. \A t \in Tables : BulkDelete(Delete(t, Affected))
    BY <2>2, DeleteFields
  <2> QED
    BY <2>3, <2>4
<1>5. /\ IsSeq(ops') /\ \A s \in ToSet(ops') : BulkDelete(s)
      /\ \A t \in RowTables : Delete(t, Affected) \in ToSet(ops')
      /\ InOrder(ops')
  <2> HIDE DEF BulkDelete
  <2>1. CASE BeginFull
    <3> DEFINE a == Meta([identity |-> None, raw_edge_complete |-> FALSE])
               z == Soft(Meta([edges_resolved |-> FALSE]))
               d1 == Delete("calls", Affected)
               d2 == Delete("raw_edge", Affected)
               d3 == Delete("symbol", Affected)
               d4 == Delete("chunk", Affected)
               d5 == Delete("file_meta", Affected)
    <3>1. Affected = Files
      BY <1>1, <2>1 DEF BeginFull, CommitInv, CommitTypes, Affected
    <3>2. ops' = <<a, d1, d2, d3, d4, d5, z>>
      BY <2>1, <3>1 DEF BeginFull
    <3>3. a.op = "meta" /\ z.op = "meta"
      BY MetaFields
    <3>4. /\ d1.op = "delete" /\ d1.table = "calls" /\ d2.op = "delete" /\ d2.table = "raw_edge"
          /\ d3.op = "delete" /\ d3.table = "symbol" /\ d4.op = "delete" /\ d4.table = "chunk"
          /\ d5.op = "delete" /\ d5.table = "file_meta"
      BY DeleteFields DEF Tables
    <3>5. BulkDelete(a) /\ BulkDelete(z) /\ BulkDelete(d1) /\ BulkDelete(d2) /\ BulkDelete(d3)
          /\ BulkDelete(d4) /\ BulkDelete(d5)
      BY <1>4 DEF Tables
    <3>6. d3 = Delete("symbol", Affected) /\ d4 = Delete("chunk", Affected)
          /\ d5 = Delete("file_meta", Affected)
      OBVIOUS
    <3> HIDE DEF a, z, d1, d2, d3, d4, d5
    <3>7. IsSeq(ops') /\ ToSet(ops') = {a, d1, d2, d3, d4, d5, z}
      BY <3>2, SevenSeq
    <3>8. InOrder(ops')
      BY <3>2, <3>3, <3>4 DEF InOrder, MayPrecede
    <3> QED
      BY <3>5, <3>6, <3>7, <3>8 DEF RowTables
  <2>2. CASE BeginIncremental
    <3> DEFINE a == Meta([identity |-> None, edges_resolved |-> FALSE])
               d1 == Delete("symbol", Affected)
               d2 == Delete("chunk", Affected)
               d3 == Delete("raw_edge", Affected)
               d4 == Delete("file_meta", Affected)
    <3>1. Affected = job.process \cup job.delete
      BY <2>2 DEF BeginIncremental, SpaceInv, SpacePhase, Affected
    <3>2. ops' = <<a, d1, d2, d3, d4>>
      BY <2>2, <3>1 DEF BeginIncremental
    <3>3. a.op = "meta"
      BY MetaFields
    <3>4. /\ d1.op = "delete" /\ d1.table = "symbol" /\ d2.op = "delete" /\ d2.table = "chunk"
          /\ d3.op = "delete" /\ d3.table = "raw_edge" /\ d4.op = "delete"
          /\ d4.table = "file_meta"
      BY DeleteFields DEF Tables
    <3>5. BulkDelete(a) /\ BulkDelete(d1) /\ BulkDelete(d2) /\ BulkDelete(d3) /\ BulkDelete(d4)
      BY <1>4 DEF Tables
    <3>6. d1 = Delete("symbol", Affected) /\ d2 = Delete("chunk", Affected)
          /\ d4 = Delete("file_meta", Affected)
      OBVIOUS
    <3> HIDE DEF a, d1, d2, d3, d4
    <3>7. IsSeq(ops') /\ ToSet(ops') = {a, d1, d2, d3, d4}
      BY <3>2, FiveSeq
    <3>8. InOrder(ops')
      BY <3>2, <3>3, <3>4 DEF InOrder, MayPrecede
    <3> QED
      BY <3>5, <3>6, <3>7, <3>8 DEF RowTables
  <2> QED
    BY <2>1, <2>2
<1>6. CommitStmts'
  BY <1>1, <1>3, <1>5 DEF CommitStmts, PhaseStmt, RowTables
<1>7. Removing'
  BY <1>3, <1>5 DEF Removing
<1>8. \A t \in RowTables : Issued(t)' = {} /\ Issued(t) = {}
  BY <1>1, <1>6, NoneIssued DEF CommitInv
<1>9. CommitTypes'
  BY <1>1, <1>2, <1>8, CalmTypes DEF CommitInv, CommitTypes, RowTables
<1>10. MidDelete \subseteq MidDelete' /\ Reading'
  BY <1>1, MidDeleteIs DEF Reading
<1> QED
  BY <1>1, <1>6, <1>7, <1>8, <1>9, <1>10, CommitCalm

\* The deletes are done: nothing is left of the files about to be read.
LEMMA CommitStartStream ==
  ASSUME SpaceInv, CommitInv, StartStream
  PROVE  CommitInv'
<1>1. /\ UNCHANGED <<disk, client, db, buf, torn, skipped, used, ops, job>> /\ ops = <<>>
      /\ pc = "begin" /\ pc' \in {"stream", "tail"}
      /\ st' = [f \in Files |-> IF f \in job.process THEN [NoStage EXCEPT !.at = "todo"]
                                ELSE NoStage]
  BY DEF StartStream
<1>2. ToSet(ops) = {} /\ ToSet(ops') = {} /\ IsSeq(ops')
  BY <1>1, NoSeq
<1>3. \A t : Issued(t) = {} /\ Issued(t)' = {}
  BY <1>2 DEF Issued
<1>4. MidDelete = {}
  BY <1>2, MidDeleteIs DEF Deletes
<1>5. CommitStmts'
  BY <1>2, OrderLasts DEF CommitStmts
<1>6. CommitTypes'
  BY <1>1, <1>3, CalmTypes DEF CommitInv, CommitTypes
<1>7. \A t \in RowTables : \A r \in db[t] : r.file \notin Affected
  BY <1>1, <1>2 DEF CommitInv, Removing
<1>8. job.process \subseteq Affected
  BY <1>1 DEF CommitInv, CommitTypes, Affected
<1>9. buf = NoBuf /\ skipped.permanent = {}
  BY <1>1 DEF CommitInv, CommitTypes
<1>10. \A f \in job.process : Untouched(f)'
  <2>1. \A f \in job.process : /\ \A r \in db.chunk : r.file # f
                               /\ \A r \in db.symbol : r.file # f
                               /\ \A r \in db.file_meta : r.file # f
    BY <1>7, <1>8 DEF RowTables
  <2>2. buf.chunk = {} /\ buf.symbol = {} /\ buf.file_meta = {}
    BY <1>9 DEF NoBuf
  <2> QED
    BY <1>1, <1>3, <1>9, <2>1, <2>2 DEF Untouched, ChunkRows, SymbolRows, Metas
<1>11. Reading'
  <2>1. \A f \in Files : /\ f \in job.process => st'[f].at = "todo"
                         /\ f \notin job.process => st'[f].at = "none"
    BY <1>1 DEF NoStage
  <2> QED
    BY <1>10, <2>1 DEF Reading
<1>12. Removing'
  BY <1>1 DEF Removing
<1> QED
  BY <1>1, <1>3, <1>4, <1>5, <1>6, <1>11, <1>12, CommitCalm

\* Files are read: the stamp first, the content later, and a file that is not text
\* is remembered under its stamp without rows.
LEMMA CommitReading ==
  ASSUME SpaceInv, CommitInv, NEW f \in Files,
         StatFile(f) \/ ReadAndEmbed(f) \/ TransientSkip(f) \/ FatalEmbed(f)
  PROVE  CommitInv'
<1>1. pc = "stream" /\ UNCHANGED <<disk, client, db, pc, job, ops, buf, torn>>
  BY DEF StatFile, ReadAndEmbed, TransientSkip, FatalEmbed, Streaming
<1>2. used'.edits = used.edits /\ "edits" \in DOMAIN used' /\ "soft" \in DOMAIN used'
  <2>1. used' \in {used, Spend("errors"), Spend("fatal")}
    BY DEF StatFile, ReadAndEmbed, TransientSkip, FatalEmbed
  <2> QED
    BY <2>1 DEF Spend, CommitInv, CommitTypes
<1>3. /\ DOMAIN st = Files /\ DOMAIN st[f] = {"at", "stamp", "ver"}
      /\ DOMAIN skipped = {"retry", "permanent"}
  BY DEF SpaceInv, SpaceTypes
<1>4. st[f].at \in {"todo", "stat"} /\ Untouched(f)
  <2>1. st[f].at \in {"todo", "stat"}
    BY DEF StatFile, ReadAndEmbed, TransientSkip, FatalEmbed
  <2> QED
    BY <1>1, <2>1 DEF CommitInv, Reading
<1> DEFINE row == [file |-> f, stamp |-> st[f].stamp]
           Fate == \/ st'[f].at = "done" /\ skipped'.permanent = skipped.permanent
                   \/ /\ st'[f].at = "done" /\ skipped'.permanent = skipped.permanent \cup {row}
                      /\ st[f].at = "stat" /\ disk[f] # Absent /\ disk[f].content \in Binary
                   \/ /\ st'[f].at = "stat" /\ st'[f].stamp = disk[f] /\ disk[f] # Absent
                      /\ skipped'.permanent = skipped.permanent
                   \/ /\ st'[f].at = "embedded" /\ st'[f].ver = disk[f] /\ disk[f] # Absent
                      /\ st'[f].stamp = st[f].stamp /\ st[f].at = "stat"
                      /\ skipped'.permanent = skipped.permanent
<1>5. /\ Fate
      /\ \A g \in Files : g # f => st'[g] = st[g]
  <2>1. ASSUME st' = [st EXCEPT ![f] = [NoStage EXCEPT !.at = "done"]]
        PROVE  st'[f].at = "done" /\ \A g \in Files : g # f => st'[g] = st[g]
    BY <1>3, <2>1 DEF NoStage
  <2>2. ASSUME skipped' = [skipped EXCEPT !.retry = @ \cup {f}]
        PROVE  skipped'.permanent = skipped.permanent
    BY <1>3, <2>2
  <2>3. ASSUME SkipForRetry(f)
        PROVE  Fate /\ \A g \in Files : g # f => st'[g] = st[g]
    BY <2>1, <2>2, <2>3 DEF SkipForRetry
  <2>4. CASE StatFile(f)
    <3>1. CASE disk[f] = Absent
      BY <2>3, <2>4, <3>1 DEF StatFile
    <3>2. CASE disk[f] # Absent
      <4>1. st' = [st EXCEPT ![f].at = "stat", ![f].stamp = disk[f]] /\ skipped' = skipped
        BY <2>4, <3>2 DEF StatFile
      <4>2. /\ st'[f].at = "stat" /\ st'[f].stamp = disk[f]
            /\ \A g \in Files : g # f => st'[g] = st[g]
        BY <1>3, <4>1
      <4> QED
        BY <3>2, <4>1, <4>2
    <3> QED
      BY <3>1, <3>2
  <2>5. CASE ReadAndEmbed(f)
    <3>1. CASE disk[f] = Absent
      BY <2>3, <2>5, <3>1 DEF ReadAndEmbed
    <3>2. CASE disk[f] # Absent /\ disk[f].content \in Binary
      <4>1. /\ skipped' = [skipped EXCEPT !.permanent = @ \cup {row}]
            /\ st' = [st EXCEPT ![f] = [NoStage EXCEPT !.at = "done"]] /\ st[f].at = "stat"
        BY <2>5, <3>2 DEF ReadAndEmbed
      <4>2. skipped'.permanent = skipped.permanent \cup {row}
        BY <1>3, <4>1
      <4> QED
        BY <2>1, <3>2, <4>1, <4>2
    <3>3. CASE disk[f] # Absent /\ disk[f].content \notin Binary
      <4>1. /\ st' = [st EXCEPT ![f].at = "embedded", ![f].ver = disk[f]]
            /\ skipped' = skipped /\ st[f].at = "stat"
        BY <2>5, <3>3 DEF ReadAndEmbed
      <4>2. /\ st'[f].at = "embedded" /\ st'[f].ver = disk[f] /\ st'[f].stamp = st[f].stamp
            /\ \A g \in Files : g # f => st'[g] = st[g]
        BY <1>3, <4>1
      <4> QED
        BY <3>3, <4>1, <4>2
    <3> QED
      BY <3>1, <3>2, <3>3
  <2>6. CASE TransientSkip(f)
    BY <2>3, <2>6 DEF TransientSkip
  <2>7. CASE FatalEmbed(f)
    BY <2>1, <2>7 DEF FatalEmbed
  <2> QED
    BY <2>4, <2>5, <2>6, <2>7
<1> HIDE DEF Fate, row
<1>6. skipped'.permanent \subseteq skipped.permanent \cup {row} /\ row.file = f
      /\ row.stamp = st[f].stamp /\ skipped.permanent \subseteq skipped'.permanent
  BY <1>5 DEF Fate, row
<1>7. row \in skipped'.permanent \ skipped.permanent =>
         st'[f].at = "done" /\ st[f].at = "stat" /\ disk[f] # Absent /\ disk[f].content \in Binary
  BY <1>5 DEF Fate
<1>8. \A g, s, v : Fits(g, s, v)' <=> Fits(g, s, v)
  BY <1>1, <1>2 DEF Fits
<1>9. /\ \A t : Issued(t)' = Issued(t)
      /\ \A g : ChunkRows(g)' = ChunkRows(g) /\ SymbolRows(g)' = SymbolRows(g)
      /\ MidDelete' = MidDelete
  BY <1>1 DEF Issued, ChunkRows, SymbolRows, MidDelete, Stored
<1>10. Metas \subseteq Metas' /\ Metas' \subseteq Metas \cup {row}
       /\ (row \in Metas' => row \in Metas \/ row \in skipped'.permanent \ skipped.permanent)
  BY <1>1, <1>6, <1>9 DEF Metas
<1>11. st[f].at = "stat" /\ disk[f] # Absent => Fits(f, st[f].stamp, disk[f])
  BY <1>1 DEF CommitInv, Reading
<1>12. CommitTypes'
  BY <1>1, <1>2, <1>6, <1>10 DEF CommitInv, CommitTypes
<1>13. CommitStmts' /\ Removing'
  BY <1>1 DEF CommitInv, CommitStmts, PhaseStmt, Affected, Removing
<1>14. Behind' /\ OneContent'
  BY <1>1, <1>9 DEF CommitInv, Behind, OneContent
<1>15. Whole'
  <2>1. SUFFICES ASSUME NEW m \in Metas', m.file \notin torn \cup MidDelete
                 PROVE  \E v \in Versions :
                           /\ Fits(m.file, m.stamp, v)
                           /\ \E id \in Identities : ChunkRows(m.file) = ChunksOf(m.file, v, id)
                           /\ SymbolRows(m.file) = SymbolsOf[m.file][v.content]
    BY <1>1, <1>8, <1>9 DEF Whole
  <2>2. CASE m \in Metas
    BY <2>1, <2>2 DEF CommitInv, Whole
  <2>3. CASE m \notin Metas
    <3>1. /\ m = row /\ m.file = f /\ m.stamp = st[f].stamp /\ Fits(f, st[f].stamp, disk[f])
          /\ disk[f] # Absent /\ disk[f].content \in Binary
      BY <1>6, <1>7, <1>10, <1>11, <2>1, <2>3
    <3>2. disk[f] \in Versions /\ disk[f].content \in Contents
      BY <3>1 DEF CommitInv, CommitTypes, SpaceInv, SpaceTypes
    <3>3. ChunkRows(f) = {} /\ SymbolRows(f) = {}
      BY <1>4 DEF Untouched
    <3>4. SymbolsOf[f][disk[f].content] = {} /\ \A id : ChunksOf(f, disk[f], id) = {}
      BY <3>1, <3>2, PipelineAssumption DEF ChunksOf
    <3>5. job.identity \in Identities
      BY <1>1 DEF CommitInv, CommitTypes
    <3> QED
      BY <3>1, <3>2, <3>3, <3>4, <3>5
  <2> QED
    BY <2>2, <2>3
<1>16. Reading'
  <2>1. ASSUME NEW g \in Files, g # f
        PROVE  /\ st'[g].at \in {"todo", "stat", "embedded"} => Untouched(g)'
               /\ st'[g].at = "stat" =>
                     /\ st'[g].stamp \in Versions /\ st'[g].stamp.stamp <= used'.edits
                     /\ disk'[g] # Absent => Fits(g, st[g].stamp, disk[g])'
               /\ st'[g].at = "embedded" => Fits(g, st[g].stamp, st[g].ver)'
    <3>1. st'[g] = st[g]
      BY <1>5, <2>1
    <3>2. Untouched(g) => Untouched(g)'
      BY <1>6, <1>9, <1>10, <2>1 DEF Untouched
    <3> QED
      BY <1>1, <1>2, <1>8, <3>1, <3>2 DEF CommitInv, Reading, Fits
  <2>2. ASSUME st'[f].at \in {"todo", "stat", "embedded"} PROVE Untouched(f)'
    <3>1. row \notin skipped'.permanent \ skipped.permanent
      BY <1>7, <2>2
    <3> QED
      BY <1>4, <1>9, <1>10, <3>1 DEF Untouched
  <2>3. ASSUME st'[f].at = "stat"
        PROVE  /\ st'[f].stamp \in Versions /\ st'[f].stamp.stamp <= used'.edits
               /\ Fits(f, st[f].stamp, disk[f])'
    <3>1. st'[f].stamp = disk[f] /\ disk[f] # Absent
      BY <1>5, <2>3 DEF Fate
    <3>2. disk[f] \in Versions /\ disk[f].stamp <= used.edits
      BY <3>1 DEF CommitInv, CommitTypes
    <3>3. disk[f].stamp \in Int
      BY <3>2, PipelineAssumption DEF Versions
    <3>4. Fits(f, disk[f], disk[f])
      BY <3>2, <3>3 DEF Fits
    <3> QED
      BY <1>1, <1>2, <3>1, <3>2, <3>4 DEF Fits
  <2>4. ASSUME st'[f].at = "embedded" PROVE Fits(f, st[f].stamp, st[f].ver)'
    <3>1. /\ st'[f].ver = disk[f] /\ st'[f].stamp = st[f].stamp
          /\ st[f].at = "stat" /\ disk[f] # Absent
      BY <1>5, <2>4 DEF Fate
    <3>2. Fits(f, st[f].stamp, disk[f])
      BY <1>11, <3>1
    <3> QED
      BY <1>1, <1>2, <3>1, <3>2 DEF Fits
  <2> QED
    BY <2>1, <2>2, <2>3, <2>4 DEF Reading
<1> QED
  BY <1>12, <1>13, <1>14, <1>15, <1>16 DEF CommitInv

\* Rows that move from the statements to the tables.
LEMMA CommitMove ==
  ASSUME CommitInv, pc \in {"stream", "tail"},
         UNCHANGED <<disk, client, pc, job, st, buf, skipped, torn, used>>,
         Metas' \subseteq Metas, \A f : ChunkRows(f)' = ChunkRows(f),
         \A f : SymbolRows(f)' = SymbolRows(f),
         Issued("symbol")' \subseteq Issued("symbol"),
         CommitTypes', CommitStmts', Behind'
  PROVE  CommitInv'
<1>1. \A f, s, v : Fits(f, s, v)' <=> Fits(f, s, v)
  BY DEF Fits
<1>2. MidDelete = {} /\ MidDelete' = {}
  BY MidDeleteIs
<1>3. Whole'
  BY <1>1, <1>2 DEF CommitInv, Whole
<1>4. OneContent'
  BY DEF CommitInv, OneContent
<1>5. Removing'
  BY DEF Removing
<1>6. Reading'
  <2>1. \A f : Untouched(f) => Untouched(f)'
    BY DEF Untouched
  <2> QED
    BY <1>1, <2>1 DEF CommitInv, Reading, Fits
<1> QED
  BY <1>3, <1>4, <1>5, <1>6 DEF CommitInv

\* Symbol rows that are written replace only themselves.
LEMMA SymbolsAdd ==
  ASSUME CommitInv, NEW rows, rows \subseteq Issued("symbol"), \A n \in rows : SymbolRow(n)
  PROVE  {r \in db.symbol : \A n \in rows : r.fqn # n.fqn} \cup rows = db.symbol \cup rows
<1>1. ASSUME NEW r \in db.symbol, NEW n \in rows, r.fqn = n.fqn PROVE r = n
  <2>1. SymbolRow(r) /\ SymbolRow(n)
    BY DEF CommitInv, CommitTypes
  <2>2. r.file = n.file /\ r.file \in Files
    BY <1>1, <2>1, SymbolAssumption DEF SymbolRow
  <2>3. n \in Issued("symbol")
    OBVIOUS
  <2>4. PICK c \in Contents : SymbolRows(n.file) \subseteq SymbolsOf[n.file][c]
    <3>1. n \in SymbolRows(n.file) /\ n.file \in Files
      BY <2>2, <2>3 DEF SymbolRows
    <3> QED
      BY <3>1 DEF CommitInv, OneContent
  <2>5. r \in SymbolsOf[n.file][c] /\ n \in SymbolsOf[n.file][c]
    BY <2>2, <2>3, <2>4 DEF SymbolRows
  <2> QED
    BY <1>1, <2>2, <2>5, SymbolAssumption
<1> QED
  BY <1>1

LEMMA CommitPerform ==
  ASSUME SpaceInv, CommitInv, PerformNext
  PROVE  CommitInv'
<1> DEFINE s == Head(ops)
<1>1. /\ ops # <<>> /\ db' = Perform(db, s) /\ ops' = Tail(ops)
      /\ torn' = IF s.op = "delete" /\ s.table = "file_meta" THEN torn \ s.files ELSE torn
      /\ UNCHANGED <<disk, client, pc, job, st, buf, skipped, used>>
  BY DEF PerformNext, runVars
<1>2. IsSeq(ops') /\ s \in ToSet(ops) /\ ToSet(ops) = {s} \cup ToSet(ops')
  BY <1>1, TailSeq DEF CommitInv, CommitStmts
<1>3. PhaseStmt(s) /\ Shape(s) /\ DbShape(db)
  BY <1>2 DEF CommitInv, CommitStmts, PhaseStmt, SpaceInv, SpaceTypes
<1>4. InOrder(ops') /\ \A t \in ToSet(ops') : MayPrecede(s, t)
  BY <1>1, OrderTail DEF CommitInv, CommitStmts
<1>5. CommitStmts'
  <2>1. \A t \in ToSet(ops') : PhaseStmt(t)
    BY <1>2 DEF CommitInv, CommitStmts
  <2> QED
    BY <1>1, <1>2, <1>4, <2>1 DEF CommitStmts, PhaseStmt, Affected
<1>6. \A t : Issued(t) = Issued(t)' \cup (IF s.op = "insert" /\ s.table = t THEN s.rows ELSE {})
  BY <1>1, IssuedTail DEF CommitInv, CommitStmts
<1>7. RowTables \subseteq Tables
  BY DEF RowTables, Tables
<1> HIDE DEF s
<1>8. CASE s.op = "meta" \/ s.table \notin RowTables
  <2>1. \A t \in RowTables : db'[t] = db[t]
    <3>1. CASE s.op = "meta"
      BY <1>1, <1>3, <1>7, <3>1, PerformMeta
    <3>2. CASE s.op = "insert"
      <4>1. s.table \in Tables /\ s.table \notin RowTables
        BY <1>3, <1>8, <3>2 DEF Shape
      <4> QED
        BY <1>1, <1>3, <1>7, <3>2, <4>1, PerformInsert
    <3>3. CASE s.op = "delete"
      <4>1. s.table \in Tables /\ s.table \notin RowTables
        BY <1>3, <1>8, <3>3 DEF Shape
      <4> QED
        BY <1>1, <1>3, <1>7, <3>3, <4>1, PerformDelete
    <3> QED
      BY <1>3, <3>1, <3>2, <3>3 DEF Shape
  <2>2. db'.chunk = db.chunk /\ db'.symbol = db.symbol /\ db'.file_meta = db.file_meta
    BY <2>1 DEF RowTables
  <2>3. \A t \in RowTables : Issued(t)' = Issued(t)
    BY <1>6, <1>8
  <2>4. \A f : /\ Deletes(ops', "file_meta", f) <=> Deletes(ops, "file_meta", f)
               /\ Deletes(ops', "symbol", f) <=> Deletes(ops, "symbol", f)
    BY <1>2, <1>8 DEF Deletes, RowTables
  <2>5. Stored' = Stored
    BY <2>2 DEF Stored
  <2>6. MidDelete' = MidDelete
    BY <1>1, <2>4, <2>5, MidDeleteIs
  <2>7. CommitTypes'
    BY <1>1, <2>2, <2>3, CalmTypes DEF CommitInv, CommitTypes, RowTables
  <2>8. Removing'
    <3>1. \A t \in RowTables : \A F : s # Delete(t, F)
      BY <1>7, <1>8, DeleteFields
    <3> QED
      BY <1>1, <1>2, <2>1, <3>1 DEF CommitInv, Removing, Affected
  <2>9. Reading'
    <3>1. \A f : Untouched(f)' <=> Untouched(f)
      BY <1>1, <2>2, <2>3 DEF Untouched, ChunkRows, SymbolRows, Metas, RowTables
    <3>2. \A f, q, v : Fits(f, q, v)' <=> Fits(f, q, v)
      BY <1>1 DEF Fits
    <3> QED
      BY <1>1, <3>1, <3>2 DEF CommitInv, Reading, Fits
  <2>10. torn' = torn
    BY <1>1, <1>8 DEF RowTables
  <2> QED
    BY <1>1, <1>5, <2>2, <2>3, <2>6, <2>7, <2>8, <2>9, <2>10, CommitCalm
<1>9. CASE s.op = "insert" /\ s.table \in RowTables
  <2>1. pc \in {"stream", "tail"} /\ torn' = torn
    BY <1>1, <1>3, <1>9 DEF PhaseStmt
  <2>2. /\ db'.index_meta = db.index_meta
        /\ \A t \in Tables \ {s.table} : db'[t] = db[t]
        /\ db'[s.table] = {r \in db[s.table] : \A n \in s.rows : ~SameKey(s.table, r, n)}
                          \cup s.rows
    BY <1>1, <1>3, <1>7, <1>9, PerformInsert
  <2>3. s.rows \subseteq Issued(s.table)
    BY <1>6, <1>9
  <2>4. Issued("symbol")' \subseteq Issued("symbol") /\ Issued("chunk")' \subseteq Issued("chunk")
        /\ Issued("file_meta")' \subseteq Issued("file_meta")
    BY <1>6
  <2>5. CASE s.table = "chunk"
    <3>1. db'.chunk = db.chunk \cup s.rows /\ db'.symbol = db.symbol
          /\ db'.file_meta = db.file_meta
      BY <2>2, <2>5 DEF SameKey, Tables
    <3>2. /\ Issued("symbol")' = Issued("symbol") /\ Issued("file_meta")' = Issued("file_meta")
          /\ Issued("chunk") = Issued("chunk")' \cup s.rows
      BY <1>6, <1>9, <2>5
    <3>3. \A f : ChunkRows(f)' = ChunkRows(f) /\ SymbolRows(f)' = SymbolRows(f)
      BY <1>1, <3>1, <3>2 DEF ChunkRows, SymbolRows
    <3>4. Metas' = Metas
      BY <1>1, <3>1, <3>2 DEF Metas
    <3>5. CommitTypes'
      BY <1>1, <3>1, <3>4 DEF CommitInv, CommitTypes
    <3>6. Behind'
      BY <1>1, <2>4, <3>1 DEF CommitInv, Behind
    <3> QED
      BY <1>1, <1>5, <2>1, <2>4, <3>3, <3>4, <3>5, <3>6, CommitMove
  <2>6. CASE s.table = "symbol"
    <3>1. db'.symbol = {r \in db.symbol : \A n \in s.rows : r.fqn # n.fqn} \cup s.rows
          /\ db'.chunk = db.chunk /\ db'.file_meta = db.file_meta
      BY <2>2, <2>6 DEF SameKey, Tables
    <3>2. /\ Issued("chunk")' = Issued("chunk") /\ Issued("file_meta")' = Issued("file_meta")
          /\ Issued("symbol") = Issued("symbol")' \cup s.rows
      BY <1>6, <1>9, <2>6
    <3>3. \A n \in s.rows : SymbolRow(n)
      BY <1>3, <1>9, <2>6 DEF PhaseStmt
    <3>4. s.rows \subseteq Issued("symbol")
      BY <2>3, <2>6
    <3>5. db'.symbol = db.symbol \cup s.rows
      BY <3>1, <3>3, <3>4, SymbolsAdd
    <3>6. \A f : ChunkRows(f)' = ChunkRows(f) /\ SymbolRows(f)' = SymbolRows(f)
      BY <1>1, <3>1, <3>2, <3>5 DEF ChunkRows, SymbolRows
    <3>7. Metas' = Metas
      BY <1>1, <3>1, <3>2 DEF Metas
    <3>8. CommitTypes'
      BY <1>1, <3>1, <3>3, <3>5, <3>7 DEF CommitInv, CommitTypes
    <3>9. Behind'
      BY <1>1, <2>4, <3>1 DEF CommitInv, Behind
    <3> QED
      BY <1>1, <1>5, <2>1, <2>4, <3>6, <3>7, <3>8, <3>9, CommitMove
  <2>7. CASE s.table = "file_meta"
    <3>1. db'.file_meta = {r \in db.file_meta : \A n \in s.rows : r.file # n.file} \cup s.rows
          /\ db'.chunk = db.chunk /\ db'.symbol = db.symbol
      BY <2>2, <2>7 DEF SameKey, Tables
    <3>2. /\ Issued("chunk")' = Issued("chunk") /\ Issued("symbol")' = Issued("symbol")
          /\ Issued("file_meta") = Issued("file_meta")' \cup s.rows
      BY <1>6, <1>9, <2>7
    <3>3. \A f : ChunkRows(f)' = ChunkRows(f) /\ SymbolRows(f)' = SymbolRows(f)
      BY <1>1, <3>1, <3>2 DEF ChunkRows, SymbolRows
    <3>4. Metas' \subseteq Metas
      BY <1>1, <3>1, <3>2 DEF Metas
    <3>5. \A m, n \in db'.file_meta : m.file = n.file => m = n
      <4>1. \A m, n \in s.rows : m.file = n.file => m = n
        BY <1>3, <1>9, <2>7 DEF PhaseStmt
      <4> QED
        BY <3>1, <4>1 DEF CommitInv, CommitTypes
    <3>6. CommitTypes'
      BY <1>1, <3>1, <3>4, <3>5 DEF CommitInv, CommitTypes
    <3>7. Issued("chunk")' = {} /\ Issued("symbol")' = {}
      BY <1>4, <1>9, <2>7 DEF Issued, MayPrecede
    <3>8. Behind'
      BY <1>1, <3>1, <3>2, <3>7 DEF CommitInv, Behind
    <3> QED
      BY <1>1, <1>5, <2>1, <2>4, <3>3, <3>4, <3>6, <3>8, CommitMove
  <2> QED
    BY <1>9, <2>5, <2>6, <2>7 DEF RowTables
<1>10. CASE s.op = "delete" /\ s.table \in RowTables
  <2>1. \/ pc = "begin" /\ s.files = Affected
        \/ pc = "commit" /\ s.table = "file_meta"
    BY <1>3, <1>10 DEF PhaseStmt
  <2>2. /\ \A t \in Tables \ {s.table} : db'[t] = db[t]
        /\ db'[s.table] = {r \in db[s.table] : r.file \notin s.files}
    <3>1. s.table \in Tables /\ s.op = "delete"
      BY <1>7, <1>10
    <3>2. /\ DbShape(Perform(db, s)) /\ Perform(db, s).index_meta = db.index_meta
          /\ \A t \in Tables \ {s.table} : Perform(db, s)[t] = db[t]
          /\ Perform(db, s)[s.table] = {r \in db[s.table] : r.file \notin s.files}
      BY <1>3, <3>1, PerformDelete
    <3> QED
      BY <1>1, <3>2
  <2>3. \A t \in RowTables : Issued(t) = {} /\ Issued(t)' = {}
    <3>1. CommitStmts /\ pc \notin {"stream", "tail"} /\ pc' \notin {"stream", "tail"}
      BY <1>1, <2>1 DEF CommitInv
    <3> QED
      BY <1>5, <3>1, NoneIssued
  <2>4. Issued("chunk") = {} /\ Issued("symbol") = {} /\ Issued("file_meta") = {}
        /\ Issued("chunk")' = {} /\ Issued("symbol")' = {} /\ Issued("file_meta")' = {}
    BY <2>3 DEF RowTables
  <2>5. buf = NoBuf /\ skipped.permanent = {}
    BY <2>1 DEF CommitInv, CommitTypes
  <2>6. buf.chunk = {} /\ buf.symbol = {} /\ buf.file_meta = {}
    BY <2>5 DEF NoBuf
  <2>7. Metas' = db'.file_meta /\ Metas = db.file_meta
    BY <1>1, <2>4, <2>5, <2>6 DEF Metas
  <2>8. /\ db'.file_meta \subseteq db.file_meta /\ db'.symbol \subseteq db.symbol
        /\ \A t \in RowTables : db'[t] \subseteq db[t]
    <3>1. \A t \in RowTables : db'[t] \subseteq db[t]
      BY <1>7, <2>2
    <3> QED
      BY <3>1 DEF RowTables
  <2>9. \A f : f \notin s.files => ChunkRows(f)' = ChunkRows(f) /\ SymbolRows(f)' = SymbolRows(f)
    <3>1. /\ db'.chunk = IF s.table = "chunk" THEN {r \in db.chunk : r.file \notin s.files}
                         ELSE db.chunk
          /\ db'.symbol = IF s.table = "symbol" THEN {r \in db.symbol : r.file \notin s.files}
                          ELSE db.symbol
      BY <1>10, <2>2 DEF RowTables, Tables
    <3> QED
      BY <1>1, <2>4, <2>6, <3>1 DEF ChunkRows, SymbolRows
  <2>10. CommitTypes'
    BY <1>1, <2>5, <2>6, <2>7, <2>8 DEF CommitInv, CommitTypes
  <2>11. Removing'
    <3>1. SUFFICES ASSUME pc = "begin", NEW t \in RowTables
                   PROVE  \/ Delete(t, Affected) \in ToSet(ops')
                          \/ \A r \in db'[t] : r.file \notin Affected
      BY <1>1 DEF Removing, Affected
    <3>2. CASE \A r \in db[t] : r.file \notin Affected
      BY <2>8, <3>1, <3>2
    <3>3. CASE Delete(t, Affected) = s
      <4>1. s.table = t /\ s.files = Affected
        BY <1>7, <3>3, DeleteFields
      <4> QED
        BY <2>2, <4>1
    <3>4. CASE Delete(t, Affected) \in ToSet(ops')
      BY <3>4
    <3> QED
      BY <1>2, <3>1, <3>2, <3>3, <3>4 DEF CommitInv, Removing
  <2>12. Reading' /\ Behind' /\ OneContent'
    <3>1. \A f : SymbolRows(f)' \subseteq SymbolRows(f)
      BY <1>1, <2>4, <2>6, <2>8 DEF SymbolRows
    <3> QED
      BY <1>1, <2>1, <2>4, <2>6, <3>1 DEF CommitInv, Reading, Behind, OneContent
  <2>13. Whole'
    <3>1. SUFFICES ASSUME NEW m \in db'.file_meta, m.file \notin torn' \cup MidDelete'
                   PROVE  m.file \notin torn \cup MidDelete /\ m.file \notin s.files
      <4>1. \A f, q, v : Fits(f, q, v)' <=> Fits(f, q, v)
        BY <1>1 DEF Fits
      <4>2. ASSUME NEW m \in db'.file_meta, m.file \notin torn' \cup MidDelete',
                   m.file \notin torn \cup MidDelete, m.file \notin s.files
            PROVE  (\E v \in Versions :
                            /\ Fits(m.file, m.stamp, v)
                            /\ \E id \in Identities : ChunkRows(m.file) = ChunksOf(m.file, v, id)
                            /\ SymbolRows(m.file) = SymbolsOf[m.file][v.content])'
        <5>1. PICK v \in Versions :
                            /\ Fits(m.file, m.stamp, v)
                            /\ \E id \in Identities : ChunkRows(m.file) = ChunksOf(m.file, v, id)
                            /\ SymbolRows(m.file) = SymbolsOf[m.file][v.content]
          BY <2>7, <2>8, <4>2 DEF CommitInv, Whole
        <5> QED
          BY <2>9, <4>1, <4>2, <5>1
      <4> QED
        BY <2>7, <4>2 DEF Whole
    <3>2. m \in db.file_meta /\ m.file \in Stored /\ m.file \in Stored'
      BY <2>8, <3>1 DEF Stored, FilesOf
    <3>3. CASE s.table = "file_meta"
      <4>1. m.file \notin s.files /\ torn' = torn \ s.files
        BY <1>1, <1>10, <2>2, <3>1, <3>3
      <4>2. m.file \notin MidDelete
        <5>1. CASE pc = "begin"
          <6>1. \A q \in ToSet(ops) : q.op = "delete" => q.files = s.files
            BY <2>1, <5>1 DEF CommitInv, CommitStmts, PhaseStmt
          <6>2. ~Deletes(ops, "file_meta", m.file)
            BY <4>1, <6>1 DEF Deletes
          <6> QED
            BY <6>2, MidDeleteIs
        <5>2. CASE pc # "begin"
          BY <5>2, MidDeleteIs
        <5> QED
          BY <5>1, <5>2
      <4> QED
        BY <3>1, <4>1, <4>2
    <3>4. CASE s.table # "file_meta"
      <4>1. pc = "begin" /\ s.files = Affected /\ torn' = torn /\ s.table \in {"chunk", "symbol"}
        BY <1>1, <1>10, <2>1, <3>4 DEF RowTables
      <4>2. \A q \in ToSet(ops) : q.op = "delete" => q.files = Affected
        BY <4>1 DEF CommitInv, CommitStmts, PhaseStmt
      <4>3. m.file \notin Affected
        <5>1. SUFFICES ASSUME m.file \in Affected PROVE FALSE
          OBVIOUS
        <5>2. Delete("file_meta", Affected) \in ToSet(ops)
          BY <3>2, <4>1, <5>1 DEF CommitInv, Removing, RowTables
        <5>3. /\ Delete("file_meta", Affected).op = "delete"
              /\ Delete("file_meta", Affected).table = "file_meta"
              /\ Delete("file_meta", Affected).files = Affected
          BY DeleteFields DEF Tables
        <5>4. Deletes(ops', "file_meta", m.file)
          BY <1>2, <3>4, <5>1, <5>2, <5>3 DEF Deletes
        <5>5. ~Deletes(ops', "symbol", m.file)
          BY <1>4, <1>10, <4>1 DEF Deletes, MayPrecede
        <5> QED
          BY <1>1, <3>1, <3>2, <4>1, <5>4, <5>5, MidDeleteIs
      <4>4. m.file \notin MidDelete
        BY <4>2, <4>3, MidDeleteIs DEF Deletes
      <4> QED
        BY <3>1, <4>1, <4>3, <4>4
    <3> QED
      BY <3>3, <3>4
  <2> QED
    BY <1>5, <2>10, <2>11, <2>12, <2>13 DEF CommitInv
<1> QED
  BY <1>3, <1>8, <1>9, <1>10 DEF Shape

\* The statements of the stream, and the rows a sequence of them writes.
StreamStmt(s) ==
    /\ Shape(s) /\ ~s.soft /\ s.op # "meta"
    /\ s.op = "delete" => s.table = "pending_retry"
    /\ s.op = "insert" => s.table # "calls"
    /\ s.op = "insert" /\ s.table = "symbol" => \A r \in s.rows : SymbolRow(r)
    /\ s.op = "insert" /\ s.table = "file_meta" =>
          \A m, n \in s.rows : m.file = n.file => m = n

Writes(q, t) == UNION {s.rows : s \in {x \in ToSet(q) : x.op = "insert" /\ x.table = t}}
StreamSeq(q) == IsSeq(q) /\ \A s \in ToSet(q) : StreamStmt(s)
FirstSeq(q) == StreamSeq(q) /\ \A s \in ToSet(q) : Early(s)
LastSeq(q) == StreamSeq(q) /\ \A s \in ToSet(q) : Late(s)

LEMMA StreamConcat ==
  ASSUME NEW a, NEW b
  PROVE  /\ StreamSeq(a) /\ StreamSeq(b) =>
               StreamSeq(a \o b) /\ \A t : Writes(a \o b, t) = Writes(a, t) \cup Writes(b, t)
         /\ FirstSeq(a) /\ FirstSeq(b) => FirstSeq(a \o b)
         /\ FirstSeq(a) /\ StreamSeq(b) /\ InOrder(b) => InOrder(a \o b)
         /\ StreamSeq(a) /\ LastSeq(b) /\ InOrder(a) => InOrder(a \o b)
<1>1. ASSUME StreamSeq(a), StreamSeq(b)
      PROVE  StreamSeq(a \o b) /\ \A t : Writes(a \o b, t) = Writes(a, t) \cup Writes(b, t)
  <2>1. IsSeq(a \o b) /\ ToSet(a \o b) = ToSet(a) \cup ToSet(b)
    BY <1>1, ConcatSeq DEF StreamSeq
  <2> QED
    BY <1>1, <2>1 DEF StreamSeq, Writes
<1>2. ASSUME FirstSeq(a), FirstSeq(b) PROVE FirstSeq(a \o b)
  <2>1. IsSeq(a \o b) /\ ToSet(a \o b) = ToSet(a) \cup ToSet(b)
    BY <1>2, ConcatSeq DEF StreamSeq, FirstSeq
  <2> QED
    BY <1>2, <2>1 DEF StreamSeq, FirstSeq
<1>3. ASSUME FirstSeq(a), StreamSeq(b), InOrder(b) PROVE InOrder(a \o b)
  BY <1>3, FirstThen DEF FirstSeq, StreamSeq, StreamStmt
<1>4. ASSUME StreamSeq(a), LastSeq(b), InOrder(a) PROVE InOrder(a \o b)
  BY <1>4, ThenLast DEF LastSeq, StreamSeq, StreamStmt
<1> QED
  BY <1>1, <1>2, <1>3, <1>4

LEMMA StreamParts ==
  /\ LastSeq(<<>>) /\ FirstSeq(<<>>) /\ \A t : Writes(<<>>, t) = {}
  /\ \A t \in Tables \ {"file_meta", "calls"} : \A rows :
        (t = "symbol" => \A r \in rows : SymbolRow(r)) =>
           /\ FirstSeq(<<Insert(t, rows)>>) /\ FirstSeq(InsertSome(t, rows))
           /\ t = "pending_retry" => LastSeq(InsertSome(t, rows))
           /\ \A u : Writes(InsertSome(t, rows), u) = IF u = t THEN rows ELSE {}
           /\ \A u : Writes(<<Insert(t, rows)>>, u) = IF u = t THEN rows ELSE {}
  /\ \A rows : IsFiniteSet(rows) =>
        /\ LastSeq(upsert_file_meta(rows))
        /\ \A t : t # "file_meta" => Writes(upsert_file_meta(rows), t) = {}
        /\ Writes(upsert_file_meta(rows), "file_meta") = rows
  /\ \A files : /\ LastSeq(<<Delete("pending_retry", files)>>)
                 /\ \A u : Writes(<<Delete("pending_retry", files)>>, u) = {}
<1>1. LastSeq(<<>>) /\ FirstSeq(<<>>) /\ \A t : Writes(<<>>, t) = {}
  BY NoSeq DEF LastSeq, FirstSeq, StreamSeq, Writes
<1>2. ASSUME NEW t \in Tables \ {"file_meta", "calls"}, NEW rows,
             t = "symbol" => \A r \in rows : SymbolRow(r)
      PROVE  /\ FirstSeq(<<Insert(t, rows)>>) /\ FirstSeq(InsertSome(t, rows))
             /\ t = "pending_retry" => LastSeq(InsertSome(t, rows))
             /\ \A u : Writes(InsertSome(t, rows), u) = IF u = t THEN rows ELSE {}
             /\ \A u : Writes(<<Insert(t, rows)>>, u) = IF u = t THEN rows ELSE {}
  <2> DEFINE i == Insert(t, rows)
  <2>1. Shape(i) /\ ~i.soft /\ i.op = "insert" /\ i.table = t /\ i.rows = rows
    BY InsertFields
  <2> HIDE DEF i
  <2>2. IsSeq(<<i>>) /\ ToSet(<<i>>) = {i}
    BY OneSeq
  <2>3. StreamStmt(i) /\ Early(i) /\ (t = "pending_retry" => Late(i))
    BY <1>2, <2>1 DEF StreamStmt, Early, Late, RowTables
  <2>4. FirstSeq(<<i>>) /\ (t = "pending_retry" => LastSeq(<<i>>))
    BY <2>2, <2>3 DEF FirstSeq, LastSeq, StreamSeq
  <2>5. \A u : Writes(<<i>>, u) = IF u = t THEN rows ELSE {}
    BY <2>1, <2>2 DEF Writes
  <2>6. InsertSome(t, rows) = IF rows = {} THEN <<>> ELSE <<i>>
    BY DEF InsertSome, i
  <2>7. CASE rows = {}
    <3>1. InsertSome(t, rows) = <<>>
      BY <2>6, <2>7
    <3> QED
      BY <1>1, <2>4, <2>5, <2>7, <3>1 DEF i
  <2>8. CASE rows # {}
    <3>1. InsertSome(t, rows) = <<i>>
      BY <2>6, <2>8
    <3> QED
      BY <2>4, <2>5, <3>1 DEF i
  <2> QED
    BY <2>7, <2>8
<1>3. ASSUME NEW rows, IsFiniteSet(rows)
      PROVE  /\ LastSeq(upsert_file_meta(rows))
             /\ \A t : t # "file_meta" => Writes(upsert_file_meta(rows), t) = {}
             /\ Writes(upsert_file_meta(rows), "file_meta") = rows
  <2>1. /\ IsSeq(upsert_file_meta(rows))
        /\ \A s \in ToSet(upsert_file_meta(rows)) : \E r \in rows : s = Insert("file_meta", {r})
        /\ \A r \in rows : Insert("file_meta", {r}) \in ToSet(upsert_file_meta(rows))
    BY <1>3, UpsertStatements
  <2>2. \A r : LET i == Insert("file_meta", {r})
               IN  Shape(i) /\ ~i.soft /\ i.op = "insert" /\ i.table = "file_meta" /\ i.rows = {r}
    BY InsertFields DEF Tables
  <2>3. \A s \in ToSet(upsert_file_meta(rows)) :
           Shape(s) /\ ~s.soft /\ s.op = "insert" /\ s.table = "file_meta"
             /\ \E r \in rows : s.rows = {r}
    BY <2>1, <2>2
  <2>4. \A s \in ToSet(upsert_file_meta(rows)) : StreamStmt(s) /\ Late(s)
    BY <2>3 DEF StreamStmt, Late
  <2>5. \A r \in rows : \E s \in ToSet(upsert_file_meta(rows)) :
           s.op = "insert" /\ s.table = "file_meta" /\ s.rows = {r}
    BY <2>1, <2>2
  <2>6. Writes(upsert_file_meta(rows), "file_meta") = rows
    BY <2>3, <2>5 DEF Writes
  <2> QED
    BY <2>1, <2>3, <2>4, <2>6 DEF LastSeq, StreamSeq, Writes
<1>4. ASSUME NEW files
      PROVE  /\ LastSeq(<<Delete("pending_retry", files)>>)
             /\ \A u : Writes(<<Delete("pending_retry", files)>>, u) = {}
  <2> DEFINE d == Delete("pending_retry", files)
  <2>1. Shape(d) /\ ~d.soft /\ d.op = "delete" /\ d.table = "pending_retry"
    BY DeleteFields DEF Tables
  <2> HIDE DEF d
  <2>2. IsSeq(<<d>>) /\ ToSet(<<d>>) = {d}
    BY OneSeq
  <2>3. StreamStmt(d) /\ Late(d)
    BY <2>1 DEF StreamStmt, Late, RowTables
  <2>4. LastSeq(<<d>>) /\ \A u : Writes(<<d>>, u) = {}
    BY <2>1, <2>2, <2>3 DEF LastSeq, StreamSeq, Writes
  <2> QED
    BY <2>4 DEF d
<1> QED
  BY <1>1, <1>2, <1>3, <1>4

LEMMA StreamIssues ==
  ASSUME StreamSeq(ops'), InOrder(ops'), pc' \in {"stream", "tail"}
  PROVE  CommitStmts' /\ \A t : Issued(t)' = Writes(ops', t)
BY DEF StreamSeq, StreamStmt, CommitStmts, PhaseStmt, Issued, Writes, RowTables

\* The writer takes the rows of a file, moves rows from the buffers to statements and
\* queues the file's file_meta row: no row is lost on the way.
Takes(f, chunks, symbols, row) ==
    /\ pc = "stream" /\ ops = <<>> /\ pc' = "stream"
    /\ UNCHANGED <<disk, client, db, job, torn, used>>
    /\ StreamSeq(ops') /\ InOrder(ops')
    /\ Writes(ops', "chunk") \cup buf'.chunk = buf.chunk \cup chunks
    /\ Writes(ops', "symbol") \cup buf'.symbol = buf.symbol \cup symbols
    /\ Metas' = Metas \cup {row}
    /\ \A c \in chunks \cup symbols : c.file = f
    /\ \A s \in symbols : SymbolRow(s)
    /\ f \in Files /\ Untouched(f) /\ row.file = f
    /\ \E v \in Versions : /\ Fits(f, row.stamp, v)
                           /\ chunks = ChunksOf(f, v, job.identity)
                           /\ symbols = SymbolsOf[f][v.content]
    /\ \A m \in Writes(ops', "file_meta") :
          m.file # f /\ \A c \in buf'.chunk \cup buf'.symbol : c.file = f
    /\ \A g \in Files : (st'[g] = st[g] /\ g # f) \/ st'[g].at = "done"

LEMMA CommitIssue ==
  ASSUME CommitInv, NEW f, NEW chunks, NEW symbols, NEW row, Takes(f, chunks, symbols, row)
  PROVE  CommitInv'
<1>1. /\ pc = "stream" /\ ops = <<>> /\ pc' = "stream"
      /\ UNCHANGED <<disk, client, db, job, torn, used>>
      /\ StreamSeq(ops') /\ InOrder(ops')
  BY DEF Takes
<1>2. /\ Writes(ops', "chunk") \cup buf'.chunk = buf.chunk \cup chunks
      /\ Writes(ops', "symbol") \cup buf'.symbol = buf.symbol \cup symbols
      /\ Metas' \subseteq Metas \cup {row}
  BY DEF Takes
<1>3. /\ \A c \in chunks \cup symbols : c.file = f
      /\ \A s \in symbols : SymbolRow(s)
      /\ f \in Files /\ Untouched(f) /\ row.file = f
  BY DEF Takes
<1>4. PICK v \in Versions : /\ Fits(f, row.stamp, v)
                            /\ chunks = ChunksOf(f, v, job.identity)
                            /\ symbols = SymbolsOf[f][v.content]
  BY DEF Takes
<1>5. \A m \in Writes(ops', "file_meta") :
         m.file # f /\ \A c \in buf'.chunk \cup buf'.symbol : c.file = f
  BY DEF Takes
<1>6. \A g \in Files : (st'[g] = st[g] /\ g # f) \/ st'[g].at = "done"
  BY DEF Takes
<1>7. CommitStmts' /\ \A t : Issued(t)' = Writes(ops', t)
  BY <1>1, StreamIssues
<1>8. \A t : Issued(t) = {}
  BY <1>1, NoSeq DEF Issued
<1>9. MidDelete = {} /\ MidDelete' = {}
  BY <1>1, MidDeleteIs
<1>10. \A g, s, w : Fits(g, s, w)' <=> Fits(g, s, w)
  BY <1>1 DEF Fits
<1>11. /\ ChunkRows(f) = {} /\ SymbolRows(f) = {}
       /\ \A m \in Metas : m.file # f
  BY <1>3 DEF Untouched
<1>12. /\ \A g : g # f => ChunkRows(g)' = ChunkRows(g) /\ SymbolRows(g)' = SymbolRows(g)
       /\ ChunkRows(f)' = chunks /\ SymbolRows(f)' = symbols
  BY <1>1, <1>2, <1>3, <1>7, <1>8, <1>11 DEF ChunkRows, SymbolRows
<1>13. CommitTypes'
  <2>1. \A m \in Metas' : m.file \in Files
    BY <1>2, <1>3 DEF CommitInv, CommitTypes
  <2>2. \A s \in buf'.symbol : SymbolRow(s)
    BY <1>2, <1>3 DEF CommitInv, CommitTypes
  <2> QED
    BY <1>1, <2>1, <2>2 DEF CommitInv, CommitTypes
<1>14. Removing'
  BY <1>1 DEF Removing
<1>15. Reading'
  <2>1. SUFFICES ASSUME NEW g \in Files, st'[g].at # "done"
                 PROVE  /\ st'[g].at \in {"todo", "stat", "embedded"} => Untouched(g)'
                        /\ st'[g].at = "stat" =>
                              /\ st'[g].stamp \in Versions /\ st'[g].stamp.stamp <= used'.edits
                              /\ disk'[g] # Absent => Fits(g, st[g].stamp, disk[g])'
                        /\ st'[g].at = "embedded" => Fits(g, st[g].stamp, st[g].ver)'
    BY DEF Reading
  <2>2. st'[g] = st[g] /\ g # f
    BY <1>6, <2>1
  <2>3. Untouched(g) => Untouched(g)'
    BY <1>2, <1>3, <1>12, <2>2 DEF Untouched
  <2> QED
    BY <1>1, <1>10, <2>2, <2>3 DEF CommitInv, Reading, Fits
<1>16. Whole'
  <2>1. SUFFICES ASSUME NEW m \in Metas', m.file \notin torn
                 PROVE  \E w \in Versions :
                           /\ Fits(m.file, m.stamp, w)
                           /\ \E id \in Identities : ChunkRows(m.file)' = ChunksOf(m.file, w, id)
                           /\ SymbolRows(m.file)' = SymbolsOf[m.file][w.content]
    BY <1>1, <1>9, <1>10 DEF Whole
  <2>2. CASE m \in Metas
    <3>1. m.file # f
      BY <1>11, <2>2
    <3> QED
      BY <1>9, <1>12, <2>1, <2>2, <3>1 DEF CommitInv, Whole
  <2>3. CASE m \notin Metas
    <3>1. m = row /\ m.file = f
      BY <1>2, <1>3, <2>1, <2>3
    <3>2. job.identity \in Identities
      BY <1>1 DEF CommitInv, CommitTypes
    <3> QED
      BY <1>4, <1>12, <3>1, <3>2
  <2> QED
    BY <2>2, <2>3
<1>17. Behind'
  <2>1. ASSUME NEW m \in db'.file_meta
        PROVE  /\ \A c \in Issued("chunk")' \cup Issued("symbol")' : c.file # m.file
               /\ \A c \in buf'.chunk \cup buf'.symbol : c.file # m.file
    <3>1. m \in db.file_meta /\ m.file # f
      BY <1>1, <1>11, <2>1 DEF Metas
    <3>2. \A c \in buf.chunk \cup buf.symbol : c.file # m.file
      BY <3>1 DEF CommitInv, Behind
    <3> QED
      BY <1>2, <1>3, <1>7, <3>1, <3>2
  <2> QED
    BY <1>5, <1>7, <2>1 DEF Behind
<1>18. OneContent'
  <2>1. SymbolRows(f)' = SymbolsOf[f][v.content] /\ v.content \in Contents
    BY <1>4, <1>12 DEF Versions
  <2>2. \A g \in Files : g # f => SymbolRows(g)' = SymbolRows(g)
    BY <1>12
  <2>3. \A g \in Files : g # f =>
           SymbolRows(g) = {} \/ \E c \in Contents : SymbolRows(g) \subseteq SymbolsOf[g][c]
    BY DEF CommitInv, OneContent
  <2> QED
    BY <2>1, <2>2, <2>3 DEF OneContent
<1> QED
  BY <1>7, <1>13, <1>14, <1>15, <1>16, <1>17, <1>18 DEF CommitInv

\* The raw edges of the taken file move along with its symbols.
TakesRaw(f, edges) ==
    /\ Writes(ops', "raw_edge") \cup buf'.raw_edge = buf.raw_edge \cup edges
    /\ Writes(ops', "file_meta") # {} => buf'.raw_edge = {}

LEMMA StoreTakes ==
  ASSUME SpaceInv, CommitInv, NEW f \in Files, StoreFile(f)
  PROVE  \E chunks, symbols :
            /\ Takes(f, chunks, symbols, [file |-> f, stamp |-> st[f].stamp])
            /\ TakesRaw(f, EdgesOf[f][st[f].ver.content])
<1> DEFINE v        == st[f].ver
           syms     == SymbolsOf[f][v.content]
           symbols  == buf.symbol \cup syms
           raw      == buf.raw_edge \cup EdgesOf[f][v.content]
           symFull  == Cardinality(symbols) >= SYM_BATCH_SIZE
           rawFull  == Cardinality(raw) >= RAW_EDGE_INSERT_BATCH_SIZE
           symLeft  == IF symFull THEN {} ELSE symbols
           rawLeft  == IF rawFull THEN {} ELSE raw
           room     == WRITE_BATCH_SIZE - Cardinality(buf.chunk)
           chunks   == ChunksOf(f, v, job.identity)
           fitting  == {c \in chunks : c.part <= room}
           boundary == Cardinality(chunks) >= room
           row      == [file |-> f, stamp |-> st[f].stamp]
           oSym     == IF symFull THEN InsertSome("symbol", symbols) ELSE <<>>
           oRaw     == IF rawFull THEN InsertSome("raw_edge", raw) ELSE <<>>
           oEnd     == IF boundary
                       THEN FlushBoundary(buf.chunk \cup fitting, rawLeft, symLeft, buf.file_meta)
                       ELSE <<>>
<1>1. /\ pc = "stream" /\ pc' = "stream" /\ ops = <<>> /\ st[f].at = "embedded"
      /\ UNCHANGED <<disk, client, db, job, torn, used, skipped>>
      /\ ops' = (oSym \o oRaw) \o oEnd
      /\ st' = [st EXCEPT ![f] = [NoStage EXCEPT !.at = "done"]]
      /\ buf' = IF boundary
                THEN [chunk |-> chunks \ fitting, symbol |-> {}, raw_edge |-> {},
                      file_meta |-> {row}]
                ELSE [chunk |-> buf.chunk \cup chunks, symbol |-> symLeft,
                      raw_edge |-> rawLeft, file_meta |-> buf.file_meta \cup {row}]
  BY ZenonT(60) DEF StoreFile, Streaming, RecordedStamp
<1>2. v \in Versions /\ v.content \in Contents /\ Untouched(f) /\ Fits(f, st[f].stamp, v)
  BY <1>1 DEF SpaceInv, SpaceTypes, CommitInv, Reading, Fits
<1>3. row.file = f /\ row.stamp = st[f].stamp
  OBVIOUS
<1>4. /\ \A c \in chunks : c.file = f
      /\ \A s \in syms : s.file = f /\ SymbolRow(s)
  BY <1>2, PipelineAssumption DEF ChunksOf, SymbolRow
<1>5. /\ \A s \in symbols : SymbolRow(s)
      /\ fitting \subseteq chunks
  BY <1>4 DEF CommitInv, CommitTypes
<1>6. chunks = ChunksOf(f, v, job.identity) /\ syms = SymbolsOf[f][v.content]
  BY SMTT(60)
<1>7. \A g \in Files : \/ st'[g] = st[g] /\ g # row.file
                       \/ st'[g].at = "done"
  BY <1>1 DEF SpaceInv, SpaceTypes, NoStage
<1>8. /\ symLeft = IF symFull THEN {} ELSE symbols
      /\ symbols = buf.symbol \cup syms
  OBVIOUS
<1> HIDE DEF v, syms, raw, symFull, rawFull, room, chunks, fitting, boundary, row, symbols,
             symLeft, rawLeft
<1>9. \A s \in symLeft : SymbolRow(s)
  BY <1>5, <1>8
<1>10. /\ FirstSeq(oSym) /\ Writes(oSym, "chunk") = {} /\ Writes(oSym, "file_meta") = {}
       /\ Writes(oSym, "raw_edge") = {}
       /\ Writes(oSym, "symbol") = IF symFull THEN symbols ELSE {}
  <2>1. "symbol" \in Tables \ {"file_meta", "calls"}
    BY DEF Tables
  <2>2. CASE symFull
    BY ZenonT(60), <1>5, <2>1, <2>2, StreamParts
  <2>3. CASE ~symFull
    BY <2>3, StreamParts
  <2> QED
    BY <2>2, <2>3
<1>11. /\ FirstSeq(oRaw) /\ Writes(oRaw, "chunk") = {} /\ Writes(oRaw, "file_meta") = {}
       /\ Writes(oRaw, "symbol") = {}
       /\ Writes(oRaw, "raw_edge") = IF rawFull THEN raw ELSE {}
  <2>1. "raw_edge" \in Tables \ {"file_meta", "calls"}
    BY DEF Tables
  <2>2. CASE rawFull
    BY ZenonT(60), <2>1, <2>2, StreamParts
  <2>3. CASE ~rawFull
    BY <2>3, StreamParts
  <2> QED
    BY <2>2, <2>3
<1>12. /\ StreamSeq(oEnd) /\ InOrder(oEnd)
       /\ Writes(oEnd, "chunk") = IF boundary THEN buf.chunk \cup fitting ELSE {}
       /\ Writes(oEnd, "symbol") = IF boundary THEN symLeft ELSE {}
       /\ Writes(oEnd, "raw_edge") = IF boundary THEN rawLeft ELSE {}
       /\ Writes(oEnd, "file_meta") = IF boundary THEN buf.file_meta ELSE {}
  <2> DEFINE a == <<Insert("chunk", buf.chunk \cup fitting)>>
             b == InsertSome("raw_edge", rawLeft)
             c == InsertSome("symbol", symLeft)
             d == upsert_file_meta(buf.file_meta)
  <2>1. /\ {"chunk", "raw_edge", "symbol"} \subseteq Tables \ {"file_meta", "calls"}
        /\ "raw_edge" # "symbol"
    BY DEF Tables
  <2>2. /\ FirstSeq(a) /\ \A u : Writes(a, u) = IF u = "chunk" THEN buf.chunk \cup fitting ELSE {}
        /\ FirstSeq(b) /\ \A u : Writes(b, u) = IF u = "raw_edge" THEN rawLeft ELSE {}
    <3>1. ASSUME NEW rows
          PROVE  /\ FirstSeq(<<Insert("chunk", rows)>>)
                 /\ \A u : Writes(<<Insert("chunk", rows)>>, u) = IF u = "chunk" THEN rows ELSE {}
      BY <2>1, StreamParts
    <3>2. ASSUME NEW rows
          PROVE  /\ FirstSeq(InsertSome("raw_edge", rows))
                 /\ \A u : Writes(InsertSome("raw_edge", rows), u) =
                              IF u = "raw_edge" THEN rows ELSE {}
      BY ZenonT(60), <2>1, StreamParts
    <3> QED
      BY <3>1, <3>2
  <2>3. FirstSeq(c) /\ \A u : Writes(c, u) = IF u = "symbol" THEN symLeft ELSE {}
    BY ZenonT(60), <1>9, <2>1, StreamParts
  <2>4. IsFiniteSet(buf.file_meta)
    BY DEF SpaceInv, SpaceTypes
  <2>5. /\ LastSeq(d) /\ Writes(d, "chunk") = {} /\ Writes(d, "symbol") = {}
        /\ Writes(d, "raw_edge") = {}
        /\ Writes(d, "file_meta") = buf.file_meta
    BY <2>4, StreamParts
  <2>6. FlushBoundary(buf.chunk \cup fitting, rawLeft, symLeft, buf.file_meta)
           = ((a \o b) \o c) \o d
    BY DEF FlushBoundary
  <2> HIDE DEF a, b, c, d
  <2>7. FirstSeq(a \o b) /\ \A u : Writes(a \o b, u) = Writes(a, u) \cup Writes(b, u)
    BY <2>2, StreamConcat DEF FirstSeq
  <2> DEFINE ab == a \o b
  <2> HIDE DEF ab
  <2>8. FirstSeq(ab \o c) /\ \A u : Writes(ab \o c, u) = Writes(ab, u) \cup Writes(c, u)
    BY <2>3, <2>7, StreamConcat DEF FirstSeq, ab
  <2> DEFINE abc == ab \o c
  <2> HIDE DEF abc
  <2>9. InOrder(d)
    BY <2>5, OrderLasts DEF LastSeq, StreamSeq, StreamStmt
  <2>10. FirstSeq(abc) /\ StreamSeq(abc) /\ StreamSeq(d)
    BY <2>5, <2>8 DEF FirstSeq, LastSeq, abc
  <2>11. StreamSeq(abc \o d) /\ \A u : Writes(abc \o d, u) = Writes(abc, u) \cup Writes(d, u)
    BY <2>10, StreamConcat
  <2>12. InOrder(abc \o d)
    BY <2>9, <2>10, StreamConcat
  <2>13. CASE boundary
    <3>1. oEnd = abc \o d
      BY <2>6, <2>13 DEF ab, abc
    <3>2. \A u : Writes(oEnd, u) = ((Writes(a, u) \cup Writes(b, u)) \cup Writes(c, u)) \cup Writes(d, u)
      BY <2>7, <2>8, <2>11, <3>1 DEF ab, abc
    <3>3. StreamSeq(oEnd) /\ InOrder(oEnd)
      BY <2>11, <2>12, <3>1
    <3>4. Writes(oEnd, "chunk") = buf.chunk \cup fitting
      BY <2>2, <2>3, <2>5, <3>2
    <3>5. Writes(oEnd, "symbol") = symLeft
      BY ZenonT(60), <2>2, <2>3, <2>5, <3>2
    <3>6. Writes(oEnd, "raw_edge") = rawLeft
      BY <2>2, <2>3, <2>5, <3>2
    <3>7. Writes(oEnd, "file_meta") = buf.file_meta
      BY ZenonT(60), <2>2, <2>3, <2>5, <3>2
    <3> HIDE DEF oEnd
    <3> QED
      BY <2>13, <3>3, <3>4, <3>5, <3>6, <3>7
  <2>14. CASE ~boundary
    <3>1. oEnd = <<>>
      BY <2>14
    <3>2. InOrder(<<>>) /\ StreamSeq(<<>>) /\ \A t : Writes(<<>>, t) = {}
      BY StreamParts, OrderLasts DEF LastSeq, StreamSeq, StreamStmt
    <3> QED
      BY <2>14, <3>1, <3>2
  <2> QED
    BY <2>13, <2>14
<1> HIDE DEF oSym, oRaw, oEnd
<1>13. FirstSeq(oSym \o oRaw) /\ \A u : Writes(oSym \o oRaw, u) = Writes(oSym, u) \cup Writes(oRaw, u)
  BY <1>10, <1>11, StreamConcat DEF FirstSeq
<1> DEFINE fst == oSym \o oRaw
<1> HIDE DEF fst
<1>14. /\ StreamSeq(ops') /\ InOrder(ops')
       /\ \A u : Writes(ops', u) = (Writes(oSym, u) \cup Writes(oRaw, u)) \cup Writes(oEnd, u)
  <2>1. FirstSeq(fst) /\ StreamSeq(fst) /\ ops' = fst \o oEnd
        /\ \A u : Writes(fst, u) = Writes(oSym, u) \cup Writes(oRaw, u)
    BY <1>1, <1>13 DEF FirstSeq, fst
  <2> QED
    BY <1>12, <2>1, StreamConcat
<1>15. buf'.chunk = IF boundary THEN chunks \ fitting ELSE buf.chunk \cup chunks
  BY <1>1
<1>16. buf'.symbol = IF boundary THEN {} ELSE symLeft
  BY <1>1
<1>17. buf'.file_meta = IF boundary THEN {row} ELSE buf.file_meta \cup {row}
  BY <1>1
<1>18. Writes(ops', "chunk") \cup buf'.chunk = buf.chunk \cup chunks
  <2>1. Writes(ops', "chunk") = IF boundary THEN buf.chunk \cup fitting ELSE {}
    BY <1>10, <1>11, <1>12, <1>14
  <2> QED
    BY <1>5, <1>15, <2>1
<1>19. Writes(ops', "symbol") \cup buf'.symbol = buf.symbol \cup syms
  <2>1. Writes(ops', "symbol") = (IF symFull THEN symbols ELSE {}) \cup IF boundary THEN symLeft ELSE {}
    BY <1>10, <1>11, <1>12, <1>14
  <2> QED
    BY <1>8, <1>16, <2>1
<1>20. Writes(ops', "file_meta") = IF boundary THEN buf.file_meta ELSE {}
  BY <1>10, <1>11, <1>12, <1>14
<1>28. pc = "stream" /\ ops = <<>> /\ pc' = "stream"
  BY <1>1
<1>21. Metas' = Metas \cup {row}
  <2>1. Issued("file_meta")' = Writes(ops', "file_meta")
    BY <1>1, <1>14, StreamIssues
  <2>2. db' = db /\ skipped' = skipped
    BY <1>1
  <2>3. Issued("file_meta") = {}
    BY <1>28, NoSeq DEF Issued
  <2> QED
    BY <1>17, <1>20, <2>1, <2>2, <2>3 DEF Metas
<1>22. ASSUME NEW m \in Writes(ops', "file_meta")
       PROVE  m.file # f /\ \A c \in buf'.chunk \cup buf'.symbol : c.file = f
  <2>1. boundary /\ m \in buf.file_meta
    BY <1>20, <1>22
  <2>2. m \in Metas
    BY <2>1 DEF Metas
  <2> QED
    BY <1>2, <1>4, <1>15, <1>16, <2>1, <2>2 DEF Untouched
<1>23. UNCHANGED <<disk, client, db, job, torn, used>>
  BY <1>1
<1>24. /\ f \in Files /\ Untouched(f) /\ row.file = f
       /\ \E w \in Versions : /\ Fits(f, row.stamp, w)
                              /\ chunks = ChunksOf(f, w, job.identity)
                              /\ syms = SymbolsOf[f][w.content]
  BY <1>2, <1>3, <1>6
<1>25. (\A c \in chunks \cup syms : c.file = f) /\ \A s \in syms : SymbolRow(s)
  BY <1>4
<1>26. \A g \in Files : (st'[g] = st[g] /\ g # f) \/ st'[g].at = "done"
  BY <1>3, <1>7
<1>27. \A m \in Writes(ops', "file_meta") :
          m.file # f /\ \A c \in buf'.chunk \cup buf'.symbol : c.file = f
  BY <1>22
<1>29. Takes(f, chunks, syms, row)
  BY ONLY <1>14, <1>18, <1>19, <1>21, <1>23, <1>24, <1>25, <1>26, <1>27, <1>28 DEF Takes
<1>30. Writes(ops', "raw_edge") \cup buf'.raw_edge = buf.raw_edge \cup EdgesOf[f][v.content]
  <2>1. Writes(ops', "raw_edge") = (IF rawFull THEN raw ELSE {}) \cup IF boundary THEN rawLeft ELSE {}
    BY <1>10, <1>11, <1>12, <1>14
  <2>2. buf'.raw_edge = IF boundary THEN {} ELSE rawLeft
    BY <1>1
  <2>3. rawLeft = (IF rawFull THEN {} ELSE raw) /\ raw = buf.raw_edge \cup EdgesOf[f][v.content]
    BY DEF rawLeft, raw
  <2> QED
    BY <2>1, <2>2, <2>3
<1>31. Writes(ops', "file_meta") # {} => buf'.raw_edge = {}
  BY <1>1, <1>20
<1>32. TakesRaw(f, EdgesOf[f][v.content])
  BY <1>30, <1>31 DEF TakesRaw
<1> QED
  BY SMTT(60), <1>29, <1>32 DEF row, v

LEMMA CommitStore ==
  ASSUME SpaceInv, CommitInv, NEW f \in Files, StoreFile(f)
  PROVE  CommitInv'
BY StoreTakes, CommitIssue

\* The tail flush writes everything that is still buffered.
LEMMA FlushWrites ==
  ASSUME SpaceInv, CommitInv, FlushTail
  PROVE  /\ StreamSeq(ops') /\ InOrder(ops')
         /\ \A t \in {"chunk", "symbol", "raw_edge"} : Writes(ops', t) = buf[t]
         /\ Writes(ops', "pending_retry") = {[file |-> f] : f \in skipped.retry}
         /\ Metas' = Metas
<1> DEFINE a == InsertSome("symbol", buf.symbol)
           b == InsertSome("chunk", buf.chunk)
           c == InsertSome("raw_edge", buf.raw_edge)
           d == upsert_file_meta(buf.file_meta)
           gone == IF job.mode = "full" THEN Files ELSE job.process
           e == <<Delete("pending_retry", gone)>>
           retry == {[file |-> f] : f \in skipped.retry}
           g == InsertSome("pending_retry", retry)
           h == upsert_file_meta(skipped.permanent)
<1>1. /\ pc = "stream" /\ pc' = "tail" /\ ops = <<>>
      /\ UNCHANGED <<disk, client, db, job, torn, used>>
      /\ ops' = (((((a \o b) \o c) \o d) \o e) \o g) \o h
      /\ buf' = NoBuf /\ skipped' = [retry |-> {}, permanent |-> {}]
  BY DEF FlushTail
<1>2. /\ FirstSeq(a) /\ \A u : Writes(a, u) = IF u = "symbol" THEN buf.symbol ELSE {}
  <2>1. "symbol" \in Tables \ {"file_meta", "calls"} /\ \A s \in buf.symbol : SymbolRow(s)
    BY DEF Tables, CommitInv, CommitTypes
  <2> QED
    BY <2>1, StreamParts
<1>3. FirstSeq(b) /\ \A u : Writes(b, u) = IF u = "chunk" THEN buf.chunk ELSE {}
  <2>1. "chunk" \in Tables \ {"file_meta", "calls"} /\ "chunk" # "symbol"
    BY DEF Tables
  <2> QED
    BY <2>1, StreamParts
<1>4. FirstSeq(c) /\ \A u : Writes(c, u) = IF u = "raw_edge" THEN buf.raw_edge ELSE {}
  <2>1. "raw_edge" \in Tables \ {"file_meta", "calls"} /\ "raw_edge" # "symbol"
    BY DEF Tables
  <2> QED
    BY <2>1, StreamParts
<1>5. IsFiniteSet(buf.file_meta) /\ IsFiniteSet(skipped.permanent)
  BY DEF SpaceInv, SpaceTypes
<1>6. /\ LastSeq(d) /\ \A u : u # "file_meta" => Writes(d, u) = {}
      /\ Writes(d, "file_meta") = buf.file_meta
  BY <1>5, StreamParts
<1>7. /\ LastSeq(h) /\ \A u : u # "file_meta" => Writes(h, u) = {}
      /\ Writes(h, "file_meta") = skipped.permanent
  BY <1>5, StreamParts
<1>8. LastSeq(e) /\ \A u : Writes(e, u) = {}
  BY StreamParts
<1>9. LastSeq(g) /\ \A u : Writes(g, u) = IF u = "pending_retry" THEN retry ELSE {}
  <2>1. "pending_retry" \in Tables \ {"file_meta", "calls"} /\ "pending_retry" # "symbol"
    BY DEF Tables
  <2> QED
    BY <2>1, StreamParts
<1> HIDE DEF a, b, c, d, e, g, h, retry, gone
<1> DEFINE rows == (a \o b) \o c
<1>10. FirstSeq(a \o b) /\ \A u : Writes(a \o b, u) = Writes(a, u) \cup Writes(b, u)
  BY <1>2, <1>3, StreamConcat DEF FirstSeq
<1>11. FirstSeq(rows) /\ \A u : Writes(rows, u) = Writes(a \o b, u) \cup Writes(c, u)
  BY <1>4, <1>10, StreamConcat DEF FirstSeq
<1> HIDE DEF rows
<1>12. ASSUME NEW p, NEW q, StreamSeq(p), InOrder(p), LastSeq(q)
       PROVE  /\ StreamSeq(p \o q) /\ InOrder(p \o q)
              /\ \A u : Writes(p \o q, u) = Writes(p, u) \cup Writes(q, u)
  BY <1>12, StreamConcat DEF LastSeq
<1>13. StreamSeq(rows) /\ InOrder(rows)
  BY <1>11, OrderFirsts DEF FirstSeq, StreamSeq, StreamStmt
<1> DEFINE q1 == rows \o d
           q2 == q1 \o e
           q3 == q2 \o g
           q4 == q3 \o h
<1>14. /\ StreamSeq(q1) /\ InOrder(q1) /\ \A u : Writes(q1, u) = Writes(rows, u) \cup Writes(d, u)
  BY <1>6, <1>12, <1>13
<1> HIDE DEF q1
<1>15. /\ StreamSeq(q2) /\ InOrder(q2) /\ \A u : Writes(q2, u) = Writes(q1, u) \cup Writes(e, u)
  BY <1>8, <1>12, <1>14
<1> HIDE DEF q2
<1>16. /\ StreamSeq(q3) /\ InOrder(q3) /\ \A u : Writes(q3, u) = Writes(q2, u) \cup Writes(g, u)
  BY <1>9, <1>12, <1>15
<1> HIDE DEF q3
<1>17. /\ StreamSeq(q4) /\ InOrder(q4) /\ \A u : Writes(q4, u) = Writes(q3, u) \cup Writes(h, u)
  BY <1>7, <1>12, <1>16
<1>18. ops' = q4
  BY <1>1 DEF rows, q1, q2, q3
<1> HIDE DEF q4
<1>19. \A u : Writes(ops', u) =
          (((((Writes(a, u) \cup Writes(b, u)) \cup Writes(c, u)) \cup Writes(d, u))
             \cup Writes(e, u)) \cup Writes(g, u)) \cup Writes(h, u)
  BY <1>10, <1>11, <1>14, <1>15, <1>16, <1>17, <1>18
<1>20. Writes(ops', "chunk") = buf.chunk
  BY SMTT(60), ZenonT(60), <1>2, <1>3, <1>4, <1>6, <1>7, <1>8, <1>9, <1>19
<1>21. Writes(ops', "symbol") = buf.symbol
  BY <1>2, <1>3, <1>4, <1>6, <1>7, <1>8, <1>9, <1>19
<1>22. Writes(ops', "file_meta") = buf.file_meta \cup skipped.permanent
  BY <1>2, <1>3, <1>4, <1>6, <1>7, <1>8, <1>9, <1>19
<1>23. Writes(ops', "raw_edge") = buf.raw_edge
  BY ZenonT(60), SMTT(60), <1>2, <1>3, <1>4, <1>6, <1>7, <1>8, <1>9, <1>19
<1>26. Writes(ops', "pending_retry") = retry
  BY <1>2, <1>3, <1>4, <1>6, <1>7, <1>8, <1>9, <1>19
<1>24. StreamSeq(ops') /\ InOrder(ops')
  BY <1>17, <1>18
<1>25. Metas' = Metas
  <2>1. Issued("file_meta")' = Writes(ops', "file_meta")
    BY <1>1, <1>24, StreamIssues
  <2>2. buf'.file_meta = {} /\ skipped'.permanent = {}
    BY <1>1 DEF NoBuf
  <2>3. Issued("file_meta") = {}
    BY <1>1, NoSeq DEF Issued
  <2> QED
    BY <1>1, <1>22, <2>1, <2>2, <2>3 DEF Metas
<1> QED
  BY <1>20, <1>21, <1>23, <1>24, <1>25, <1>26 DEF retry

LEMMA CommitFlush ==
  ASSUME SpaceInv, CommitInv, FlushTail
  PROVE  CommitInv'
<1>1. /\ pc = "stream" /\ pc' = "tail" /\ ops = <<>>
      /\ UNCHANGED <<disk, client, db, job, torn, used>>
      /\ buf' = NoBuf /\ skipped' = [retry |-> {}, permanent |-> {}]
  BY DEF FlushTail
<1>2. /\ buf'.chunk = {} /\ buf'.symbol = {} /\ buf'.file_meta = {}
      /\ buf' = NoBuf /\ skipped'.permanent = {}
  BY <1>1 DEF NoBuf
<1>3. /\ StreamSeq(ops') /\ InOrder(ops') /\ Metas' \subseteq Metas
      /\ Writes(ops', "chunk") = buf.chunk /\ Writes(ops', "symbol") = buf.symbol
  BY FlushWrites
<1>4. CommitStmts' /\ \A t : Issued(t)' = Writes(ops', t)
  BY <1>1, <1>3, StreamIssues
<1>5. \A t : Issued(t) = {}
  BY <1>1, NoSeq DEF Issued
<1>6. \A f : ChunkRows(f)' = ChunkRows(f) /\ SymbolRows(f)' = SymbolRows(f)
  BY <1>1, <1>2, <1>3, <1>4, <1>5 DEF ChunkRows, SymbolRows
<1>7. MidDelete = {} /\ MidDelete' = {}
  BY <1>1, MidDeleteIs
<1>8. \A f, s, v : Fits(f, s, v)' <=> Fits(f, s, v)
  BY <1>1 DEF Fits
<1>9. CommitTypes'
  BY <1>1, <1>2, <1>3 DEF CommitInv, CommitTypes
<1>10. Removing' /\ Reading'
  BY <1>1 DEF Removing, Reading
<1>11. Whole'
  BY <1>1, <1>3, <1>6, <1>7, <1>8 DEF CommitInv, Whole
<1>12. Behind'
  BY <1>1, <1>2, <1>3, <1>4 DEF CommitInv, Behind
<1>13. OneContent'
  BY <1>6 DEF CommitInv, OneContent
<1> QED
  BY <1>4, <1>9, <1>10, <1>11, <1>12, <1>13 DEF CommitInv

\* A statement that fails unseen writes nothing: what it would have removed stays, and
\* the files whose chunks it would have written are torn from now on.
LEMMA CommitLost ==
  ASSUME SpaceInv, CommitInv, StatementLost, Head(ops).op # "meta"
  PROVE  CommitInv'
<1> DEFINE s == Head(ops)
<1>1. /\ ops # <<>> /\ Unchecked(s) /\ s.op # "meta" /\ ops' = Tail(ops)
      /\ torn' = IF s.table = "chunk" THEN torn \cup FilesOf(s.rows) ELSE torn
      /\ UNCHANGED <<disk, client, db, pc, job, st, buf, skipped>>
  BY DEF StatementLost, runVars
<1>2. used'.edits = used.edits /\ "edits" \in DOMAIN used' /\ "soft" \in DOMAIN used'
  <2>1. used' \in {Spend("clears"), Spend("rows")}
    BY DEF StatementLost
  <2> QED
    BY <2>1 DEF Spend, CommitInv, CommitTypes
<1>3. IsSeq(ops') /\ s \in ToSet(ops) /\ ToSet(ops) = {s} \cup ToSet(ops')
  BY <1>1, TailSeq DEF CommitInv, CommitStmts
<1>4. PhaseStmt(s) /\ Shape(s)
  BY <1>3 DEF CommitInv, CommitStmts, PhaseStmt
<1>5. CommitStmts'
  <2>1. InOrder(ops')
    BY <1>1, OrderTail DEF CommitInv, CommitStmts
  <2>2. \A t \in ToSet(ops') : PhaseStmt(t)
    BY <1>3 DEF CommitInv, CommitStmts
  <2> QED
    BY <1>1, <1>3, <2>1, <2>2 DEF CommitStmts, PhaseStmt, Affected
<1>6. \A t : Issued(t) = Issued(t)' \cup (IF s.op = "insert" /\ s.table = t THEN s.rows ELSE {})
  BY <1>1, IssuedTail DEF CommitInv, CommitStmts
<1> HIDE DEF s
<1>7. \/ s.op = "insert" /\ s.table = "chunk"
      \/ s.op = "delete" /\ s.table = "file_meta" /\ pc = "commit"
      \/ s.table \notin RowTables
  BY <1>1, <1>4 DEF Unchecked, Clears, PhaseStmt, RowTables
<1>8. Issued("symbol")' = Issued("symbol") /\ Issued("file_meta")' = Issued("file_meta")
      /\ Issued("chunk")' \subseteq Issued("chunk")
  BY <1>6, <1>7 DEF RowTables
<1>9. CommitTypes'
  BY <1>1, <1>2, <1>8, CalmTypes DEF CommitInv, CommitTypes
<1>10. \A f, q, v : Fits(f, q, v)' <=> Fits(f, q, v)
  BY <1>1, <1>2 DEF Fits
<1>11. /\ Metas' = Metas
       /\ \A f : ChunkRows(f)' \subseteq ChunkRows(f) /\ SymbolRows(f)' = SymbolRows(f)
  BY <1>1, <1>8 DEF Metas, ChunkRows, SymbolRows
<1>12. Reading'
  <2>1. \A f : Untouched(f) => Untouched(f)'
    BY <1>11 DEF Untouched
  <2> QED
    BY <1>1, <1>2, <1>10, <2>1 DEF CommitInv, Reading, Fits
<1>13. CASE s.op = "insert" /\ s.table = "chunk"
  <2>1. pc \in {"stream", "tail"}
    BY <1>4, <1>13 DEF PhaseStmt, RowTables
  <2>2. MidDelete = {} /\ MidDelete' = {}
    BY <1>1, <2>1, MidDeleteIs
  <2>3. \A f : f \notin FilesOf(s.rows) => ChunkRows(f)' = ChunkRows(f)
    BY <1>1, <1>6, <1>13 DEF ChunkRows, FilesOf
  <2>4. torn' = torn \cup FilesOf(s.rows)
    BY <1>1, <1>13
  <2>5. Whole'
    BY <1>10, <1>11, <2>2, <2>3, <2>4 DEF CommitInv, Whole
  <2>6. Behind'
    BY <1>1, <1>8 DEF CommitInv, Behind
  <2>7. Removing' /\ OneContent'
    BY <1>1, <1>11, <2>1 DEF CommitInv, Removing, OneContent
  <2> QED
    BY <1>5, <1>9, <1>12, <2>5, <2>6, <2>7 DEF CommitInv
<1>14. CASE ~(s.op = "insert" /\ s.table = "chunk")
  <2>1. torn' = torn /\ \A t \in RowTables : Issued(t)' = Issued(t)
    BY <1>1, <1>6, <1>7, <1>14 DEF RowTables
  <2>2. s.table \notin RowTables \/ pc = "commit"
    BY <1>7, <1>14
  <2>3. MidDelete' = MidDelete
    <3>1. CASE pc = "commit"
      BY <1>1, <3>1, MidDeleteIs
    <3>2. CASE s.table \notin RowTables
      <4>1. \A f : /\ Deletes(ops', "file_meta", f) <=> Deletes(ops, "file_meta", f)
                   /\ Deletes(ops', "symbol", f) <=> Deletes(ops, "symbol", f)
        BY <1>3, <3>2 DEF Deletes, RowTables
      <4>2. Stored' = Stored
        BY <1>1 DEF Stored
      <4> QED
        BY <1>1, <4>1, <4>2, MidDeleteIs
    <3> QED
      BY <2>2, <3>1, <3>2
  <2>4. Removing'
    <3>1. pc = "begin" => \A t \in RowTables : \A F : s # Delete(t, F)
      BY <2>2, DeleteFields DEF RowTables, Tables
    <3> QED
      BY <1>1, <1>3, <3>1 DEF CommitInv, Removing, Affected
  <2> QED
    BY <1>1, <1>2, <1>5, <1>9, <1>12, <2>1, <2>3, <2>4, CommitCalm
<1> QED
  BY <1>13, <1>14

LEMMA CommitStep ==
  ASSUME SpaceInv, CommitInv, LossTypes, [Next]_vars, ClearsSeen'
  PROVE  CommitInv'
<1>1. CASE Trigger \/ TakeRebuild
  <2>1. used' \in {used, [used EXCEPT !.requests = @ + 1]}
    BY <1>1 DEF Trigger, TakeRescan, TakeWatcherBatch, TakeRebuild
  <2>2. used'.edits = used.edits /\ "edits" \in DOMAIN used' /\ "soft" \in DOMAIN used'
    BY <2>1 DEF CommitInv, CommitTypes
  <2>3. \E changes, forced : StartRun(changes, forced)
    BY <1>1 DEF Trigger, TakeRescan, TakeWatcherBatch, TakeRebuild
  <2> QED
    BY <2>2, <2>3, CommitStart
<1>2. CASE RunStep
  <2>1. ASSUME NEW f \in Files, StatFile(f) \/ ReadAndEmbed(f) \/ StoreFile(f) PROVE CommitInv'
    BY <2>1, CommitReading, CommitStore
  <2> QED
    BY <1>2, <2>1, CommitPerform, CommitBegin, CommitStartStream, CommitEndSteps, CommitFlush,
       CommitAfter DEF RunStep
<1>3. CASE Fault
  <2>1. ASSUME NEW f \in Files, TransientSkip(f) \/ FatalEmbed(f) PROVE CommitInv'
    BY <2>1, CommitReading
  <2> QED
    BY <1>3, <2>1, LossStep, CommitEndSteps, CommitAround, CommitLost DEF Fault
<1>4. CASE Environment
  BY <1>1, <1>4, CommitEdit, CommitAround DEF Environment
<1>5. CASE UNCHANGED vars
  BY <1>5, CommitAround
<1> QED
  BY <1>1, <1>2, <1>3, <1>4, <1>5 DEF Next

\* The version whose rows are stored for a file that has its commit marker.
LEMMA CommittedVersion ==
  ASSUME SpaceInv, CommitInv, NEW f \in Committed
  PROVE  \E v \in Versions : Fits(f, StampOf(f), v) /\ RowsOfVersion(f, v)
<1>1. f \in Stored /\ f \notin torn \cup MidDelete
  BY DEF Committed
<1>2. PICK m \in db.file_meta : m.file = f
  BY <1>1 DEF Stored, FilesOf
<1>3. \A r \in db.file_meta : r.file = f => r = m
  BY <1>2 DEF CommitInv, CommitTypes
<1>4. StampOf(f) = m.stamp
  BY <1>1, <1>2, <1>3 DEF StampOf
<1>5. m \in Metas
  BY DEF Metas
<1>6. PICK v \in Versions :
         /\ Fits(f, m.stamp, v)
         /\ \E id \in Identities : ChunkRows(f) = ChunksOf(f, v, id)
         /\ SymbolRows(f) = SymbolsOf[f][v.content]
  BY <1>1, <1>2, <1>5 DEF CommitInv, Whole
<1>7. ChunkRows(f) = {c \in db.chunk : c.file = f} /\ SymbolRows(f) = {s \in db.symbol : s.file = f}
  BY <1>2 DEF CommitInv, Behind, ChunkRows, SymbolRows
<1> QED
  BY <1>4, <1>6, <1>7 DEF RowsOfVersion

\* file_meta is the commit marker: whatever statement a run was at when it crashed,
\* failed or was cancelled, a file that has its file_meta row has all chunks and all
\* symbols of one version of it in the database, one not older than the stamp - unless
\* an INSERT of its chunks was lost unseen (`torn`).  The invariant of the stored
\* vectors is part of the argument, so that no clear of a marker may be lost.
THEOREM RowsCommitted == Spec => [](ClearsSeen => CommitMarker)
<1> DEFINE Inv == LossTypes /\ (ClearsSeen => SpaceInv /\ CommitInv)
<1>1. Init => Inv
  BY SpaceInit, CommitInit, LossInit
<1>2. Inv /\ [Next]_vars => Inv'
  BY SpaceStep, CommitStep, LossStep
<1>3. Inv => (ClearsSeen => CommitMarker)
  <2>1. ASSUME SpaceInv, CommitInv, NEW f \in Committed
        PROVE  \E v \in Versions : v.stamp >= StampOf(f).stamp /\ RowsOfVersion(f, v)
    <3>1. PICK v \in Versions : Fits(f, StampOf(f), v) /\ RowsOfVersion(f, v)
      BY <2>1, CommittedVersion
    <3>2. v.stamp >= StampOf(f).stamp
      BY <3>1, PipelineAssumption DEF Fits, Versions
    <3> QED
      BY <3>1, <3>2
  <2> QED
    BY <2>1 DEF CommitMarker
<1> QED
  BY <1>1, <1>2, <1>3, PTL DEF Spec

\* The walk may skip a file whose recorded stamp is the one on disk: the stored rows
\* are those of the content on disk, even when the file was written while a run was
\* reading it, because the stamp is taken before the content.  Excepted is, as above,
\* a file of which an INSERT of chunks was lost unseen: that one is skipped without them.
THEOREM SkippedFilesCurrent == Spec => [](ClearsSeen => UnchangedMeansCurrent)
<1> DEFINE Inv == LossTypes /\ (ClearsSeen => SpaceInv /\ CommitInv)
<1>1. Init => Inv
  BY SpaceInit, CommitInit, LossInit
<1>2. Inv /\ [Next]_vars => Inv'
  BY SpaceStep, CommitStep, LossStep
<1>3. Inv => (ClearsSeen => UnchangedMeansCurrent)
  <2>1. ASSUME SpaceInv, CommitInv, NEW f \in Committed, StampOf(f) = disk[f]
        PROVE  RowsOfVersion(f, disk[f])
    <3>1. PICK v \in Versions : Fits(f, StampOf(f), v) /\ RowsOfVersion(f, v)
      BY <2>1, CommittedVersion
    <3>2. disk[f] \in Versions /\ disk[f] # Absent
      BY <2>1, <3>1, PipelineAssumption DEF Fits, Versions
    <3>3. v.stamp <= disk[f].stamp /\ disk[f].stamp <= v.stamp
      BY <2>1, <3>1, <3>2 DEF Fits
    <3>4. v.stamp = disk[f].stamp
      BY <3>1, <3>2, <3>3, PipelineAssumption DEF Versions
    <3>5. v = disk[f]
      BY <2>1, <3>1, <3>4 DEF Fits
    <3> QED
      BY <3>1, <3>5
  <2> QED
    BY <2>1 DEF UnchangedMeansCurrent
<1> QED
  BY <1>1, <1>2, <1>3, PTL DEF Spec

-----------------------------------------------------------------------------
(* What each statement does, and who still owes a file its rows            *)

On(s, t) == s.op # "meta" /\ s.table = t
Sets(s, k) == s.op = "meta" /\ k \in DOMAIN s.rows

IncrClear == Meta([identity |-> None, edges_resolved |-> FALSE])

\* The stream still owes the rows of file f.
Reads(f) == st[f].at \in {"todo", "stat", "embedded"}

\* What completing statement s does.
Done(s) ==
    /\ Shape(s) /\ StmtOK(s) /\ PhaseStmt(s) /\ IsSeq(ops')
    /\ ops # <<>> /\ ToSet(ops) = {s} \cup ToSet(ops')
    /\ \A t \in ToSet(ops') : Precedes(ops, s, t)
    /\ \A t, u : Precedes(ops', t, u) => Precedes(ops, t, u)
    /\ UNCHANGED <<disk, events, rescan, client, pc, job, st, buf, skipped, cancel, used>>
    /\ torn' = IF s.op = "delete" /\ s.table = "file_meta" THEN torn \ s.files ELSE torn
    /\ \A t \in Tables :
          /\ ~On(s, t) => db'[t] = db[t]
          /\ On(s, t) /\ s.op = "insert" =>
                db'[t] = {r \in db[t] : \A n \in s.rows : ~SameKey(t, r, n)} \cup s.rows
          /\ On(s, t) /\ s.op = "delete" => db'[t] = {r \in db[t] : r.file \notin s.files}
    /\ \A k \in MetaKeys :
          db'.index_meta[k] = IF Sets(s, k) THEN s.rows[k] ELSE db.index_meta[k]
    /\ \A t : Issued(t) = Issued(t)' \cup (IF s.op = "insert" /\ s.table = t THEN s.rows ELSE {})

LEMMA DoneIs ==
  ASSUME SpaceInv, CommitInv, PerformNext
  PROVE  \E s : Done(s)
<1> DEFINE s == Head(ops)
<1>1. /\ ops # <<>> /\ db' = Perform(db, s) /\ ops' = Tail(ops)
      /\ torn' = IF s.op = "delete" /\ s.table = "file_meta" THEN torn \ s.files ELSE torn
      /\ UNCHANGED <<disk, events, rescan, client, pc, job, st, buf, skipped, cancel, used>>
  BY DEF PerformNext, runVars
<1>2. IsSeq(ops) /\ IsSeq(ops') /\ s \in ToSet(ops) /\ ToSet(ops) = {s} \cup ToSet(ops')
  BY <1>1, TailSeq DEF CommitInv, CommitStmts
<1>3. /\ PhaseStmt(s) /\ Shape(s) /\ DbShape(db) /\ StmtOK(s)
  BY <1>2 DEF CommitInv, CommitStmts, PhaseStmt, SpaceInv, SpaceTypes, StatementsOK
<1>4. /\ \A t \in ToSet(ops') : Precedes(ops, s, t)
      /\ \A t, u : Precedes(ops', t, u) => Precedes(ops, t, u)
  BY <1>1, <1>2, PrecedesTail
<1>5. \A t : Issued(t) = Issued(t)' \cup (IF s.op = "insert" /\ s.table = t THEN s.rows ELSE {})
  BY <1>1, <1>2, IssuedTail
<1> HIDE DEF s
<1>0. db' = Perform(db, s) /\ DbShape(db) /\ Shape(s)
  BY <1>1, <1>3
<1> DEFINE TablesIs ==
              \A t \in Tables :
                 /\ ~On(s, t) => db'[t] = db[t]
                 /\ On(s, t) /\ s.op = "insert" =>
                       db'[t] = {r \in db[t] : \A n \in s.rows : ~SameKey(t, r, n)} \cup s.rows
                 /\ On(s, t) /\ s.op = "delete" => db'[t] = {r \in db[t] : r.file \notin s.files}
           MarkersAre ==
              \A k \in MetaKeys :
                 db'.index_meta[k] = IF Sets(s, k) THEN s.rows[k] ELSE db.index_meta[k]
<1>6. TablesIs /\ MarkersAre
  <2>1. CASE s.op = "meta"
    <3>1. /\ \A t \in Tables : db'[t] = db[t]
          /\ \A k \in MetaKeys : db'.index_meta[k] =
                IF k \in DOMAIN s.rows THEN s.rows[k] ELSE db.index_meta[k]
      BY <1>0, <2>1, PerformMeta
    <3> QED
      BY <2>1, <3>1 DEF On, Sets
  <2>2. CASE s.op = "insert"
    <3>1. s.table \in Tables
      BY <1>0, <2>2 DEF Shape
    <3>2. /\ db'.index_meta = db.index_meta
          /\ \A t \in Tables \ {s.table} : db'[t] = db[t]
          /\ db'[s.table] = {r \in db[s.table] : \A n \in s.rows : ~SameKey(s.table, r, n)}
                               \cup s.rows
      BY <1>0, <2>2, <3>1, PerformInsert
    <3> QED
      BY <2>2, <3>1, <3>2 DEF On, Sets
  <2>3. CASE s.op = "delete"
    <3>1. s.table \in Tables
      BY <1>0, <2>3 DEF Shape
    <3>2. /\ db'.index_meta = db.index_meta
          /\ \A t \in Tables \ {s.table} : db'[t] = db[t]
          /\ db'[s.table] = {r \in db[s.table] : r.file \notin s.files}
      BY SMTT(60), <1>0, <2>3, <3>1, PerformDelete
    <3> QED
      BY <2>3, <3>1, <3>2 DEF On, Sets
  <2> QED
    BY <1>3, <2>1, <2>2, <2>3 DEF Shape
<1>7. Done(s)
  BY <1>1, <1>2, <1>3, <1>4, <1>5, <1>6 DEF Done
<1> QED
  BY <1>7

-----------------------------------------------------------------------------
(* Nothing is forgotten                                                    *)

\* A trigger is queued that makes a run look at file f.
Later(f) == f \in events \/ rescan

\* File f waits in the retry queue, or will when the run has written it.
Waits(f) ==
    \/ f \in FilesOf(Issued("pending_retry"))
    \/ f \in skipped.retry
    \/ /\ f \in FilesOf(db.pending_retry) /\ ~Deletes(ops, "pending_retry", f)
       /\ pc = "stream" => job.mode = "incr" /\ f \notin job.process

\* The rows of file f, on their way or stored, are those of the version on disk.
Current(f) ==
    \/ \E m \in Metas : m.file = f /\ m.stamp = disk[f]
    \/ disk[f] = Absent /\ \A m \in Metas : m.file # f

\* File f is to be processed or dropped by the run that has just begun, or is in
\* its stream.
Planned(f) == pc \in {"preflight", "plan", "begin"} /\ f \in Affected
InStream(f) == pc = "stream" /\ Reads(f)

Promise(f) ==
    \/ Later(f)
    \/ Planned(f) /\ (f \in job.process \/ disk[f] = Absent)
    \/ InStream(f) /\ (st[f].at = "todo" \/ st[f].stamp = disk[f])
    \/ ~Planned(f) /\ ~InStream(f) /\ (Current(f) \/ Waits(f))

\* The stream will be given up, or the markers call for a rebuild or a walk.
CallsForRepair ==
    \/ pc = "stream" /\ cancel
    \/ pc = "idle" /\ (Marker = None \/ db.index_meta.needs_rebuild \/ Stored = {})

FreshTypes ==
    /\ used.soft \in Nat
    /\ job.process \cap job.delete = {}
    /\ pc = "stream" => \A f \in Files : Reads(f) => f \in job.process
    /\ pc # "stream" => skipped.retry = {}
    /\ \A m, n \in Metas : m.file = n.file => m = n

\* Files to be dropped are gone, and so are their rows once the stream begins.
FreshDeletes ==
    /\ pc # "idle" => \A f \in job.delete : disk[f] = Absent \/ Later(f)
    /\ job.mode = "incr" /\ pc \in {"stream", "tail", "commit"} =>
          \A m \in Metas : m.file \notin job.delete

FreshStmt(s) ==
    /\ s.check => pc = "phase2"
    /\ pc = "stream" => s.op = "insert" /\ s.table # "pending_retry"
    /\ On(s, "pending_retry") => pc \in {"plan", "nochange", "tail", "commit"}
    /\ On(s, "pending_retry") /\ s.op = "insert" => pc = "tail"
    /\ pc = "commit" /\ s.op = "delete" => job.mode = "incr" /\ s.files = job.delete

\* The retry queue is emptied before it is filled.
RetryOrder(s, t) == On(s, "pending_retry") /\ On(t, "pending_retry") =>
                        ~(s.op = "insert" /\ t.op = "delete")

FreshStmts == /\ \A s \in ToSet(ops) : FreshStmt(s)
              /\ \A s, t : Precedes(ops, s, t) => RetryOrder(s, t)

\* No stream under a marker.
FreshMarks ==
    /\ pc = "begin" /\ job.mode = "incr" => IncrClear \in ToSet(ops) \/ Marker = None
    /\ pc = "stream" => Marker = None

FreshKept == used.soft = 0 => CallsForRepair \/ \A f \in Files : Promise(f)

FreshInv == FreshTypes /\ FreshDeletes /\ FreshStmts /\ FreshMarks /\ FreshKept

\* Outside the stream and its tail all file_meta rows there are are stored, and
\* outside the tail no retry is on its way.
LEMMA AtRest ==
  /\ CommitInv /\ pc \notin {"stream", "tail"} => Metas = db.file_meta
  /\ CommitInv' /\ pc' \notin {"stream", "tail"} => Metas' = db'.file_meta
  /\ FreshStmts /\ pc # "tail" => Issued("pending_retry") = {}
  /\ FreshStmts' /\ pc' # "tail" => Issued("pending_retry")' = {}
<1>1. "file_meta" \in RowTables
  BY DEF RowTables
<1>2. CommitInv /\ pc \notin {"stream", "tail"} => Metas = db.file_meta
  BY <1>1, NoneIssued DEF CommitInv, CommitTypes, Metas, NoBuf
<1>3. CommitInv' /\ pc' \notin {"stream", "tail"} => Metas' = db'.file_meta
  BY <1>1, NoneIssued DEF CommitInv, CommitTypes, Metas, NoBuf
<1>4. FreshStmts /\ pc # "tail" => Issued("pending_retry") = {}
  BY DEF FreshStmts, FreshStmt, Issued, On
<1>5. FreshStmts' /\ pc' # "tail" => Issued("pending_retry")' = {}
  BY DEF FreshStmts, FreshStmt, Issued, On
<1> QED
  BY <1>2, <1>3, <1>4, <1>5

LEMMA FreshInit ==
  ASSUME Init
  PROVE  FreshInv
<1>1. /\ pc = "idle" /\ ops = <<>> /\ job = NoJob /\ used.soft = 0
      /\ skipped = [retry |-> {}, permanent |-> {}] /\ buf = NoBuf
      /\ db.index_meta.identity = None /\ db.file_meta = {}
  <2>1. /\ "index_meta" \in Tables \cup {"index_meta"} /\ "file_meta" \in Tables \cup {"index_meta"}
        /\ "file_meta" # "index_meta"
    BY DEF Tables
  <2> QED
    BY <2>1 DEF Init
<1>2. ToSet(ops) = {} /\ \A s, t : ~Precedes(ops, s, t)
  BY <1>1, NoSeq, PrecedesIn
<1>3. Metas = {}
  BY <1>1, <1>2 DEF Metas, Issued, NoBuf
<1>4. FreshTypes
  BY <1>1, <1>3 DEF FreshTypes, NoJob
<1>5. FreshDeletes /\ FreshMarks
  BY <1>1 DEF FreshDeletes, FreshMarks
<1>6. FreshStmts
  BY <1>2 DEF FreshStmts
<1>7. FreshKept
  BY <1>1 DEF FreshKept, CallsForRepair, Marker
<1> QED
  BY <1>4, <1>5, <1>6, <1>7 DEF FreshInv

\* When the run's task is gone.
LEMMA FreshCleared ==
  ASSUME CommitInv, CommitInv', FreshInv, ClearRun, db'.file_meta = db.file_meta,
         used'.soft \in Nat, FreshKept'
  PROVE  FreshInv'
<1>1. /\ pc' = "idle" /\ ops' = <<>> /\ job' = NoJob
      /\ skipped' = [retry |-> {}, permanent |-> {}] /\ buf' = NoBuf
  BY DEF ClearRun
<1>2. ToSet(ops') = {} /\ \A s, t : ~Precedes(ops', s, t)
  BY <1>1, NoSeq, PrecedesIn
<1>3. Metas' \subseteq Metas
  <2>1. Metas' = db'.file_meta
    BY <1>1, AtRest
  <2> QED
    BY <2>1 DEF Metas
<1>4. FreshTypes'
  BY <1>1, <1>3 DEF FreshInv, FreshTypes, NoJob
<1>5. FreshDeletes' /\ FreshMarks'
  BY <1>1 DEF FreshDeletes, FreshMarks
<1>6. FreshStmts'
  BY <1>2 DEF FreshStmts
<1> QED
  BY <1>4, <1>5, <1>6 DEF FreshInv

\* A failed run is marked for a rebuild.
LEMMA FailMarks ==
  ASSUME SpaceInv, CommitInv, CommitInv', FreshInv, NEW d, NEW isFatal, NEW spent,
         Fail(d, isFatal, spent), DbShape(d), d.file_meta = db.file_meta, spent.soft = used.soft,
         "soft" \in DOMAIN spent
  PROVE  FreshInv'
<1>1. PICK marked \in BOOLEAN :
         /\ db' = IF marked THEN Perform(d, Meta([needs_rebuild |-> TRUE])) ELSE d
         /\ used' = IF marked THEN spent ELSE [spent EXCEPT !.soft = @ + 1]
  BY DEF Fail
<1>2. ClearRun /\ pc' = "idle"
  BY DEF Fail, ClearRun
<1>3. used.soft \in Nat
  BY DEF FreshInv, FreshTypes
<1>4. CASE marked
  <2> DEFINE s == Meta([needs_rebuild |-> TRUE])
  <2>1. s.op = "meta" /\ s.rows = [needs_rebuild |-> TRUE]
    BY MetaFields
  <2> HIDE DEF s
  <2>2. Perform(d, s).file_meta = d.file_meta /\ Perform(d, s).index_meta.needs_rebuild = TRUE
    <3>1. "needs_rebuild" \in MetaKeys /\ "file_meta" \in Tables
      BY DEF MetaKeys, Tables
    <3> QED
      BY <2>1, <3>1, PerformMeta
  <2>3. db'.file_meta = db.file_meta /\ db'.index_meta.needs_rebuild = TRUE
    BY <1>1, <1>4, <2>2 DEF s
  <2>4. FreshKept'
    BY <1>2, <2>3 DEF FreshKept, CallsForRepair
  <2> QED
    BY <1>1, <1>2, <1>3, <1>4, <2>3, <2>4, FreshCleared
<1>5. CASE ~marked
  <2>1. used'.soft = used.soft + 1 /\ db'.file_meta = db.file_meta
    BY <1>1, <1>5
  <2>2. used'.soft \in Nat /\ used'.soft # 0
    BY <1>3, <2>1
  <2>3. FreshKept'
    BY <2>2 DEF FreshKept
  <2> QED
    BY <1>2, <2>1, <2>2, <2>3, FreshCleared
<1> QED
  BY <1>4, <1>5

\* A run that is over, at its end or in its last phase, keeps what it promised.
LEMMA FreshOver ==
  ASSUME CommitInv, CommitInv', FreshInv, ClearRun, pc \in {"phase2", "finish"},
         UNCHANGED <<disk, events, rescan, db, used>>
  PROVE  FreshInv'
<1>1. /\ pc' = "idle" /\ ops' = <<>> /\ ToSet(ops') = {}
  BY NoSeq DEF ClearRun
<1>2. Metas = db.file_meta /\ Metas' = db.file_meta /\ Issued("pending_retry") = {}
  BY <1>1, AtRest DEF FreshInv
<1>3. skipped.retry = {}
  BY DEF FreshInv, FreshTypes
<1>4. ASSUME NEW f, Promise(f) PROVE Promise(f)'
  <2>1. Later(f) \/ Current(f) \/ Waits(f)
    BY <1>4 DEF Promise, Planned, InStream
  <2>2. Later(f) => Later(f)'
    BY DEF Later
  <2>3. Current(f) => Current(f)'
    BY <1>2 DEF Current
  <2>4. Waits(f) => Waits(f)'
    BY <1>1, <1>2, <1>3 DEF Waits, Deletes, FilesOf
  <2> QED
    BY <1>1, <2>1, <2>2, <2>3, <2>4 DEF Promise, Planned, InStream
<1>5. FreshKept'
  BY <1>4 DEF FreshInv, FreshKept, CallsForRepair
<1> QED
  BY <1>5, FreshCleared DEF FreshInv, FreshTypes

LEMMA FreshEnds ==
  ASSUME SpaceInv, CommitInv, CommitInv', FreshInv, ~RebuildDropped,
         StatementFails \/ PreflightFails \/ AbortStream \/ Crash \/ Finish
            \/ CancelBeforeRebuild \/ CancelBeforeStatement
  PROVE  FreshInv'
<1>1. DbShape(db) /\ "soft" \in DOMAIN used /\ used.soft \in Nat
  BY DEF SpaceInv, SpaceTypes, CommitInv, CommitTypes, FreshInv, FreshTypes
<1>2. \A k \in {"errors", "fatal", "crashes"} : Spend(k).soft = used.soft /\ "soft" \in DOMAIN Spend(k)
  BY <1>1 DEF Spend
<1>3. CASE StatementFails
  <2> DEFINE s == Meta([identity |-> None, edges_resolved |-> FALSE])
  <2>1. Fail(IF pc = "commit" /\ Head(ops).op = "meta" THEN Perform(db, s) ELSE db, FALSE, Spend("errors"))
    BY <1>3 DEF StatementFails
  <2>2. DbShape(Perform(db, s)) /\ Perform(db, s).file_meta = db.file_meta
    BY <1>1, MetaFields, PerformMeta DEF Tables
  <2> QED
    BY <1>1, <1>2, <2>1, <2>2, FailMarks
<1>4. CASE PreflightFails
  BY <1>1, <1>2, <1>4, FailMarks DEF PreflightFails
<1>5. CASE AbortStream
  <2>1. CASE fatal
    BY <1>1, <1>5, <2>1, FailMarks DEF AbortStream
  <2>2. CASE ~fatal
    <3>1. Cancelled /\ pc = "stream"
      BY <1>5, <2>2 DEF AbortStream
    <3>2. ClearRun /\ pc' = "idle" /\ db' = db /\ used' = used
      BY <3>1 DEF Cancelled, ClearRun
    <3>3. Marker' = None
      BY <3>1, <3>2 DEF FreshInv, FreshMarks, Marker
    <3>4. FreshKept'
      BY <3>2, <3>3 DEF FreshKept, CallsForRepair
    <3> QED
      BY <1>1, <3>2, <3>4, FreshCleared
  <2> QED
    BY <2>1, <2>2
<1>6. CASE Crash
  <2>1. ClearRun /\ pc' = "idle" /\ db' = db /\ used'.soft = used.soft /\ rescan' = TRUE
    BY <1>2, <1>6 DEF Crash, ClearRun
  <2>2. FreshKept'
    BY <2>1 DEF FreshKept, Promise, Later
  <2> QED
    BY <1>1, <2>1, <2>2, FreshCleared
<1>7. CASE Finish
  BY <1>7, FreshOver DEF Finish
<1>8. CASE CancelBeforeStatement
  <2>1. ops # <<>> /\ Head(ops).check /\ Cancelled
    BY <1>8 DEF CancelBeforeStatement
  <2>2. Head(ops) \in ToSet(ops)
    BY <2>1, TailSeq DEF CommitInv, CommitStmts
  <2>3. pc = "phase2"
    BY <2>1, <2>2 DEF FreshInv, FreshStmts, FreshStmt
  <2> QED
    BY <2>1, <2>3, FreshOver DEF Cancelled
<1>9. CASE CancelBeforeRebuild
  <2>1. ClearRun /\ pc' = "idle" /\ db' = db /\ used' = used
    BY <1>9 DEF CancelBeforeRebuild, Cancelled, ClearRun
  <2>2. Marker = None \/ db.index_meta.needs_rebuild \/ Stored = {}
    BY <1>9 DEF RebuildDropped, Marker
  <2>3. Marker' = Marker /\ Stored' = Stored
    BY <2>1 DEF Marker, Stored
  <2>4. FreshKept'
    BY <2>1, <2>2, <2>3 DEF FreshKept, CallsForRepair
  <2> QED
    BY <1>1, <2>1, <2>4, FreshCleared
<1> QED
  BY <1>3, <1>4, <1>5, <1>6, <1>7, <1>8, <1>9

LEMMA FreshEdit ==
  ASSUME SpaceInv, FreshInv, NEW f \in Files, Edit(f)
  PROVE  FreshInv'
<1>1. PICK v : disk' = [disk EXCEPT ![f] = v]
  BY DEF Edit
<1>2. /\ events' = events \cup {f} /\ UNCHANGED <<rescan, db, pc, ops, job, st, buf, skipped, cancel>>
      /\ used' = Spend("edits")
  BY DEF Edit, runVars
<1>3. used'.soft = used.soft
  BY <1>2 DEF Spend
<1>4. \A g : g # f => disk'[g] = disk[g]
  BY <1>1 DEF SpaceInv, SpaceTypes
<1>5. Metas' = Metas /\ Affected' = Affected /\ Marker' = Marker /\ Stored' = Stored
      /\ Issued("pending_retry")' = Issued("pending_retry")
  BY <1>2 DEF Metas, Affected, Marker, Stored, Issued
<1>6. Later(f)' /\ \A g : Later(g) => Later(g)'
  BY <1>2 DEF Later
<1>7. \A g : (Planned(g)' <=> Planned(g)) /\ (InStream(g)' <=> InStream(g))
  BY <1>2, <1>5 DEF Planned, InStream, Reads
<1>8. \A g : Waits(g)' <=> Waits(g)
  BY <1>2, <1>5 DEF Waits, Deletes
<1>9. \A g : g # f => (Current(g)' <=> Current(g))
  BY <1>4, <1>5 DEF Current
<1>10. \A g : Promise(g) => Promise(g)'
  BY <1>2, <1>4, <1>6, <1>7, <1>8, <1>9 DEF Promise
<1>11. FreshKept'
  BY <1>2, <1>3, <1>5, <1>10 DEF FreshInv, FreshKept, CallsForRepair
<1>12. FreshTypes'
  BY <1>2, <1>3, <1>5 DEF FreshInv, FreshTypes, Reads
<1>13. FreshDeletes'
  BY <1>2, <1>4, <1>5, <1>6 DEF FreshInv, FreshDeletes
<1>14. FreshStmts' /\ FreshMarks'
  BY <1>2, <1>5 DEF FreshInv, FreshStmts, FreshStmt, FreshMarks
<1> QED
  BY <1>11, <1>12, <1>13, <1>14 DEF FreshInv

LEMMA FreshAround ==
  ASSUME FreshInv, SwitchClient \/ RequestCancel \/ UNCHANGED vars
  PROVE  FreshInv'
<1>1. /\ UNCHANGED <<disk, events, rescan, db, pc, ops, job, st, buf, skipped>>
      /\ cancel => cancel'
      /\ used' \in {used, Spend("requests")}
  BY DEF SwitchClient, RequestCancel, vars, runVars
<1>2. used'.soft = used.soft
  <2>1. Spend("requests").soft = used.soft
    BY DEF Spend
  <2> QED
    BY <1>1, <2>1
<1>3. Metas' = Metas /\ Affected' = Affected /\ Marker' = Marker /\ Stored' = Stored
      /\ Issued("pending_retry")' = Issued("pending_retry")
  BY <1>1 DEF Metas, Affected, Marker, Stored, Issued
<1>4. \A g : Promise(g) => Promise(g)'
  BY <1>1, <1>3 DEF Promise, Later, Planned, InStream, Reads, Current, Waits, Deletes
<1>5. FreshKept'
  BY <1>1, <1>2, <1>3, <1>4 DEF FreshInv, FreshKept, CallsForRepair
<1>6. FreshTypes' /\ FreshDeletes'
  BY <1>1, <1>2, <1>3 DEF FreshInv, FreshTypes, FreshDeletes, Reads, Later
<1>7. FreshStmts' /\ FreshMarks'
  BY <1>1, <1>3 DEF FreshInv, FreshStmts, FreshStmt, FreshMarks
<1> QED
  BY <1>5, <1>6, <1>7 DEF FreshInv

LEMMA FreshReading ==
  ASSUME SpaceInv, CommitInv, FreshInv, NEW f \in Files,
         StatFile(f) \/ ReadAndEmbed(f) \/ TransientSkip(f) \/ FatalEmbed(f)
  PROVE  FreshInv'
<1> DEFINE row == [file |-> f, stamp |-> st[f].stamp]
           Skips == /\ skipped' = [skipped EXCEPT !.retry = @ \cup {f}]
                    /\ st' = [st EXCEPT ![f] = [NoStage EXCEPT !.at = "done"]]
           Stats == /\ st' = [st EXCEPT ![f].at = "stat", ![f].stamp = disk[f]]
                    /\ skipped' = skipped
           Leaves == /\ st[f].at = "stat"
                     /\ skipped' = [skipped EXCEPT !.permanent = @ \cup {row}]
                     /\ st' = [st EXCEPT ![f] = [NoStage EXCEPT !.at = "done"]]
           Embeds == /\ st[f].at = "stat"
                     /\ st' = [st EXCEPT ![f].at = "embedded", ![f].ver = disk[f]]
                     /\ skipped' = skipped
           Stops == /\ cancel' = TRUE /\ skipped' = skipped
                    /\ st' = [st EXCEPT ![f] = [NoStage EXCEPT !.at = "done"]]
<1>1. /\ UNCHANGED <<disk, events, rescan, db, pc, ops, job, buf>> /\ pc = "stream" /\ Reads(f)
      /\ Skips \/ Stats \/ Leaves \/ Embeds \/ Stops
      /\ cancel => cancel'
  <2>1. CASE StatFile(f)
    BY <2>1 DEF StatFile, Streaming, SkipForRetry, Reads
  <2>2. CASE ReadAndEmbed(f)
    BY <2>2 DEF ReadAndEmbed, Streaming, SkipForRetry, Reads
  <2>3. CASE TransientSkip(f)
    BY <2>3 DEF TransientSkip, Streaming, SkipForRetry, Reads
  <2>4. CASE FatalEmbed(f)
    BY <2>4 DEF FatalEmbed, Streaming, SkipForRetry, Reads
  <2> QED
    BY <2>1, <2>2, <2>3, <2>4
<1>2. used'.soft = used.soft
  <2>1. Spend("errors").soft = used.soft /\ Spend("fatal").soft = used.soft
    BY DEF Spend
  <2>2. used' = used \/ used' = Spend("errors") \/ used' = Spend("fatal")
    BY DEF StatFile, ReadAndEmbed, TransientSkip, FatalEmbed
  <2> QED
    BY <2>1, <2>2
<1>3. /\ DOMAIN st = Files /\ DOMAIN st[f] = {"at", "stamp", "ver"}
      /\ DOMAIN skipped = {"retry", "permanent"}
  BY DEF SpaceInv, SpaceTypes
<1>4. f \in job.process /\ f \notin job.delete
  BY <1>1 DEF FreshInv, FreshTypes
<1>5. \A m \in Metas : m.file # f
  BY <1>1 DEF CommitInv, Reading, Untouched, Reads
<1>6. row.file = f /\ row.stamp = st[f].stamp
  OBVIOUS
<1> HIDE DEF row
<1>7. /\ \A g \in Files : g # f => st'[g] = st[g]
      /\ skipped.retry \subseteq skipped'.retry
      /\ skipped.permanent \subseteq skipped'.permanent
      /\ skipped'.permanent \subseteq skipped.permanent \cup {row}
  <2>1. CASE Skips
    BY <1>3, <2>1
  <2>2. CASE Stats
    BY <1>3, <2>2
  <2>3. CASE Leaves
    BY <1>3, <2>3
  <2>4. CASE Embeds
    BY <1>3, <2>4
  <2>5. CASE Stops
    BY <1>3, <2>5
  <2> QED
    BY <1>1, <2>1, <2>2, <2>3, <2>4, <2>5
<1>8. /\ Issued("pending_retry")' = Issued("pending_retry") /\ Marker' = Marker
      /\ Affected' = Affected
      /\ Metas \subseteq Metas' /\ Metas' \subseteq Metas \cup {row}
  BY <1>1, <1>7 DEF Issued, Marker, Affected, Metas
<1>9. ASSUME NEW g \in Files, g # f, Promise(g) PROVE Promise(g)'
  <2>1. Later(g)' <=> Later(g)
    BY <1>1 DEF Later
  <2>2. (Planned(g)' <=> Planned(g)) /\ (InStream(g)' <=> InStream(g))
    BY <1>1, <1>7, <1>8, <1>9 DEF Planned, InStream, Reads
  <2>3. Waits(g) => Waits(g)'
    BY <1>1, <1>7, <1>8 DEF Waits, Deletes
  <2>4. Current(g) => Current(g)'
    BY <1>1, <1>6, <1>8, <1>9 DEF Current
  <2> QED
    BY <1>1, <1>7, <1>9, <2>1, <2>2, <2>3, <2>4 DEF Promise
<1>10. Promise(f) => Promise(f)' \/ CallsForRepair'
  <2> SUFFICES ASSUME Promise(f), ~Later(f)' PROVE Promise(f)' \/ CallsForRepair'
    BY DEF Promise
  <2>1. InStream(f) /\ ~Planned(f) /\ ~Planned(f)' /\ ~Later(f)
    BY <1>1 DEF InStream, Planned, Later
  <2>2. st[f].at = "todo" \/ st[f].stamp = disk[f]
    BY <2>1 DEF Promise
  <2>3. CASE Skips
    <3>1. f \in skipped'.retry /\ st'[f].at = "done"
      BY <1>3, <2>3 DEF NoStage
    <3> QED
      BY <2>1, <3>1 DEF Promise, Waits, InStream, Reads
  <2>4. CASE Stats
    <3>1. st'[f].at = "stat" /\ st'[f].stamp = disk'[f]
      BY <1>1, <1>3, <2>4
    <3> QED
      BY <1>1, <3>1 DEF Promise, InStream, Reads
  <2>5. CASE Leaves
    <3>1. st'[f].at = "done" /\ row \in skipped'.permanent /\ row.stamp = disk'[f]
      BY <1>1, <1>3, <1>6, <2>2, <2>5 DEF NoStage
    <3>2. Current(f)'
      BY <1>6, <3>1 DEF Current, Metas
    <3> QED
      BY <2>1, <3>1, <3>2 DEF Promise, InStream, Reads
  <2>6. CASE Embeds
    <3>1. st'[f].at = "embedded" /\ st'[f].stamp = disk'[f]
      BY <1>1, <1>3, <2>2, <2>6
    <3> QED
      BY <1>1, <3>1 DEF Promise, InStream, Reads
  <2>7. CASE Stops
    BY <1>1, <2>7 DEF CallsForRepair
  <2> QED
    BY <1>1, <2>3, <2>4, <2>5, <2>6, <2>7
<1>11. FreshKept'
  <2>1. used'.soft = 0 /\ CallsForRepair => CallsForRepair'
    BY <1>1 DEF CallsForRepair
  <2> QED
    BY <1>2, <1>9, <1>10, <2>1 DEF FreshInv, FreshKept
<1>12. FreshTypes'
  <2>1. \A g \in Files : Reads(g)' => g \in job'.process
    BY <1>1, <1>4, <1>7 DEF FreshInv, FreshTypes, Reads
  <2>2. \A m, n \in Metas' : m.file = n.file => m = n
    BY <1>5, <1>6, <1>8 DEF FreshInv, FreshTypes
  <2> QED
    BY <1>1, <1>2, <2>1, <2>2 DEF FreshInv, FreshTypes
<1>13. FreshDeletes'
  BY <1>1, <1>4, <1>6, <1>8 DEF FreshInv, FreshDeletes, Later
<1>14. FreshStmts' /\ FreshMarks'
  BY <1>1, <1>8 DEF FreshInv, FreshStmts, FreshStmt, FreshMarks
<1> QED
  BY <1>11, <1>12, <1>13, <1>14 DEF FreshInv

\* Metadata statements and those on other tables change none of this.
LEMMA FreshSoftFails ==
  ASSUME SpaceInv, CommitInv, CommitInv', FreshInv, SoftStatementFails
  PROVE  FreshInv'
<1>1. /\ ops # <<>> /\ Head(ops).soft /\ ops' = Tail(ops) /\ used' = Spend("soft")
      /\ UNCHANGED <<disk, events, rescan, db, pc, job, st, buf, skipped, cancel>>
  BY DEF SoftStatementFails, runVars
<1>2. IsSeq(ops) /\ Head(ops) \in ToSet(ops) /\ ToSet(ops) = {Head(ops)} \cup ToSet(ops')
  BY <1>1, TailSeq DEF CommitInv, CommitStmts
<1>3. \A t, u : Precedes(ops', t, u) => Precedes(ops, t, u)
  BY <1>1, <1>2, PrecedesTail
<1>4. Head(ops).op = "meta" /\ Head(ops) # IncrClear
  BY <1>1, <1>2, MetaFields DEF CommitInv, CommitStmts, PhaseStmt, IncrClear
<1>5. used'.soft \in Nat /\ used'.soft # 0
  <2>1. used.soft \in Nat /\ "soft" \in DOMAIN used
    BY DEF FreshInv, FreshTypes, CommitInv, CommitTypes
  <2>2. used'.soft = used.soft + 1
    BY <1>1, <2>1 DEF Spend
  <2> QED
    BY <2>1, <2>2
<1>6. \A t : Issued(t) = Issued(t)'
  BY <1>1, <1>2, <1>4, IssuedTail
<1>7. Metas' = Metas /\ Marker' = Marker
  BY <1>1, <1>6 DEF Metas, Marker
<1>8. FreshKept'
  BY <1>5 DEF FreshKept
<1>9. FreshTypes' /\ FreshDeletes'
  BY <1>1, <1>5, <1>7 DEF FreshInv, FreshTypes, FreshDeletes, Reads, Later
<1>10. FreshStmts'
  BY <1>1, <1>2, <1>3 DEF FreshInv, FreshStmts, FreshStmt
<1>11. FreshMarks'
  BY <1>1, <1>2, <1>4, <1>7 DEF FreshInv, FreshMarks
<1> QED
  BY <1>8, <1>9, <1>10, <1>11 DEF FreshInv

\* A statement that fails unseen is neither one that writes file_meta or the retry
\* queue nor one that takes the identity marker away.
LEMMA FreshLost ==
  ASSUME SpaceInv, CommitInv, CommitInv', FreshInv, StatementLost, Head(ops).op # "meta"
  PROVE  FreshInv'
<1> DEFINE s == Head(ops)
<1>1. /\ ops # <<>> /\ ops' = Tail(ops) /\ s.op # "meta" /\ Unchecked(s)
      /\ UNCHANGED <<disk, events, rescan, db, pc, job, st, buf, skipped, cancel>>
  BY DEF StatementLost, runVars
<1>2. IsSeq(ops) /\ s \in ToSet(ops) /\ ToSet(ops) = {s} \cup ToSet(ops')
  BY <1>1, TailSeq DEF CommitInv, CommitStmts
<1>3. \A t, u : Precedes(ops', t, u) => Precedes(ops, t, u)
  BY <1>1, <1>2, PrecedesTail
<1>4. \A t : Issued(t) = Issued(t)' \cup (IF s.op = "insert" /\ s.table = t THEN s.rows ELSE {})
  BY <1>1, <1>2, IssuedTail
<1>5. used'.soft = used.soft
  <2>1. used' \in {Spend("clears"), Spend("rows")}
    BY DEF StatementLost
  <2> QED
    BY <2>1 DEF Spend, CommitInv, CommitTypes
<1> HIDE DEF s
<1>6. s.op = "insert" => s.table \in {"chunk", "raw_edge", "calls"}
  BY <1>1 DEF Unchecked, Clears
<1>7. Issued("file_meta")' = Issued("file_meta") /\ Issued("pending_retry")' = Issued("pending_retry")
  BY <1>4, <1>6
<1>8. Metas' = Metas /\ Affected' = Affected /\ Marker' = Marker /\ Stored' = Stored
  BY <1>1, <1>7 DEF Metas, Affected, Marker, Stored
<1>9. \A t, f : Deletes(ops', t, f) => Deletes(ops, t, f)
  BY <1>2 DEF Deletes
<1>10. \A f : Promise(f) => Promise(f)'
  <2>1. \A f : Waits(f) => Waits(f)'
    BY <1>1, <1>7, <1>9 DEF Waits
  <2> QED
    BY <1>1, <1>8, <2>1 DEF Promise, Later, Planned, InStream, Reads, Current
<1>11. FreshKept'
  BY <1>1, <1>5, <1>8, <1>10 DEF FreshInv, FreshKept, CallsForRepair
<1>12. FreshTypes' /\ FreshDeletes'
  BY <1>1, <1>5, <1>8 DEF FreshInv, FreshTypes, FreshDeletes, Reads, Later
<1>13. FreshStmts'
  BY <1>1, <1>2, <1>3 DEF FreshInv, FreshStmts, FreshStmt
<1>14. FreshMarks'
  <2>1. s # IncrClear
    BY <1>1, MetaFields DEF IncrClear
  <2> QED
    BY <1>1, <1>2, <1>8, <2>1 DEF FreshInv, FreshMarks
<1> QED
  BY <1>11, <1>12, <1>13, <1>14 DEF FreshInv

\* What a run decides when it starts: whatever it does not plan to treat is current.
LEMMA StartPlans ==
  ASSUME SpaceInv, CommitInv, FreshInv, NEW changes, NEW forced, StartRun(changes, forced),
         changes = None \/ (changes = events /\ rescan' = rescan)
  PROVE  /\ job'.process \cap job'.delete = {}
         /\ \A f \in job'.delete : disk[f] = Absent
         /\ pc' \in {"preflight", "plan", "nochange"}
         /\ pc' = "preflight" => job'.mode = "full" /\ job'.process = OnDisk
         /\ pc' # "preflight" => job'.mode = "incr"
         /\ pc' = "nochange" => job'.process = {} /\ job'.delete = {}
         /\ pc' # "preflight" /\ used.soft = 0 => 
               \A f \in Files \ (job'.process \cup job'.delete) :
                  rescan' \/ Current(f)
         /\ \A s \in ToSet(ops') : ~s.check /\ s.op # "insert"
         /\ pc' = "preflight" => \A s \in ToSet(ops') : s.op = "meta"
<1> DEFINE marker == db.index_meta.identity
           force == forced \/ db.index_meta.needs_rebuild
           hasData == Stored # {}
           unmarked == marker = None /\ hasData
           Rebuild(adopt) == ~hasData \/ force \/ identity_forces_rebuild(marker, hasData, adopt)
           change(adopt) == FoldPendingRetry(IF walks(changes, adopt) THEN detect_changes
                                             ELSE normalize_explicit_changes(changes))
           noChange(adopt) == change(adopt).process = {} /\ change(adopt).delete = {}
           adoptOp(adopt) == IF adopt THEN <<Meta([identity |-> client])>> ELSE <<>>
           retryOp(adopt) == IF Rebuild(adopt) \/ Vanished = {} THEN <<>>
                             ELSE <<Delete("pending_retry", Vanished)>>
<1>1. PICK adopt \in BOOLEAN :
         /\ adopt => unmarked
         /\ ops' = adoptOp(adopt) \o retryOp(adopt)
         /\ job'.mode = IF Rebuild(adopt) THEN "full" ELSE "incr"
         /\ job'.process = IF Rebuild(adopt) THEN OnDisk ELSE change(adopt).process
         /\ job'.delete = IF Rebuild(adopt) THEN {} ELSE change(adopt).delete
         /\ pc' \in {"preflight", "nochange", "plan"}
         /\ pc' = "preflight" <=> Rebuild(adopt)
         /\ pc' = "nochange" => noChange(adopt)
  BY DEF StartRun
<1> DEFINE waiting == FilesOf(db.pending_retry)
           found == change(adopt)
<1>2. /\ ~Rebuild(adopt) => /\ Stored # {} /\ ~db.index_meta.needs_rebuild
                            /\ ~adopt => marker # None
  BY <1>1 DEF identity_forces_rebuild
<1>3. /\ \A f \in found.process : f \in OnDisk
      /\ \A f \in found.delete : disk[f] = Absent
      /\ \A f \in waiting : (f \in OnDisk => f \in found.process)
                            /\ (disk[f] = Absent /\ f \in Stored => f \in found.delete)
  BY DEF FoldPendingRetry, normalize_explicit_changes, detect_changes
<1>4. walks(changes, adopt) =>
         /\ \A f \in OnDisk : StampOf(f) # disk[f] => f \in found.process
         /\ \A f \in Stored : disk[f] = Absent => f \in found.delete
  BY DEF FoldPendingRetry, detect_changes
<1>5. ~walks(changes, adopt) =>
         /\ changes = events /\ rescan' = rescan /\ ~adopt
         /\ \A f \in events : (f \in OnDisk => f \in found.process)
                              /\ (disk[f] = Absent /\ f \in Stored => f \in found.delete)
  BY DEF FoldPendingRetry, normalize_explicit_changes, walks
<1>6. /\ IsSeq(adoptOp(adopt)) /\ ToSet(adoptOp(adopt)) \subseteq {Meta([identity |-> client])}
      /\ IsSeq(retryOp(adopt)) /\ ToSet(retryOp(adopt)) \subseteq {Delete("pending_retry", Vanished)}
      /\ Rebuild(adopt) => ToSet(retryOp(adopt)) = {}
  <2> HIDE DEF Rebuild
  <2>1. IsSeq(adoptOp(adopt)) /\ ToSet(adoptOp(adopt)) \subseteq {Meta([identity |-> client])}
    BY NoSeq, OneSeq
  <2>2. CASE Rebuild(adopt) \/ Vanished = {}
    BY <2>1, <2>2, NoSeq
  <2>3. CASE ~(Rebuild(adopt) \/ Vanished = {})
    BY <2>1, <2>3, OneSeq
  <2> QED
    BY <2>2, <2>3
<1> HIDE DEF marker, force, hasData, unmarked, Rebuild, change, noChange, adoptOp, retryOp, found
<1>7. /\ ToSet(ops') \subseteq {Meta([identity |-> client]), Delete("pending_retry", Vanished)}
      /\ Rebuild(adopt) => ToSet(ops') \subseteq {Meta([identity |-> client])}
  BY <1>1, <1>6, ConcatSeq
<1>8. /\ ~Meta([identity |-> client]).check /\ Meta([identity |-> client]).op = "meta"
      /\ ~Delete("pending_retry", Vanished).check /\ Delete("pending_retry", Vanished).op = "delete"
  BY MetaFields, DeleteFields DEF Tables
<1>9. /\ job'.process = IF Rebuild(adopt) THEN OnDisk ELSE found.process
      /\ job'.delete = IF Rebuild(adopt) THEN {} ELSE found.delete
      /\ ~Rebuild(adopt) /\ noChange(adopt) => found.process = {} /\ found.delete = {}
  BY <1>1 DEF found, noChange
<1>10. /\ job'.process \cap job'.delete = {}
       /\ \A f \in job'.delete : disk[f] = Absent
  BY <1>3, <1>9 DEF OnDisk
<1>11. ASSUME ~Rebuild(adopt), used.soft = 0, NEW f \in Files, f \notin found.process,
              f \notin found.delete, ~rescan'
       PROVE  Current(f)
  <2>0. pc = "idle" /\ Metas = db.file_meta /\ Issued("pending_retry") = {} /\ skipped.retry = {}
    BY AtRest DEF StartRun, FreshInv, FreshTypes
  <2>1. disk[f] = Absent /\ f \notin Stored => Current(f)
    BY <2>0 DEF Current, Stored, FilesOf
  <2>2. f \in OnDisk \/ disk[f] = Absent
    BY DEF OnDisk
  <2>3. CASE walks(changes, adopt)
    <3>1. CASE f \in OnDisk
      <4>1. StampOf(f) = disk[f] /\ disk[f] # Absent
        BY <1>4, <1>11, <2>3, <3>1 DEF OnDisk
      <4>2. f \in Stored
        BY <4>1 DEF StampOf
      <4>3. \E r \in db.file_meta : r.file = f
        BY <4>2 DEF Stored, FilesOf
      <4>4. (CHOOSE r \in db.file_meta : r.file = f) \in db.file_meta
            /\ (CHOOSE r \in db.file_meta : r.file = f).file = f
        BY <4>3
      <4> QED
        BY <2>0, <4>1, <4>2, <4>4 DEF Current, StampOf
    <3>2. CASE disk[f] = Absent
      BY <1>4, <1>11, <2>1, <2>3, <3>2
    <3> QED
      BY <2>2, <3>1, <3>2
  <2>4. CASE ~walks(changes, adopt)
    <3>1. Stored # {} /\ ~db.index_meta.needs_rebuild /\ Marker # None
      BY <1>2, <1>5, <1>11, <2>4 DEF Marker, marker
    <3>2. Promise(f)
      BY <1>11, <2>0, <3>1 DEF FreshInv, FreshKept, CallsForRepair
    <3>3. f \in events \/ Current(f) \/ f \in waiting
      <4>1. ~rescan
        BY <1>5, <1>11, <2>4
      <4>2. Later(f) \/ Current(f) \/ Waits(f)
        BY <2>0, <3>2 DEF Promise, Planned, InStream
      <4>3. FilesOf({}) = {}
        BY DEF FilesOf
      <4> QED
        BY <2>0, <4>1, <4>2, <4>3 DEF Later, Waits
    <3>4. f \in events \/ f \in waiting => ~(f \in OnDisk) /\ ~(f \in Stored)
      BY <1>3, <1>5, <1>11, <2>2, <2>4
    <3> QED
      BY <2>1, <2>2, <3>3, <3>4
  <2> QED
    BY <2>3, <2>4
<1> QED
  BY <1>1, <1>7, <1>8, <1>9, <1>10, <1>11

LEMMA FreshStart ==
  ASSUME SpaceInv, CommitInv, CommitInv', FreshInv, NEW changes, NEW forced,
         StartRun(changes, forced), changes = None \/ (changes = events /\ rescan' = rescan),
         used'.soft = used.soft
  PROVE  FreshInv'
<1>1. /\ UNCHANGED <<disk, client, db, st, buf, skipped, cancel>> /\ pc = "idle"
  BY DEF StartRun
<1>2. /\ job'.process \cap job'.delete = {}
      /\ \A f \in job'.delete : disk[f] = Absent
      /\ pc' \in {"preflight", "plan", "nochange"}
      /\ pc' = "preflight" => job'.mode = "full" /\ job'.process = OnDisk
      /\ pc' # "preflight" => job'.mode = "incr"
      /\ pc' = "nochange" => job'.process = {} /\ job'.delete = {}
  BY StartPlans
<1>3. pc' # "preflight" /\ used.soft = 0 =>
         \A f \in Files \ (job'.process \cup job'.delete) :
            rescan' \/ Current(f)
  BY StartPlans
<1>4. /\ \A s \in ToSet(ops') : ~s.check /\ s.op # "insert"
      /\ pc' = "preflight" => \A s \in ToSet(ops') : s.op = "meta"
  BY StartPlans
<1>5. Metas' = Metas /\ Metas = db.file_meta
  BY <1>1, <1>2, AtRest
<1>6. FreshTypes'
  BY <1>1, <1>2, <1>5 DEF FreshInv, FreshTypes
<1>7. FreshDeletes' /\ FreshMarks'
  BY <1>1, <1>2 DEF FreshDeletes, FreshMarks
<1>8. FreshStmts'
  <2>1. \A s \in ToSet(ops') : FreshStmt(s)'
    BY <1>2, <1>4 DEF FreshStmt, On
  <2>2. \A s, t : Precedes(ops', s, t) => RetryOrder(s, t)'
    BY <1>4, PrecedesIn DEF RetryOrder
  <2> QED
    BY <2>1, <2>2 DEF FreshStmts
<1>9. ASSUME used.soft = 0, NEW f \in Files PROVE Promise(f)'
  <2>1. CASE pc' = "preflight"
    <3>1. f \in job'.process \/ disk'[f] = Absent
      BY <1>1, <1>2, <2>1 DEF OnDisk
    <3>2. Planned(f)'
      BY <1>2, <2>1 DEF Planned, Affected
    <3> QED
      BY <3>1, <3>2 DEF Promise
  <2>2. CASE pc' = "plan" /\ f \in job'.process \cup job'.delete
    <3>1. f \in job'.process \/ disk'[f] = Absent
      BY <1>1, <1>2, <2>2
    <3>2. Planned(f)'
      BY <1>2, <2>2 DEF Planned, Affected
    <3> QED
      BY <3>1, <3>2 DEF Promise
  <2>3. CASE pc' # "preflight" /\ f \notin job'.process \cup job'.delete
    <3>1. rescan' \/ Current(f)
      BY <1>3, <1>9, <2>3
    <3>2. ~Planned(f)' /\ ~InStream(f)'
      BY <1>2, <2>3 DEF Planned, InStream, Affected
    <3>3. Current(f) => Current(f)'
      BY <1>1, <1>5 DEF Current
    <3> QED
      BY <3>1, <3>2, <3>3 DEF Promise, Later
  <2> QED
    BY <1>2, <2>1, <2>2, <2>3
<1>10. FreshKept'
  BY <1>9 DEF FreshKept
<1> QED
  BY <1>6, <1>7, <1>8, <1>10 DEF FreshInv

LEMMA FreshBegin ==
  ASSUME SpaceInv, CommitInv, CommitInv', FreshInv, BeginFull \/ BeginIncremental
  PROVE  FreshInv'
<1>1. /\ UNCHANGED <<disk, events, rescan, client, db, buf, st, skipped, cancel, used>> /\ ops = <<>>
      /\ pc \in {"preflight", "plan"} /\ pc' = "begin"
  BY DEF BeginFull, BeginIncremental, runVars
<1>2. /\ job'.process = job.process /\ job'.mode = job.mode /\ job'.delete = job.delete
  BY DEF BeginFull, BeginIncremental, runVars, SpaceInv, SpaceTypes, JobKeys
<1>3. Affected' = Affected
  BY <1>2 DEF Affected
<1>4. Metas' = Metas
  BY <1>1, AtRest
<1>5. /\ \A s \in ToSet(ops') : ~s.check /\ ~On(s, "pending_retry")
      /\ job.mode = "incr" => IncrClear \in ToSet(ops')
  <2>1. ASSUME NEW t \in Tables \ {"pending_retry"}, NEW F
        PROVE  ~Delete(t, F).check /\ ~On(Delete(t, F), "pending_retry")
    BY DEF Delete, Stmt, On
  <2>2. ASSUME NEW m
        PROVE  /\ ~Meta(m).check /\ ~On(Meta(m), "pending_retry")
               /\ ~Soft(Meta(m)).check /\ ~On(Soft(Meta(m)), "pending_retry")
    BY DEF Meta, Soft, Stmt, On
  <2>3. CASE BeginFull
    <3> DEFINE a == Meta([identity |-> None, raw_edge_complete |-> FALSE])
               z == Soft(Meta([edges_resolved |-> FALSE]))
               d1 == Delete("calls", Files)
               d2 == Delete("raw_edge", Files)
               d3 == Delete("symbol", Files)
               d4 == Delete("chunk", Files)
               d5 == Delete("file_meta", Files)
    <3>1. job.mode = "full"
      BY <2>3 DEF BeginFull, CommitInv, CommitTypes
    <3>2. ops' = <<a, d1, d2, d3, d4, d5, z>>
      BY <2>3 DEF BeginFull
    <3>3. \A s \in {a, d1, d2, d3, d4, d5, z} : ~s.check /\ ~On(s, "pending_retry")
      BY <2>1, <2>2 DEF Tables
    <3> HIDE DEF a, z, d1, d2, d3, d4, d5
    <3>4. ToSet(ops') = {a, d1, d2, d3, d4, d5, z}
      BY <3>2, SevenSeq
    <3> QED
      BY <3>1, <3>3, <3>4
  <2>4. CASE BeginIncremental
    <3> DEFINE F == job.process \cup job.delete
               a == IncrClear
               d1 == Delete("symbol", F)
               d2 == Delete("chunk", F)
               d3 == Delete("raw_edge", F)
               d4 == Delete("file_meta", F)
    <3>2. ops' = <<a, d1, d2, d3, d4>>
      BY <2>4 DEF BeginIncremental, IncrClear
    <3>3. \A s \in {a, d1, d2, d3, d4} : ~s.check /\ ~On(s, "pending_retry")
      BY <2>1, <2>2 DEF Tables, IncrClear
    <3> HIDE DEF a, d1, d2, d3, d4
    <3>4. ToSet(ops') = {a, d1, d2, d3, d4}
      BY <3>2, FiveSeq
    <3>5. IncrClear \in ToSet(ops')
      BY <3>4 DEF a
    <3> QED
      BY <3>3, <3>4, <3>5
  <2> QED
    BY <2>3, <2>4
<1>6. FreshStmts'
  BY <1>1, <1>5, PrecedesIn DEF FreshStmts, FreshStmt, RetryOrder
<1>7. Issued("pending_retry")' = {} /\ Issued("pending_retry") = {}
  BY <1>1, <1>6, AtRest DEF FreshInv
<1>8. FreshMarks'
  BY <1>1, <1>2, <1>5 DEF FreshMarks
<1>9. FreshTypes' /\ FreshDeletes'
  BY <1>1, <1>2, <1>4 DEF FreshInv, FreshTypes, FreshDeletes, Later
<1>10. \A f \in Files : Promise(f) => Promise(f)'
  <2>1. \A f : Later(f)' <=> Later(f)
    BY <1>1 DEF Later
  <2>2. \A f : (Planned(f)' <=> Planned(f)) /\ ~InStream(f)' /\ ~InStream(f)
    BY <1>1, <1>3 DEF Planned, InStream
  <2>3. \A f : Current(f) => Current(f)'
    BY <1>1, <1>4 DEF Current
  <2>4. \A f : Waits(f) => Waits(f)'
    <3>1. \A f : ~Deletes(ops', "pending_retry", f)
      BY <1>5 DEF Deletes, On
    <3> QED
      BY <1>1, <1>7, <3>1 DEF Waits
  <2> QED
    BY <1>1, <1>2, <2>1, <2>2, <2>3, <2>4 DEF Promise
<1>11. FreshKept'
  BY <1>1, <1>10 DEF FreshInv, FreshKept, CallsForRepair
<1> QED
  BY <1>6, <1>8, <1>9, <1>11 DEF FreshInv

\* The old rows are gone: a planned file is in the stream, or needs none.
LEMMA FreshStartStream ==
  ASSUME SpaceInv, CommitInv, FreshInv, StartStream
  PROVE  FreshInv'
<1>1. /\ UNCHANGED <<disk, events, rescan, db, buf, skipped, cancel, used, ops, job>>
      /\ ops = <<>> /\ pc = "begin"
      /\ pc' = IF job.process = {} THEN "tail" ELSE "stream"
      /\ st' = [f \in Files |-> IF f \in job.process THEN [NoStage EXCEPT !.at = "todo"]
                                ELSE NoStage]
  BY DEF StartStream
<1>2. ToSet(ops) = {} /\ ToSet(ops') = {} /\ \A s, t : ~Precedes(ops', s, t)
  BY <1>1, NoSeq, PrecedesIn
<1>3. Metas' = Metas /\ Metas = db.file_meta /\ Issued("pending_retry") = {}
      /\ Issued("pending_retry")' = {}
  <2>1. Metas' = Metas
    BY <1>1 DEF Metas, Issued
  <2> QED
    BY <1>1, <1>2, <2>1, AtRest DEF Issued
<1>4. \A m \in Metas : m.file \notin Affected
  BY <1>1, <1>2, <1>3 DEF CommitInv, Removing, RowTables
<1>5. /\ job.mode \in {"full", "incr"} /\ job.process \subseteq Files
      /\ job.process \subseteq Affected
      /\ job.mode = "incr" => job.delete \subseteq Affected
  BY <1>1 DEF SpaceInv, SpacePhase, CommitInv, CommitTypes, Affected
<1>6. \A f \in Files : /\ f \in job.process => st'[f].at = "todo"
                       /\ f \notin job.process => st'[f].at = "none"
  BY <1>1 DEF NoStage
<1>7. Marker = None
  BY <1>1, <1>2, <1>5 DEF SpaceInv, SpacePhase, FreshInv, FreshMarks
<1>8. FreshMarks' /\ FreshStmts'
  BY <1>1, <1>2, <1>7 DEF FreshMarks, FreshStmts, Marker
<1>9. FreshTypes'
  <2>1. \A f \in Files : Reads(f)' => f \in job'.process
    BY <1>1, <1>6 DEF Reads
  <2> QED
    BY <1>1, <1>3, <2>1 DEF FreshInv, FreshTypes
<1>10. FreshDeletes'
  BY <1>1, <1>3, <1>4, <1>5 DEF FreshInv, FreshDeletes, Later
<1>11. ASSUME NEW f \in Files, Promise(f) PROVE Promise(f)'
  <2>1. Later(f)' <=> Later(f)
    BY <1>1 DEF Later
  <2>2. ~Planned(f)' /\ ~InStream(f)
    BY <1>1 DEF Planned, InStream
  <2>3. InStream(f)' <=> f \in job.process
    BY <1>1, <1>6 DEF InStream, Reads
  <2>4. Planned(f) <=> f \in Affected
    BY <1>1 DEF Planned
  <2>5. CASE f \in job.process
    <3>1. InStream(f)' /\ st'[f].at = "todo"
      BY <1>6, <2>3, <2>5
    <3> QED
      BY <3>1 DEF Promise
  <2>6. CASE f \in Affected \ job.process
    <3>1. Later(f) \/ disk[f] = Absent
      BY <1>11, <2>2, <2>4, <2>6 DEF Promise
    <3>2. disk[f] = Absent => Current(f)'
      BY <1>1, <1>3, <1>4, <2>6 DEF Current
    <3> QED
      BY <2>1, <2>2, <2>3, <2>6, <3>1, <3>2 DEF Promise
  <2>7. CASE f \notin Affected
    <3>1. Later(f) \/ Current(f) \/ Waits(f)
      BY <1>11, <2>2, <2>4, <2>7 DEF Promise
    <3>2. Current(f) => Current(f)'
      BY <1>1, <1>3 DEF Current
    <3>3. job.mode = "incr" /\ f \notin job.process
      BY <1>5, <2>7 DEF Affected
    <3>4. Waits(f) => Waits(f)'
      BY <1>1, <1>3, <3>3 DEF Waits, Deletes
    <3> QED
      BY <2>1, <2>2, <2>3, <3>1, <3>2, <3>3, <3>4 DEF Promise
  <2> QED
    BY <1>5, <2>5, <2>6, <2>7
<1>12. FreshKept'
  BY <1>1, <1>11 DEF FreshInv, FreshKept, CallsForRepair
<1> QED
  BY <1>8, <1>9, <1>10, <1>12 DEF FreshInv

\* Statements that only insert rows.
RowsSeq(q) ==
    IsSeq(q) /\ \A s \in ToSet(q) : s.op = "insert" /\ s.table # "pending_retry" /\ ~s.check

LEMMA RowsParts ==
  /\ RowsSeq(<<>>)
  /\ \A t \in Tables \ {"pending_retry"} : \A rows :
        RowsSeq(<<Insert(t, rows)>>) /\ RowsSeq(InsertSome(t, rows))
  /\ \A rows : IsFiniteSet(rows) => RowsSeq(upsert_file_meta(rows))
  /\ \A a, b : RowsSeq(a) /\ RowsSeq(b) => RowsSeq(a \o b)
<1>1. RowsSeq(<<>>)
  BY NoSeq DEF RowsSeq
<1>2. ASSUME NEW t \in Tables \ {"pending_retry"}, NEW rows
      PROVE  RowsSeq(<<Insert(t, rows)>>) /\ RowsSeq(InsertSome(t, rows))
  <2> DEFINE i == Insert(t, rows)
  <2>1. i.op = "insert" /\ i.table # "pending_retry" /\ ~i.check
    BY DEF Insert, Stmt
  <2>2. InsertSome(t, rows) = IF rows = {} THEN <<>> ELSE <<i>>
    BY DEF InsertSome
  <2> HIDE DEF i
  <2>3. RowsSeq(<<i>>)
    BY <2>1, OneSeq DEF RowsSeq
  <2>4. RowsSeq(InsertSome(t, rows))
    BY <1>1, <2>2, <2>3
  <2> QED
    BY <2>3, <2>4 DEF i
<1>3. ASSUME NEW rows, IsFiniteSet(rows) PROVE RowsSeq(upsert_file_meta(rows))
  <2>1. /\ IsSeq(upsert_file_meta(rows))
        /\ \A s \in ToSet(upsert_file_meta(rows)) : \E r \in rows : s = Insert("file_meta", {r})
    BY <1>3, UpsertStatements
  <2>2. \A r : LET i == Insert("file_meta", {r})
               IN  i.op = "insert" /\ i.table # "pending_retry" /\ ~i.check
    BY DEF Insert, Stmt
  <2> QED
    BY <2>1, <2>2 DEF RowsSeq
<1>4. ASSUME NEW a, NEW b, RowsSeq(a), RowsSeq(b) PROVE RowsSeq(a \o b)
  BY <1>4, ConcatSeq DEF RowsSeq
<1> QED
  BY <1>1, <1>2, <1>3, <1>4

LEMMA StoreInserts ==
  ASSUME SpaceInv, NEW f \in Files, StoreFile(f)
  PROVE  RowsSeq(ops')
<1> DEFINE v        == st[f].ver
           symbols  == buf.symbol \cup SymbolsOf[f][v.content]
           raw      == buf.raw_edge \cup EdgesOf[f][v.content]
           symFull  == Cardinality(symbols) >= SYM_BATCH_SIZE
           rawFull  == Cardinality(raw) >= RAW_EDGE_INSERT_BATCH_SIZE
           symLeft  == IF symFull THEN {} ELSE symbols
           rawLeft  == IF rawFull THEN {} ELSE raw
           room     == WRITE_BATCH_SIZE - Cardinality(buf.chunk)
           chunks   == ChunksOf(f, v, job.identity)
           fitting  == {c \in chunks : c.part <= room}
           boundary == Cardinality(chunks) >= room
           oSym     == IF symFull THEN InsertSome("symbol", symbols) ELSE <<>>
           oRaw     == IF rawFull THEN InsertSome("raw_edge", raw) ELSE <<>>
           oEnd     == IF boundary
                       THEN FlushBoundary(buf.chunk \cup fitting, rawLeft, symLeft, buf.file_meta)
                       ELSE <<>>
<1>1. ops' = (oSym \o oRaw) \o oEnd
  BY DEF StoreFile
<1>2. IsFiniteSet(buf.file_meta)
  BY DEF SpaceInv, SpaceTypes
<1>3. {"symbol", "raw_edge", "chunk"} \subseteq Tables \ {"pending_retry"}
  BY DEF Tables
<1> HIDE DEF v, symbols, raw, symFull, rawFull, symLeft, rawLeft, room, chunks, fitting, boundary
<1>4. RowsSeq(<<>>) /\ \A rows : RowsSeq(InsertSome("symbol", rows))
  BY <1>3, RowsParts
<1>5. \A rows : RowsSeq(InsertSome("raw_edge", rows)) /\ RowsSeq(<<Insert("chunk", rows)>>)
  BY <1>3, RowsParts
<1>6. RowsSeq(oSym) /\ RowsSeq(oRaw)
  BY <1>4, <1>5
<1>7. RowsSeq(oEnd)
  <2> DEFINE a == <<Insert("chunk", buf.chunk \cup fitting)>>
             b == InsertSome("raw_edge", rawLeft)
             c == InsertSome("symbol", symLeft)
             d == upsert_file_meta(buf.file_meta)
  <2>1. RowsSeq(a) /\ RowsSeq(b) /\ RowsSeq(c) /\ RowsSeq(d)
    BY <1>2, <1>4, <1>5, RowsParts
  <2>2. FlushBoundary(buf.chunk \cup fitting, rawLeft, symLeft, buf.file_meta)
           = ((a \o b) \o c) \o d
    BY DEF FlushBoundary
  <2> HIDE DEF a, b, c, d
  <2>3. RowsSeq(a \o b)
    BY <2>1, RowsParts
  <2>4. RowsSeq((a \o b) \o c)
    BY <2>1, <2>3, RowsParts
  <2>5. RowsSeq(((a \o b) \o c) \o d)
    BY <2>1, <2>4, RowsParts
  <2> QED
    BY <1>4, <2>2, <2>5
<1> HIDE DEF oSym, oRaw, oEnd
<1>8. RowsSeq(oSym \o oRaw)
  BY <1>6, RowsParts
<1> QED
  BY <1>1, <1>7, <1>8, RowsParts

LEMMA FreshStore ==
  ASSUME SpaceInv, CommitInv, FreshInv, NEW f \in Files, StoreFile(f)
  PROVE  FreshInv'
<1> DEFINE row == [file |-> f, stamp |-> st[f].stamp]
<1>1. /\ UNCHANGED <<disk, events, rescan, db, pc, job, skipped, cancel, used>>
      /\ pc = "stream" /\ st[f].at = "embedded"
      /\ st' = [st EXCEPT ![f] = [NoStage EXCEPT !.at = "done"]]
  BY DEF StoreFile, Streaming
<1>2. Metas' = Metas \cup {row} /\ \A m \in Metas : m.file # f
  BY StoreTakes DEF Takes, Untouched
<1>3. RowsSeq(ops')
  BY StoreInserts
<1>4. /\ row.file = f /\ row.stamp = st[f].stamp
  OBVIOUS
<1>5. st'[f].at = "done" /\ \A g \in Files : g # f => st'[g] = st[g]
  BY <1>1 DEF SpaceInv, SpaceTypes, NoStage
<1> HIDE DEF row
<1>6. f \in job.process /\ f \notin job.delete
  BY <1>1 DEF FreshInv, FreshTypes, Reads
<1>7. FreshStmts' /\ FreshMarks'
  <2>1. \A s \in ToSet(ops') : FreshStmt(s)'
    BY <1>1, <1>3 DEF RowsSeq, FreshStmt, On
  <2>2. \A s, t : Precedes(ops', s, t) => RetryOrder(s, t)'
    BY <1>3, PrecedesIn DEF RowsSeq, RetryOrder, On
  <2> QED
    BY <1>1, <2>1, <2>2 DEF FreshStmts, FreshInv, FreshMarks, Marker
<1>8. Issued("pending_retry")' = {} /\ Issued("pending_retry") = {}
  BY <1>1, <1>7, AtRest DEF FreshInv
<1>9. FreshTypes'
  <2>1. \A g \in Files : Reads(g)' => g \in job'.process
    BY <1>1, <1>5, <1>6 DEF FreshInv, FreshTypes, Reads
  <2>2. \A m, n \in Metas' : m.file = n.file => m = n
    BY <1>2, <1>4 DEF FreshInv, FreshTypes
  <2> QED
    BY <1>1, <2>1, <2>2 DEF FreshInv, FreshTypes
<1>10. FreshDeletes'
  BY <1>1, <1>2, <1>4, <1>6 DEF FreshInv, FreshDeletes, Later
<1>11. ASSUME NEW g \in Files, Promise(g) PROVE Promise(g)'
  <2>1. Later(g)' <=> Later(g)
    BY <1>1 DEF Later
  <2>2. ~Planned(g)' /\ ~Planned(g)
    BY <1>1 DEF Planned
  <2>3. CASE g = f
    <3>1. InStream(f) /\ ~InStream(f)'
      BY <1>1, <1>5 DEF InStream, Reads
    <3>2. Later(f) \/ st[f].stamp = disk[f]
      BY <1>1, <1>11, <2>2, <2>3, <3>1 DEF Promise
    <3>3. st[f].stamp = disk[f] => Current(f)'
      BY <1>1, <1>2, <1>4 DEF Current
    <3> QED
      BY <2>1, <2>2, <2>3, <3>1, <3>2, <3>3 DEF Promise
  <2>4. CASE g # f
    <3>1. st'[g] = st[g] /\ (InStream(g)' <=> InStream(g))
      BY <1>1, <1>5, <2>4 DEF InStream, Reads
    <3>2. Current(g) => Current(g)'
      BY <1>1, <1>2, <1>4, <2>4 DEF Current
    <3>3. Waits(g) => Waits(g)'
      BY <1>1, <1>3, <1>8 DEF Waits, Deletes, RowsSeq
    <3> QED
      BY <1>1, <1>11, <2>1, <2>2, <3>1, <3>2, <3>3 DEF Promise
  <2> QED
    BY <2>3, <2>4
<1>12. FreshKept'
  BY <1>1, <1>11 DEF FreshInv, FreshKept, CallsForRepair
<1> QED
  BY SMTT(60), <1>7, <1>9, <1>10, <1>12 DEF FreshInv

\* The tail flush empties the retry queue of what the run has treated, then fills it.
LEMMA FlushRetries ==
  ASSUME SpaceInv, FlushTail
  PROVE  /\ \A s \in ToSet(ops') : ~s.check
         /\ \A s, t : Precedes(ops', s, t) => RetryOrder(s, t)
         /\ \A f : Deletes(ops', "pending_retry", f) =>
               f \in (IF job.mode = "full" THEN Files ELSE job.process)
<1> DEFINE a == InsertSome("symbol", buf.symbol)
           b == InsertSome("chunk", buf.chunk)
           c == InsertSome("raw_edge", buf.raw_edge)
           d == upsert_file_meta(buf.file_meta)
           gone == IF job.mode = "full" THEN Files ELSE job.process
           del == Delete("pending_retry", gone)
           e == <<del>>
           retry == {[file |-> f] : f \in skipped.retry}
           g == InsertSome("pending_retry", retry)
           h == upsert_file_meta(skipped.permanent)
           DelOK(s) == On(s, "pending_retry") /\ s.op = "delete" => s.files = gone
           NoDel(s) == ~(On(s, "pending_retry") /\ s.op = "delete")
           NoIns(s) == ~(On(s, "pending_retry") /\ s.op = "insert")
           Seq0(q) == IsSeq(q) /\ \A s \in ToSet(q) : ~s.check /\ DelOK(s)
           Ordered(q) == Seq0(q) /\ \A s, t : Precedes(q, s, t) => RetryOrder(s, t)
           Fill(q) == Seq0(q) /\ \A s \in ToSet(q) : NoDel(s)
           Clear(q) == Seq0(q) /\ \A s \in ToSet(q) : NoIns(s)
<1>1. ops' = (((((a \o b) \o c) \o d) \o e) \o g) \o h
  BY DEF FlushTail
<1>2. IsFiniteSet(buf.file_meta) /\ IsFiniteSet(skipped.permanent)
  BY DEF SpaceInv, SpaceTypes
<1>3. {"symbol", "raw_edge", "chunk"} \subseteq Tables \ {"pending_retry"}
  BY DEF Tables
<1>4. RowsSeq(a) /\ RowsSeq(b) /\ RowsSeq(c) /\ RowsSeq(d) /\ RowsSeq(h)
  BY <1>2, <1>3, RowsParts
<1>5. del.op = "delete" /\ del.table = "pending_retry" /\ del.files = gone /\ ~del.check
  BY DEF Delete, Stmt
<1>6. g = <<>> \/ g = <<Insert("pending_retry", retry)>>
  BY DEF InsertSome
<1> HIDE DEF a, b, c, d, gone, del, retry, g, h
<1>7. RowsSeq(((a \o b) \o c) \o d)
  <2>1. RowsSeq(a \o b)
    BY <1>4, RowsParts
  <2>2. RowsSeq((a \o b) \o c)
    BY <1>4, <2>1, RowsParts
  <2> QED
    BY <1>4, <2>2, RowsParts
<1> DEFINE rows == ((a \o b) \o c) \o d
<1> HIDE DEF rows
<1>8. Clear(rows)
  BY <1>7 DEF RowsSeq, On, rows
<1>9. Clear(e)
  BY <1>5, OneSeq DEF On
<1>10. Fill(g)
  <2>1. CASE g = <<>>
    BY <2>1, NoSeq
  <2>2. CASE g # <<>>
    <3> DEFINE i == Insert("pending_retry", retry)
    <3>1. g = <<i>>
      BY <1>6, <2>2
    <3>2. i.op = "insert" /\ ~i.check
      BY DEF Insert, Stmt
    <3> HIDE DEF i
    <3>3. IsSeq(<<i>>) /\ ToSet(<<i>>) = {i}
      BY OneSeq
    <3> QED
      BY <3>1, <3>2, <3>3
  <2> QED
    BY <2>1, <2>2
<1>11. Fill(h)
  BY <1>4 DEF RowsSeq, On
<1> HIDE DEF e
<1>12. Ordered(rows \o e)
  <2>1. IsSeq(rows \o e) /\ ToSet(rows \o e) = ToSet(rows) \cup ToSet(e)
    BY <1>8, <1>9, ConcatSeq
  <2>2. Clear(rows \o e)
    BY <1>8, <1>9, <2>1
  <2> QED
    BY <2>2, PrecedesIn DEF RetryOrder
<1>13. ASSUME NEW p, NEW q, Ordered(p), Fill(q) PROVE Ordered(p \o q)
  <2>1. IsSeq(p \o q) /\ ToSet(p \o q) = ToSet(p) \cup ToSet(q)
    BY <1>13, ConcatSeq
  <2>2. Seq0(p \o q)
    BY <1>13, <2>1
  <2>3. \A s, t : Precedes(p \o q, s, t) => Precedes(p, s, t) \/ t \in ToSet(q)
    BY <1>13, PrecedesConcat, PrecedesIn
  <2> QED
    BY <1>13, <2>2, <2>3 DEF RetryOrder
<1>14. Ordered((rows \o e) \o g)
  BY <1>10, <1>12, <1>13
<1>15. Ordered(((rows \o e) \o g) \o h)
  BY <1>11, <1>13, <1>14
<1>16. Ordered(ops')
  BY <1>1, <1>15 DEF rows
<1>17. \A f : Deletes(ops', "pending_retry", f) => f \in gone
  BY <1>16 DEF Deletes, On
<1> QED
  BY <1>16, <1>17 DEF gone

LEMMA FreshFlush ==
  ASSUME SpaceInv, CommitInv, FreshInv, FlushTail
  PROVE  FreshInv'
<1>1. /\ pc = "stream" /\ pc' = "tail" /\ ops = <<>> /\ ~cancel
      /\ UNCHANGED <<disk, events, rescan, db, job, cancel, used>>
      /\ \A f \in job.process : st[f].at = "done"
      /\ skipped'.retry = {}
  BY DEF FlushTail
<1>2. /\ \A s \in ToSet(ops') : ~s.check
      /\ \A s, t : Precedes(ops', s, t) => RetryOrder(s, t)
      /\ \A f : Deletes(ops', "pending_retry", f) =>
            f \in (IF job.mode = "full" THEN Files ELSE job.process)
  BY FlushRetries
<1>3. Metas' = Metas /\ Issued("pending_retry")' = {[file |-> f] : f \in skipped.retry}
  <2>1. /\ StreamSeq(ops') /\ InOrder(ops') /\ Metas' = Metas
        /\ Writes(ops', "pending_retry") = {[file |-> f] : f \in skipped.retry}
    BY FlushWrites
  <2> QED
    BY <1>1, <2>1, StreamIssues
<1>4. Issued("pending_retry") = {}
  BY <1>1, AtRest DEF FreshInv
<1>5. FreshStmts' /\ FreshMarks'
  <2>1. \A s \in ToSet(ops') : FreshStmt(s)'
    BY <1>1, <1>2 DEF FreshStmt
  <2>2. \A s, t : RetryOrder(s, t)' <=> RetryOrder(s, t)
    BY DEF RetryOrder, On
  <2> QED
    BY <1>1, <1>2, <2>1, <2>2 DEF FreshStmts, FreshMarks
<1>6. FreshTypes' /\ FreshDeletes'
  BY <1>1, <1>3 DEF FreshInv, FreshTypes, FreshDeletes, Later
<1>7. ASSUME NEW f \in Files, Promise(f) PROVE Promise(f)'
  <2>1. Later(f)' <=> Later(f)
    BY <1>1 DEF Later
  <2>2. ~Planned(f)' /\ ~InStream(f)' /\ ~Planned(f)
    BY <1>1 DEF Planned, InStream
  <2>3. ~InStream(f)
    <3>1. Reads(f) => f \in job.process
      BY <1>1 DEF FreshInv, FreshTypes
    <3> QED
      BY <1>1, <3>1 DEF InStream, Reads
  <2>4. Current(f) => Current(f)'
    BY <1>1, <1>3 DEF Current
  <2>5. CASE f \in skipped.retry
    <3>1. [file |-> f] \in Issued("pending_retry")' /\ [file |-> f].file = f
      BY <1>3, <2>5
    <3>2. f \in FilesOf(Issued("pending_retry")')
      BY <3>1 DEF FilesOf
    <3> QED
      BY <2>2, <3>2 DEF Promise, Waits
  <2>6. CASE f \notin skipped.retry
    <3>1. FilesOf({}) = {}
      BY DEF FilesOf
    <3>2. Waits(f) => /\ f \in FilesOf(db.pending_retry)
                      /\ job.mode = "incr" /\ f \notin job.process
      BY <1>1, <1>4, <2>6, <3>1 DEF Waits
    <3>3. Waits(f) => Waits(f)'
      <4>1. job.mode = "incr" => job.mode # "full"
        OBVIOUS
      <4>2. Waits(f) => ~Deletes(ops', "pending_retry", f)
        BY <1>2, <3>2, <4>1
      <4> QED
        BY <1>1, <3>2, <4>2 DEF Waits
    <3> QED
      BY <1>7, <2>1, <2>2, <2>3, <2>4, <3>3 DEF Promise
  <2> QED
    BY <2>5, <2>6
<1>8. FreshKept'
  BY <1>1, <1>7 DEF FreshInv, FreshKept, CallsForRepair
<1> QED
  BY <1>5, <1>6, <1>8 DEF FreshInv

\* The rows are committed: what is dropped of the deleted files is gone already.
LEMMA FreshCommitRows ==
  ASSUME SpaceInv, CommitInv, CommitInv', FreshInv, CommitRows
  PROVE  FreshInv'
<1>1. /\ pc = "tail" /\ pc' = "commit" /\ ops = <<>>
      /\ UNCHANGED <<disk, events, rescan, db, job, st, buf, skipped, cancel, used>>
      /\ ops' = IF job.mode = "full"
                THEN <<Meta([raw_edge_complete |-> TRUE]), Meta([identity |-> job.identity])>>
                ELSE <<Delete("file_meta", job.delete), Delete("pending_retry", job.delete),
                       Meta([identity |-> job.identity])>>
  BY DEF CommitRows, runVars
<1>2. job.mode \in {"full", "incr"}
  BY <1>1 DEF SpaceInv, SpacePhase
<1>3. ToSet(ops) = {}
  BY <1>1, NoSeq
<1>4. Metas' = Metas /\ Issued("pending_retry") = {}
  <2>1. Metas' = db.file_meta
    BY <1>1, AtRest
  <2>2. buf = NoBuf /\ skipped.permanent = {} /\ Issued("file_meta") = {}
    BY <1>1, <1>3 DEF CommitInv, CommitTypes, Issued
  <2> QED
    BY <1>3, <2>1, <2>2 DEF Metas, Issued, NoBuf
<1>5. \A s \in ToSet(ops') : /\ ~s.check /\ s.op # "insert"
                             /\ s.op = "delete" => job.mode = "incr" /\ s.files = job.delete
  <2>1. \A m : ~Meta(m).check /\ Meta(m).op = "meta"
    BY DEF Meta, Stmt
  <2>2. \A t : LET d == Delete(t, job.delete)
               IN  ~d.check /\ d.op = "delete" /\ d.files = job.delete
    BY DEF Delete, Stmt
  <2>3. CASE job.mode = "full"
    <3>1. ToSet(ops') = {Meta([raw_edge_complete |-> TRUE]), Meta([identity |-> job.identity])}
      BY <1>1, <2>3, TwoSeq
    <3> QED
      BY <2>1, <3>1
  <2>4. CASE job.mode = "incr"
    <3>1. ToSet(ops') = {Delete("file_meta", job.delete), Delete("pending_retry", job.delete),
                         Meta([identity |-> job.identity])}
      BY <1>1, <2>4, ThreeSeq
    <3> QED
      BY <2>1, <2>2, <2>4, <3>1
  <2> QED
    BY <1>2, <2>3, <2>4
<1>6. FreshStmts' /\ FreshMarks'
  <2>1. \A s \in ToSet(ops') : FreshStmt(s)'
    BY <1>1, <1>5 DEF FreshStmt
  <2>2. \A s, t : Precedes(ops', s, t) => RetryOrder(s, t)'
    BY <1>5, PrecedesIn DEF RetryOrder
  <2> QED
    BY <1>1, <2>1, <2>2 DEF FreshStmts, FreshMarks
<1>7. FreshTypes' /\ FreshDeletes'
  BY <1>1, <1>4 DEF FreshInv, FreshTypes, FreshDeletes, Later
<1>8. ASSUME NEW f \in Files, Promise(f) PROVE Promise(f)'
  <2>1. Later(f)' <=> Later(f)
    BY <1>1 DEF Later
  <2>2. ~Planned(f)' /\ ~InStream(f)' /\ ~Planned(f) /\ ~InStream(f)
    BY <1>1 DEF Planned, InStream
  <2>3. Current(f) => Current(f)'
    BY <1>1, <1>4 DEF Current
  <2>4. CASE f \in job.delete /\ job.mode = "incr"
    <3>1. Later(f) \/ Current(f)'
      BY <1>1, <1>4, <2>4 DEF FreshInv, FreshDeletes, Current
    <3> QED
      BY <2>1, <2>2, <3>1 DEF Promise
  <2>5. CASE ~(f \in job.delete /\ job.mode = "incr")
    <3>1. ~Deletes(ops', "pending_retry", f)
      BY <1>5, <2>5 DEF Deletes
    <3>2. skipped.retry = {}
      BY <1>1 DEF FreshInv, FreshTypes
    <3>3. FilesOf({}) = {}
      BY DEF FilesOf
    <3>4. Waits(f) => Waits(f)'
      BY <1>1, <1>4, <3>1, <3>2, <3>3 DEF Waits
    <3> QED
      BY <1>8, <2>1, <2>2, <2>3, <3>4 DEF Promise
  <2> QED
    BY <2>4, <2>5
<1>9. FreshKept'
  BY <1>1, <1>8 DEF FreshInv, FreshKept, CallsForRepair
<1> QED
  BY <1>6, <1>7, <1>9 DEF FreshInv

\* The call graph, and the end of a run that succeeds.
LEMMA FreshAfter ==
  ASSUME CommitInv, CommitInv', FreshInv,
         pc \in {"commit", "nochange", "phase2"}, pc' \in {"phase2", "finish"}, ops = <<>>,
         UNCHANGED <<disk, events, db, job, skipped>>, rescan => rescan',
         used'.soft = used.soft,
         \A s \in ToSet(ops') : ~On(s, "pending_retry") /\ (s.check => pc' = "phase2")
  PROVE  FreshInv'
<1>1. Metas' = Metas
  <2>1. Metas' = db'.file_meta /\ Metas = db.file_meta
    BY AtRest
  <2> QED
    BY <2>1
<1>2. FreshStmts' /\ FreshMarks'
  <2>1. \A s \in ToSet(ops') : FreshStmt(s)'
    BY DEF FreshStmt, On
  <2>2. \A s, t : Precedes(ops', s, t) => RetryOrder(s, t)'
    BY PrecedesIn DEF RetryOrder
  <2> QED
    BY <2>1, <2>2 DEF FreshStmts, FreshMarks
<1>3. Issued("pending_retry") = {} /\ skipped.retry = {}
  BY AtRest DEF FreshInv, FreshTypes
<1>4. FreshTypes'
  BY <1>1 DEF FreshInv, FreshTypes
<1>5. FreshDeletes'
  BY DEF FreshInv, FreshDeletes, Later
<1>6. ASSUME NEW f \in Files, Promise(f) PROVE Promise(f)'
  <2>1. Later(f) => Later(f)'
    BY DEF Later
  <2>2. ~Planned(f)' /\ ~InStream(f)' /\ ~Planned(f) /\ ~InStream(f)
    BY DEF Planned, InStream
  <2>3. Current(f) => Current(f)'
    BY <1>1 DEF Current
  <2>4. ~Deletes(ops', "pending_retry", f) /\ FilesOf({}) = {}
    <3>1. \A s \in ToSet(ops') : ~(s.op = "delete" /\ s.table = "pending_retry")
      BY DEF On
    <3> QED
      BY <3>1 DEF Deletes, FilesOf
  <2>5. Waits(f) => Waits(f)'
    BY <1>3, <2>4 DEF Waits
  <2> QED
    BY <1>6, <2>1, <2>2, <2>3, <2>5 DEF Promise
<1>7. FreshKept'
  BY <1>6 DEF FreshInv, FreshKept, CallsForRepair
<1> QED
  BY <1>2, <1>4, <1>5, <1>7 DEF FreshInv

LEMMA FreshPhase2 ==
  ASSUME SpaceInv, CommitInv, CommitInv', FreshInv,
         FullPhase2 \/ IncrementalPhase2 \/ NoChangePhase2
  PROVE  FreshInv'
<1>1. UNCHANGED <<disk, events, rescan, db, job, skipped>> /\ pc \in {"commit", "nochange"}
      /\ pc' = "phase2" /\ ops = <<>>
  BY DEF FullPhase2, IncrementalPhase2, NoChangePhase2, EnterPhase2, runVars
<1>2. used'.soft = used.soft
  <2>1. used' \in {used, Spend("heal")}
    BY DEF FullPhase2, IncrementalPhase2, NoChangePhase2, Heal
  <2>2. CASE used' = Spend("heal")
    BY <2>2 DEF Spend
  <2> QED
    BY <2>1, <2>2
<1> DEFINE Graph(q) == IsSeq(q) /\ \A s \in ToSet(q) : GraphStmt(s)
<1>3. EdgesIn(db.raw_edge) /\ EdgesIn({})
  BY DEF SpaceInv, SpaceTypes, EdgesIn
<1>4. \A raw : EdgesIn(raw) => Graph(resolve_edges_phase2(raw))
  BY Phase2Statements
<1>5. \A R : Graph(reresolve_statements(R))
  BY <1>3, ReresolveStatements
<1>6. Heal => Graph(ops')
  <2>1. \A U : Graph(heal_edges(U))
    BY HealStatements DEF SpaceInv, SpaceTypes
  <2> QED
    BY <2>1 DEF Heal
<1>7. ASSUME NEW raw, EdgesIn(raw) PROVE Graph(Tail(resolve_edges_phase2(raw)))
  <2> DEFINE q == resolve_edges_phase2(raw)
  <2>1. IsSeq(q) /\ q # <<>> /\ \A s \in ToSet(q) : GraphStmt(s)
    BY <1>7, Phase2Statements
  <2> HIDE DEF q
  <2>2. IsSeq(Tail(q)) /\ ToSet(Tail(q)) \subseteq ToSet(q)
    BY <2>1, TailSeq
  <2>3. Graph(Tail(q))
    BY <2>1, <2>2
  <2> QED
    BY <2>3 DEF q
<1>8. Graph(<<>>)
  BY NoSeq
<1> HIDE DEF Graph
<1>9. Graph(ops')
  <2>1. CASE FullPhase2
    BY <1>4, <1>7, <2>1, FullPhase2Edges
  <2>2. CASE IncrementalPhase2
    <3>1. \/ Heal
          \/ \E R : ops' = reresolve_statements(R)
          \/ ops' = resolve_edges_phase2(db.raw_edge)
      BY <2>2 DEF IncrementalPhase2
    <3> QED
      BY <1>3, <1>4, <1>5, <1>6, <3>1
  <2>3. CASE NoChangePhase2
    <3>1. Heal \/ ops' = <<>> \/ ops' = resolve_edges_phase2(db.raw_edge)
      BY <2>3 DEF NoChangePhase2
    <3> QED
      BY <1>3, <1>4, <1>6, <1>8, <3>1
  <2> QED
    BY <2>1, <2>2, <2>3
<1>10. \A s \in ToSet(ops') : ~On(s, "pending_retry")
  BY <1>9 DEF Graph, GraphStmt, On
<1> QED
  BY <1>1, <1>2, <1>10, FreshAfter

LEMMA FreshSucceeds ==
  ASSUME CommitInv, CommitInv', FreshInv, RunSucceeds
  PROVE  FreshInv'
<1>1. /\ pc = "phase2" /\ pc' = "finish" /\ ops = <<>>
      /\ UNCHANGED <<disk, events, db, job, skipped, used>> /\ (rescan => rescan')
      /\ ops' \in {<<Soft(Meta([needs_rebuild |-> FALSE]))>>, <<>>}
  BY DEF RunSucceeds, runVars
<1>2. LET s == Soft(Meta([needs_rebuild |-> FALSE])) IN ~On(s, "pending_retry") /\ ~s.check
  BY DEF Soft, Meta, Stmt, On
<1>3. \A s \in ToSet(ops') : ~On(s, "pending_retry") /\ ~s.check
  BY <1>1, <1>2, OneSeq, NoSeq
<1> QED
  BY <1>1, <1>3, FreshAfter

\* A statement completes: only the bulk deletes take file_meta rows away.
LEMMA DoneMetas ==
  ASSUME CommitInv, FreshInv, NEW s, Done(s)
  PROVE  /\ Metas' \subseteq Metas
         /\ \A m \in Metas : m \in Metas' \/ (On(s, "file_meta") /\ s.op = "delete" /\ m.file \in s.files)
<1>1. /\ UNCHANGED <<buf, skipped>> /\ "file_meta" \in Tables
      /\ Issued("file_meta") = Issued("file_meta")' \cup
            (IF s.op = "insert" /\ s.table = "file_meta" THEN s.rows ELSE {})
  BY DEF Done, Tables
<1>2. /\ ~On(s, "file_meta") => db'.file_meta = db.file_meta
      /\ On(s, "file_meta") /\ s.op = "insert" => db'.file_meta =
            {r \in db.file_meta : \A n \in s.rows : ~SameKey("file_meta", r, n)} \cup s.rows
      /\ On(s, "file_meta") /\ s.op = "delete" =>
            db'.file_meta = {r \in db.file_meta : r.file \notin s.files}
  BY <1>1 DEF Done
<1>3. s.op \in {"meta", "insert", "delete"}
  BY DEF Done, Shape
<1>4. \A m, n \in Metas : m.file = n.file => m = n
  BY DEF FreshInv, FreshTypes
<1>5. CASE ~On(s, "file_meta")
  <2>1. Issued("file_meta") = Issued("file_meta")'
    BY <1>1, <1>5 DEF On
  <2> QED
    BY <1>1, <1>2, <1>5, <2>1 DEF Metas
<1>6. CASE On(s, "file_meta") /\ s.op = "insert"
  <2>1. Issued("file_meta") = Issued("file_meta")' \cup s.rows
    BY <1>1, <1>6 DEF On
  <2>2. \A r \in db.file_meta : r \in db'.file_meta \/ r \in s.rows
    <3> SUFFICES ASSUME NEW r \in db.file_meta, NEW n \in s.rows, SameKey("file_meta", r, n)
                 PROVE  r \in s.rows
      BY <1>2, <1>6
    <3>1. r.file = n.file
      BY DEF SameKey
    <3>2. r \in Metas /\ n \in Metas
      BY <2>1 DEF Metas
    <3> QED
      BY <1>4, <3>1, <3>2
  <2>3. db'.file_meta \subseteq db.file_meta \cup s.rows /\ s.rows \subseteq db'.file_meta
    BY <1>2, <1>6
  <2> QED
    BY <1>1, <2>1, <2>2, <2>3 DEF Metas
<1>7. CASE On(s, "file_meta") /\ s.op = "delete"
  <2>1. Issued("file_meta") = Issued("file_meta")'
    BY <1>1, <1>7
  <2> QED
    BY <1>1, <1>2, <1>7, <2>1 DEF Metas
<1> QED
  BY <1>3, <1>5, <1>6, <1>7 DEF On

LEMMA PerformRetries ==
  ASSUME FreshInv, NEW s, Done(s), NEW f, Waits(f)
  PROVE  Waits(f)'
<1>1. /\ UNCHANGED <<pc, job, skipped>> /\ "pending_retry" \in Tables
      /\ ToSet(ops) = {s} \cup ToSet(ops') /\ s \in ToSet(ops)
      /\ \A t \in ToSet(ops') : Precedes(ops, s, t)
      /\ Issued("pending_retry") = Issued("pending_retry")' \cup
            (IF s.op = "insert" /\ s.table = "pending_retry" THEN s.rows ELSE {})
  BY DEF Done, Tables
<1>2. /\ ~On(s, "pending_retry") => db'.pending_retry = db.pending_retry
      /\ On(s, "pending_retry") /\ s.op = "insert" => db'.pending_retry =
            {r \in db.pending_retry : \A n \in s.rows : ~SameKey("pending_retry", r, n)} \cup s.rows
      /\ On(s, "pending_retry") /\ s.op = "delete" =>
            db'.pending_retry = {r \in db.pending_retry : r.file \notin s.files}
  BY <1>1 DEF Done
<1>3. s.op \in {"meta", "insert", "delete"}
  BY DEF Done, Shape
<1>4. CASE f \in FilesOf(Issued("pending_retry"))
  <2>1. f \in FilesOf(Issued("pending_retry")') => Waits(f)'
    BY DEF Waits
  <2>2. CASE f \notin FilesOf(Issued("pending_retry")')
    <3>1. PICK r \in Issued("pending_retry") : r.file = f
      BY <1>4 DEF FilesOf
    <3>2. r \notin Issued("pending_retry")'
      BY <2>2, <3>1 DEF FilesOf
    <3>3. s.op = "insert" /\ On(s, "pending_retry") /\ r \in s.rows
      BY <1>1, <3>1, <3>2 DEF On
    <3>4. f \in FilesOf(db'.pending_retry)
      BY <1>2, <3>1, <3>3 DEF FilesOf
    <3>5. pc = "tail"
      BY <1>1, <3>3 DEF FreshInv, FreshStmts, FreshStmt
    <3>6. ~Deletes(ops', "pending_retry", f)
      <4>1. \A t \in ToSet(ops') : RetryOrder(s, t)
        BY <1>1 DEF FreshInv, FreshStmts
      <4>2. \A t : t.op = "delete" /\ t.table = "pending_retry" => On(t, "pending_retry")
        BY DEF On
      <4> QED
        BY <3>3, <4>1, <4>2 DEF RetryOrder, Deletes
    <3> QED
      BY <1>1, <3>4, <3>5, <3>6 DEF Waits
  <2> QED
    BY <2>1, <2>2
<1>5. CASE f \in skipped.retry
  BY <1>1, <1>5 DEF Waits
<1>6. CASE /\ f \in FilesOf(db.pending_retry) /\ ~Deletes(ops, "pending_retry", f)
           /\ pc = "stream" => job.mode = "incr" /\ f \notin job.process
  <2>1. PICK r \in db.pending_retry : r.file = f
    BY <1>6 DEF FilesOf
  <2>2. r \in db'.pending_retry
    <3>1. ~(s.op = "delete" /\ s.table = "pending_retry" /\ f \in s.files)
      BY <1>1, <1>6 DEF Deletes
    <3>2. \A n : ~SameKey("pending_retry", r, n)
      BY DEF SameKey
    <3> QED
      BY <1>2, <1>3, <2>1, <3>1, <3>2 DEF On
  <2>3. f \in FilesOf(db'.pending_retry)
    BY <2>1, <2>2 DEF FilesOf
  <2>4. ~Deletes(ops', "pending_retry", f)
    BY <1>1, <1>6 DEF Deletes
  <2> QED
    BY <1>1, <1>6, <2>3, <2>4 DEF Waits
<1> QED
  BY <1>4, <1>5, <1>6 DEF Waits

LEMMA FreshPerform ==
  ASSUME SpaceInv, CommitInv, FreshInv, PerformNext
  PROVE  FreshInv'
<1>1. PICK s : Done(s)
  BY DoneIs
<1>2. /\ UNCHANGED <<disk, events, rescan, pc, job, st, buf, skipped, cancel, used>>
      /\ ops # <<>> /\ ToSet(ops) = {s} \cup ToSet(ops') /\ s \in ToSet(ops)
      /\ \A t, u : Precedes(ops', t, u) => Precedes(ops, t, u)
      /\ PhaseStmt(s) /\ StmtOK(s) /\ Shape(s)
  BY <1>1 DEF Done
<1>3. FreshStmt(s) /\ pc # "idle"
  BY <1>2 DEF FreshInv, FreshStmts, SpaceInv, SpacePhase
<1>4. Metas' \subseteq Metas
      /\ \A m \in Metas : m \in Metas' \/ (On(s, "file_meta") /\ s.op = "delete" /\ m.file \in s.files)
  BY <1>1, DoneMetas
<1>5. Affected' = Affected
  BY <1>2 DEF Affected
<1>6. FreshTypes' /\ FreshDeletes'
  BY <1>2, <1>4 DEF FreshInv, FreshTypes, FreshDeletes, Reads, Later
<1>7. FreshStmts'
  <2>1. \A t \in ToSet(ops') : FreshStmt(t)'
    BY <1>2 DEF FreshInv, FreshStmts, FreshStmt, On
  <2>2. \A t, u : Precedes(ops', t, u) => RetryOrder(t, u)'
    BY <1>2 DEF FreshInv, FreshStmts, RetryOrder, On
  <2> QED
    BY <2>1, <2>2 DEF FreshStmts
<1>8. FreshMarks'
  <2>1. Marker' = IF Sets(s, "identity") THEN s.rows["identity"] ELSE Marker
    BY <1>1 DEF Done, MetaKeys, Marker
  <2>2. CASE pc = "begin" /\ job.mode = "incr"
    <3>1. Sets(s, "identity") => s.rows["identity"] = None
      BY <1>2, <2>2 DEF Sets, StmtOK
    <3>2. s = IncrClear => Sets(s, "identity")
      BY MetaFields DEF IncrClear, Sets
    <3> QED
      BY <1>2, <2>1, <2>2, <3>1, <3>2 DEF FreshInv, FreshMarks
  <2>3. CASE pc = "stream"
    <3>1. ~Sets(s, "identity")
      BY <1>3, <2>3 DEF FreshStmt, Sets
    <3> QED
      BY <1>2, <2>1, <2>3, <3>1 DEF FreshInv, FreshMarks
  <2> QED
    BY <1>2, <2>2, <2>3 DEF FreshMarks
<1>9. ASSUME NEW f \in Files, Promise(f) PROVE Promise(f)'
  <2>1. (Later(f)' <=> Later(f)) /\ (Planned(f)' <=> Planned(f)) /\ (InStream(f)' <=> InStream(f))
    BY <1>2, <1>5 DEF Later, Planned, InStream, Reads
  <2>2. Waits(f) => Waits(f)'
    BY <1>1, PerformRetries
  <2>3. Current(f) /\ ~Planned(f) => Current(f)'
    <3>1. ASSUME NEW m \in Metas, m.file = f, m \notin Metas' PROVE Planned(f)
      <4>1. On(s, "file_meta") /\ s.op = "delete" /\ f \in s.files
        BY <1>4, <3>1
      <4>2. pc = "begin" \/ pc = "commit"
        BY <1>2, <4>1 DEF PhaseStmt, On, RowTables
      <4>3. CASE pc = "begin"
        <5>1. s.files = Affected
          BY <1>2, <4>1, <4>3 DEF PhaseStmt
        <5> QED
          BY <4>1, <4>3, <5>1 DEF Planned
      <4>4. CASE pc = "commit"
        <5>1. job.mode = "incr" /\ s.files = job.delete
          BY <1>3, <4>1, <4>4 DEF FreshStmt
        <5>2. m.file \notin job.delete
          BY <3>1, <4>4, <5>1 DEF FreshInv, FreshDeletes
        <5> QED
          BY <3>1, <4>1, <5>1, <5>2
      <4> QED
        BY <4>2, <4>3, <4>4
    <3> QED
      BY <1>2, <1>4, <3>1 DEF Current
  <2>4. (Planned(f) /\ (f \in job.process \/ disk[f] = Absent))' <=>
            Planned(f) /\ (f \in job.process \/ disk[f] = Absent)
    BY <1>2, <2>1
  <2>5. (InStream(f) /\ (st[f].at = "todo" \/ st[f].stamp = disk[f]))' <=>
            InStream(f) /\ (st[f].at = "todo" \/ st[f].stamp = disk[f])
    BY <1>2, <2>1
  <2> QED
    BY <1>9, <2>1, <2>2, <2>3, <2>4, <2>5 DEF Promise
<1>10. FreshKept'
  BY <1>2, <1>3, <1>9 DEF FreshInv, FreshKept, CallsForRepair
<1> QED
  BY <1>6, <1>7, <1>8, <1>10 DEF FreshInv

LEMMA FreshStep ==
  ASSUME SpaceInv, CommitInv, CommitInv', FreshInv, LossTypes,
         [Next /\ ~RebuildDropped]_vars, ClearsSeen'
  PROVE  FreshInv'
<1>1. CASE Trigger \/ TakeRebuild
  <2>1. CASE TakeRescan
    BY <2>1, FreshStart DEF TakeRescan
  <2>2. CASE TakeWatcherBatch
    BY <2>2, FreshStart DEF TakeWatcherBatch
  <2>3. CASE TakeRebuild
    <3>1. used'.soft = used.soft
      BY <2>3 DEF TakeRebuild
    <3> QED
      BY <2>3, <3>1, FreshStart DEF TakeRebuild
  <2> QED
    BY <1>1, <2>1, <2>2, <2>3 DEF Trigger
<1>2. CASE RunStep /\ ~RebuildDropped
  <2>1. ASSUME NEW f \in Files, StatFile(f) \/ ReadAndEmbed(f) \/ StoreFile(f) PROVE FreshInv'
    BY <2>1, FreshReading, FreshStore
  <2> QED
    BY <1>2, <2>1, FreshPerform, FreshBegin, FreshStartStream, FreshEnds, FreshFlush,
       FreshCommitRows, FreshPhase2, FreshSucceeds DEF RunStep
<1>3. CASE Fault /\ ~RebuildDropped
  <2>1. ASSUME NEW f \in Files, TransientSkip(f) \/ FatalEmbed(f) PROVE FreshInv'
    BY <2>1, FreshReading
  <2> QED
    BY <1>3, <2>1, LossStep, FreshEnds, FreshSoftFails, FreshLost DEF Fault
<1>4. CASE Environment
  BY <1>1, <1>4, FreshEdit, FreshAround DEF Environment
<1>5. CASE UNCHANGED vars
  BY <1>5, FreshAround
<1> QED
  BY <1>1, <1>2, <1>3, <1>4, <1>5 DEF Next

LEMMA FreshIs ==
  ASSUME SpaceInv, CommitInv, FreshInv, used.soft = 0
  PROVE  QuiescentFresh
<1> SUFFICES ASSUME Quiescent, Stored # {}, NEW f \in Files
             PROVE  StampOf(f) = disk[f] \/ f \in FilesOf(db.pending_retry)
  BY DEF QuiescentFresh
<1>1. /\ pc = "idle" /\ events = {} /\ ~rescan /\ ~db.index_meta.needs_rebuild
      /\ Marker # None
  BY PipelineAssumption DEF Quiescent, Marker, CommitInv, CommitTypes
<1>2. Promise(f)
  BY <1>1 DEF FreshInv, FreshKept, CallsForRepair
<1>3. Metas = db.file_meta /\ Issued("pending_retry") = {} /\ skipped.retry = {}
      /\ FilesOf({}) = {}
  BY <1>1, AtRest DEF FreshInv, FreshTypes, FilesOf
<1>4. Current(f) \/ Waits(f)
  BY <1>1, <1>2 DEF Promise, Later, Planned, InStream
<1>5. Waits(f) => f \in FilesOf(db.pending_retry)
  BY <1>3 DEF Waits
<1>6. ASSUME NEW m \in db.file_meta, m.file = f, m.stamp = disk[f] PROVE StampOf(f) = disk[f]
  <2>1. f \in Stored /\ \A r \in db.file_meta : r.file = f => r = m
    BY <1>6 DEF CommitInv, CommitTypes, Stored, FilesOf
  <2> QED
    BY <1>6, <2>1 DEF StampOf
<1>7. disk[f] = Absent /\ (\A m \in db.file_meta : m.file # f) => StampOf(f) = disk[f]
  BY DEF StampOf, Stored, FilesOf
<1> QED
  BY <1>3, <1>4, <1>5, <1>6, <1>7 DEF Current

\* No change is forgotten: once no run is active and nothing is queued, every file is
\* indexed at the version on disk or waits in the retry queue, unless the markers make
\* the next run walk or rebuild - however the runs before it crashed, failed or were
\* cancelled, as long as no rebuild was dropped before it began, no write whose
\* result the code ignores has failed and no clear of a marker has failed unseen.
THEOREM ChangesKept == FreshSpec => [](used.soft = 0 => QuiescentFresh)
<1> DEFINE Inv == LossTypes /\ (ClearsSeen => SpaceInv /\ CommitInv /\ FreshInv)
<1>1. Init => Inv
  BY SpaceInit, CommitInit, FreshInit, LossInit
<1>2. Inv /\ [Next /\ ~RebuildDropped]_vars => Inv'
  <2>1. [Next /\ ~RebuildDropped]_vars => [Next]_vars
    OBVIOUS
  <2> QED
    BY <2>1, SpaceStep, CommitStep, FreshStep, LossStep
<1>3. Inv => (used.soft = 0 => QuiescentFresh)
  BY FreshIs DEF QuiescentFresh
<1> QED
  BY <1>1, <1>2, <1>3, PTL DEF FreshSpec

=============================================================================
