-------------------------- MODULE CallGraphProofs ---------------------------
(***************************************************************************)
(* Lemmas about the resolution of call edges: which target a raw edge has  *)
(* before and after an edit, and that re-resolving the blast radius of an  *)
(* edit gives what a full pass gives.                                      *)
(***************************************************************************)
EXTENDS CallGraph, FiniteSetTheorems, TLAPS

-----------------------------------------------------------------------------
(* The first candidate in bucket order                                     *)

\* Rows with a position: what the bucket order compares.
Placed(S) == \A s \in S : s.file \in Nat /\ s.line \in Nat

\* A set of numbers has a least element.
LEMMA LeastNumber ==
    ASSUME NEW T, T \subseteq Nat, T # {}
    PROVE  \E x \in T : \A y \in T : x <= y
<1> DEFINE below == {0..x : x \in T}
<1>1. below \subseteq FiniteSubsetsOf(Nat) /\ below # {}
  <2>1. ASSUME NEW x \in T PROVE 0..x \in FiniteSubsetsOf(Nat)
    <3>1. IsFiniteSet(0..x)
      BY FS_Interval
    <3> QED
      BY <3>1 DEF FiniteSubsetsOf
  <2> QED
    BY <2>1
<1>2. PICK i \in below : \A j \in below : ~(<<j, i>> \in StrictSubsetOrdering(Nat))
  <2> HIDE DEF below
  <2> QED
    BY <1>1, FS_StrictSubsetOrderingWellFounded, WFMin
<1>3. PICK x \in T : i = 0..x
  BY <1>2
<1>4. ASSUME NEW y \in T PROVE x <= y
  <2>1. ~(<<0..y, 0..x>> \in StrictSubsetOrdering(Nat))
    BY <1>2, <1>3
  <2>2. SUFFICES ASSUME y < x PROVE FALSE
    OBVIOUS
  <2>3. 0..y \subseteq 0..x /\ x \in 0..x /\ x \notin 0..y
    BY <2>2
  <2> QED
    BY <2>1, <2>3 DEF StrictSubsetOrdering
<1> QED
  BY <1>4

\* A non-empty bucket has a first candidate.
LEMMA FirstExists ==
    ASSUME NEW S, Placed(S), S # {}
    PROVE  FirstOf(S) \in S /\ \A b \in S : Before(FirstOf(S), b)
<1> DEFINE fs == {s.file : s \in S}
<1>1. PICK f \in fs : \A g \in fs : f <= g
  <2>1. fs \subseteq Nat /\ fs # {}
    BY DEF Placed
  <2> QED
    BY <2>1, LeastNumber
<1> DEFINE T == {s \in S : s.file = f}
<1> DEFINE ls == {s.line : s \in T}
<1>2. PICK l \in ls : \A k \in ls : l <= k
  <2>1. ls \subseteq Nat /\ ls # {}
    BY DEF Placed
  <2> QED
    BY <2>1, LeastNumber
<1>3. PICK a \in T : a.line = l
  OBVIOUS
<1>4. ASSUME NEW b \in S PROVE Before(a, b)
  <2>1. a.file = f /\ a.file \in Nat /\ b.file \in Nat /\ f <= b.file
    BY <1>1, <1>3 DEF Placed
  <2>2. CASE b.file = f
    <3>1. b.line \in ls
      BY <2>2
    <3> QED
      BY <1>2, <1>3, <2>1, <2>2, <3>1 DEF Before
  <2>3. CASE b.file # f
    BY <2>1, <2>3 DEF Before
  <2> QED
    BY <2>2, <2>3
<1>5. \E x \in S : \A b \in S : Before(x, b)
  BY <1>3, <1>4
<1> QED
  BY <1>5 DEF FirstOf

-----------------------------------------------------------------------------
(* The choice of a target, before and after an edit                        *)

\* Rows of one symbol, in two parses of its file.
Same(a, x) == a.file = x.file /\ a.name = x.name /\ a.fqn = x.fqn

\* Two rows of one name never share a place.
Apart(S) == \A a, b \in S : a.name = b.name /\ Before(a, b) /\ Before(b, a) => a = b

\* Two tables that order the symbols they share in the same way.
Ordered(old, new) ==
    /\ Placed(old) /\ Placed(new) /\ Apart(old) /\ Apart(new)
    /\ \A a, b \in old, x, y \in new :
          Same(a, x) /\ Same(b, y) /\ a.name = b.name /\ Before(a, b) => Before(x, y)

\* Nothing is added to a bucket of one name, and all candidates of the file of
\* t stay.
Kept(O, N, t) ==
    /\ \A a, b \in O : a.name = b.name
    /\ \A x \in N : \E a \in O : Same(a, x)
    /\ \A a \in O : a.file = t.file => \E x \in N : Same(a, x)

\* The candidates of some files.
Among(S, files) == {c \in S : c.file \in files}

\* The first candidate among some files stays the first.
LEMMA FirstKept ==
    ASSUME NEW O, NEW N, NEW F, Ordered(O, N),
           Among(O, F) # {}, Kept(O, N, FirstOf(Among(O, F)))
    PROVE  /\ FirstOf(Among(O, F)) \in Among(O, F)
           /\ FirstOf(Among(N, F)) \in Among(N, F)
           /\ Same(FirstOf(Among(O, F)), FirstOf(Among(N, F)))
<1> DEFINE S == Among(O, F)  M == Among(N, F)  t == FirstOf(S)
<1>1. Placed(S) /\ Placed(M)
  BY DEF Ordered, Placed, Among
<1>2. t \in S /\ \A b \in S : Before(t, b)
  BY <1>1, FirstExists
<1>3. PICK x \in N : Same(t, x)
  BY <1>2 DEF Kept, Among
<1>4. x \in M
  BY <1>2, <1>3 DEF Same, Among
<1>5. ASSUME NEW y \in M PROVE Before(x, y)
  <2>1. PICK b \in O : Same(b, y)
    BY DEF Kept, Among
  <2>2. b \in S /\ t \in O /\ y \in N
    BY <1>2, <2>1 DEF Same, Among
  <2>3. Before(t, b) /\ t.name = b.name
    BY <1>2, <2>2 DEF Kept
  <2> QED
    BY <1>3, <2>1, <2>2, <2>3 DEF Ordered
<1>6. FirstOf(M) \in M /\ \A y \in M : Before(FirstOf(M), y)
  BY <1>1, <1>4, FirstExists
<1>7. FirstOf(M) = x
  <2>1. FirstOf(M) \in N /\ Before(x, FirstOf(M)) /\ Before(FirstOf(M), x)
    BY <1>4, <1>5, <1>6 DEF Among
  <2>2. PICK b \in O : Same(b, FirstOf(M))
    BY <2>1 DEF Kept
  <2>3. FirstOf(M).name = x.name
    <3>1. t \in O
      BY <1>2 DEF Among
    <3> QED
      BY <1>3, <2>2, <3>1 DEF Kept, Same
  <2> QED
    BY <2>1, <2>3 DEF Ordered, Apart
<1> QED
  BY <1>2, <1>3, <1>6, <1>7

\* The same with hand-written candidates first.
LEMMA PreferKept ==
    ASSUME NEW O, NEW N, NEW F, Ordered(O, N),
           Among(O, F) # {}, Kept(O, N, prefer_non_generated(Among(O, F)))
    PROVE  /\ prefer_non_generated(Among(O, F)) \in Among(O, F)
           /\ prefer_non_generated(Among(N, F)) \in Among(N, F)
           /\ Same(prefer_non_generated(Among(O, F)), prefer_non_generated(Among(N, F)))
<1> DEFINE G == {f \in F : f \notin Generated}
<1>1. ASSUME NEW S
      PROVE  prefer_non_generated(Among(S, F)) =
                 FirstOf(IF Among(S, G) # {} THEN Among(S, G) ELSE Among(S, F))
  <2>1. {c \in Among(S, F) : c.file \notin Generated} = Among(S, G)
    BY DEF Among
  <2> QED
    BY <2>1 DEF prefer_non_generated
<1>2. Among(O, G) \subseteq Among(O, F) /\ Among(N, G) \subseteq Among(N, F)
  BY DEF Among
<1>3. CASE Among(O, G) # {}
  <2>1. prefer_non_generated(Among(O, F)) = FirstOf(Among(O, G))
    BY <1>1, <1>3
  <2>2. /\ FirstOf(Among(O, G)) \in Among(O, G)
        /\ FirstOf(Among(N, G)) \in Among(N, G)
        /\ Same(FirstOf(Among(O, G)), FirstOf(Among(N, G)))
    <3> HIDE DEF G
    <3> QED
      BY <1>3, <2>1, FirstKept
  <2>3. prefer_non_generated(Among(N, F)) = FirstOf(Among(N, G))
    BY <1>1, <2>2
  <2> QED
    BY <1>2, <2>1, <2>2, <2>3
<1>4. CASE Among(O, G) = {}
  <2>1. prefer_non_generated(Among(O, F)) = FirstOf(Among(O, F))
    BY <1>1, <1>4
  <2>2. Among(N, G) = {}
    <3>1. ASSUME NEW y \in Among(N, G) PROVE FALSE
      <4>1. PICK b \in O : Same(b, y)
        BY DEF Kept, Among
      <4>2. b \in Among(O, G)
        BY <4>1 DEF Same, Among
      <4> QED
        BY <1>4, <4>2
    <3> QED
      BY <3>1
  <2>3. prefer_non_generated(Among(N, F)) = FirstOf(Among(N, F))
    BY <1>1, <2>2
  <2> QED
    BY <2>1, <2>3, FirstKept
<1> QED
  BY <1>3, <1>4

\* The probes of an edge that hit a candidate's file.
Hits(S, e) == {i \in DOMAIN e.probes : \E c \in S : c.file = e.probes[i]}

\* The imported file is that of the first probe that hits.
LEMMA ImportedIs ==
    ASSUME NEW S, NEW e, e.probes \in Seq(Nat)
    PROVE  /\ Hits(S, e) = {} => ImportedFile(S, e) = {}
           /\ Hits(S, e) # {} =>
                 \E i \in Hits(S, e) : /\ \A j \in Hits(S, e) : i <= j
                                       /\ ImportedFile(S, e) = {e.probes[i]}
           /\ \A i \in Hits(S, e) : (\A j \in Hits(S, e) : i <= j) =>
                 ImportedFile(S, e) = {e.probes[i]}
<1>1. Hits(S, e) \subseteq Nat
  BY DEF Hits
<1>2. ImportedFile(S, e) = IF Hits(S, e) = {} THEN {}
          ELSE {e.probes[CHOOSE i \in Hits(S, e) : \A j \in Hits(S, e) : i <= j]}
  BY DEF ImportedFile, Hits
<1>3. ASSUME NEW i \in Hits(S, e), \A j \in Hits(S, e) : i <= j
      PROVE  ImportedFile(S, e) = {e.probes[i]}
  <2> DEFINE h == Hits(S, e)
             k == CHOOSE k \in h : \A j \in h : k <= j
  <2>1. k \in h /\ \A j \in h : k <= j
    BY <1>3
  <2>2. k = i
    <3>1. k <= i /\ i <= k /\ k \in Nat /\ i \in Nat
      BY <1>1, <1>3, <2>1
    <3> QED
      BY <3>1
  <2> QED
    BY <1>2, <2>2
<1>4. Hits(S, e) # {} => \E i \in Hits(S, e) : \A j \in Hits(S, e) : i <= j
  BY <1>1, LeastNumber
<1> QED
  BY <1>2, <1>3, <1>4

\* select_best_candidate by the files of each level.
LEMMA SelectIs ==
    ASSUME NEW S, NEW e
    PROVE  select_best_candidate(S, e) =
             IF Among(S, ImportedFile(S, e)) # {}
             THEN prefer_non_generated(Among(S, ImportedFile(S, e)))
             ELSE IF Among(S, e.near) # {} THEN prefer_non_generated(Among(S, e.near))
             ELSE IF Among(S, {e.file}) # {} THEN FirstOf(Among(S, {e.file}))
             ELSE prefer_non_generated(S)
BY DEF select_best_candidate, Among

\* The choice at all levels: if nothing is added to the bucket and the file of the
\* chosen target keeps its candidates, the target stays.
LEMMA SelectKept ==
    ASSUME NEW O, NEW N, NEW e, e.probes \in Seq(Nat), Ordered(O, N), O # {},
           Kept(O, N, select_best_candidate(O, e))
    PROVE  /\ select_best_candidate(O, e) \in O
           /\ select_best_candidate(N, e) \in N
           /\ Same(select_best_candidate(O, e), select_best_candidate(N, e))
<1> DEFINE t == select_best_candidate(O, e)
<1>1. ASSUME NEW F, Among(O, F) = {} PROVE Among(N, F) = {}
  <2>1. ASSUME NEW y \in Among(N, F) PROVE FALSE
    <3>1. PICK b \in O : Same(b, y)
      BY DEF Kept, Among
    <3> QED
      BY <1>1, <3>1 DEF Same, Among
  <2> QED
    BY <2>1
<1>2. \A F : Among(O, F) \subseteq O /\ Among(N, F) \subseteq N
  BY DEF Among
<1>3. Hits(N, e) \subseteq Hits(O, e)
  BY DEF Hits, Kept, Same
<1>4. CASE Hits(O, e) # {}
  <2>1. PICK i \in Hits(O, e) : /\ \A j \in Hits(O, e) : i <= j
                                /\ ImportedFile(O, e) = {e.probes[i]}
    BY <1>4, ImportedIs
  <2> DEFINE F == {e.probes[i]}
  <2>2. Among(O, F) # {}
    BY DEF Hits, Among
  <2>3. t = prefer_non_generated(Among(O, F))
    BY <2>1, <2>2, SelectIs
  <2>4. /\ t \in Among(O, F)
        /\ prefer_non_generated(Among(N, F)) \in Among(N, F)
        /\ Same(t, prefer_non_generated(Among(N, F)))
    <3> HIDE DEF F
    <3> QED
      BY <2>2, <2>3, PreferKept
  <2>5. i \in Hits(N, e)
    BY <2>4 DEF Hits, Among
  <2>6. ImportedFile(N, e) = F
    BY <1>3, <2>1, <2>5, ImportedIs
  <2>7. select_best_candidate(N, e) = prefer_non_generated(Among(N, F))
    BY <2>4, <2>6, SelectIs
  <2> QED
    BY <1>2, <2>4, <2>7
<1>5. CASE Hits(O, e) = {}
  <2>1. ImportedFile(O, e) = {} /\ ImportedFile(N, e) = {}
    BY <1>3, <1>5, ImportedIs
  <2>2. Among(O, ImportedFile(O, e)) = {} /\ Among(N, ImportedFile(N, e)) = {}
    BY <2>1 DEF Among
  <2>3. CASE Among(O, e.near) # {}
    <3>1. t = prefer_non_generated(Among(O, e.near))
      BY <2>2, <2>3, SelectIs
    <3>2. /\ t \in Among(O, e.near)
          /\ prefer_non_generated(Among(N, e.near)) \in Among(N, e.near)
          /\ Same(t, prefer_non_generated(Among(N, e.near)))
      BY <2>3, <3>1, PreferKept
    <3>3. select_best_candidate(N, e) = prefer_non_generated(Among(N, e.near))
      BY <2>2, <3>2, SelectIs
    <3> QED
      BY <1>2, <3>2, <3>3
  <2>4. CASE Among(O, e.near) = {} /\ Among(O, {e.file}) # {}
    <3>1. t = FirstOf(Among(O, {e.file}))
      BY <2>2, <2>4, SelectIs
    <3>2. /\ t \in Among(O, {e.file})
          /\ FirstOf(Among(N, {e.file})) \in Among(N, {e.file})
          /\ Same(t, FirstOf(Among(N, {e.file})))
      BY <2>4, <3>1, FirstKept
    <3>3. Among(N, e.near) = {}
      BY <1>1, <2>4
    <3>4. select_best_candidate(N, e) = FirstOf(Among(N, {e.file}))
      BY <2>2, <3>2, <3>3, SelectIs
    <3> QED
      BY <1>2, <3>2, <3>4
  <2>5. CASE Among(O, e.near) = {} /\ Among(O, {e.file}) = {}
    <3> DEFINE F == {c.file : c \in O}
    <3>1. Among(O, F) = O /\ Among(N, F) = N
      BY DEF Among, Kept, Same
    <3>2. Among(N, e.near) = {} /\ Among(N, {e.file}) = {}
      BY <1>1, <2>5
    <3>3. t = prefer_non_generated(O) /\ select_best_candidate(N, e) = prefer_non_generated(N)
      BY <2>2, <2>5, <3>2, SelectIs
    <3> HIDE DEF F
    <3>4. Among(O, F) # {} /\ Kept(O, N, prefer_non_generated(Among(O, F)))
      BY <3>1, <3>3
    <3>5. /\ prefer_non_generated(Among(O, F)) \in Among(O, F)
          /\ prefer_non_generated(Among(N, F)) \in Among(N, F)
          /\ Same(prefer_non_generated(Among(O, F)), prefer_non_generated(Among(N, F)))
      BY <3>4, PreferKept
    <3> QED
      BY <3>1, <3>3, <3>5
  <2> QED
    BY <2>3, <2>4, <2>5
<1> QED
  BY <1>4, <1>5

-----------------------------------------------------------------------------
(* The scoped pass                                                         *)

\* Tables before and after the rows of the modified and deleted files were
\* replaced.
Edited(old, new, raw, newRaw, modified, deleted) ==
    /\ Ordered(old, new)
    /\ \A s \in old : s.file \notin modified \cup deleted => s \in new
    /\ \A s \in new : /\ s.file \notin modified => s \in old
                      /\ s.file \notin deleted
    /\ \A e \in raw : e.file \notin modified \cup deleted => e \in newRaw
    /\ \A e \in newRaw : e.file \notin modified \cup deleted => e \in raw
    /\ \A e \in raw : e.probes \in Seq(Nat)

\* The files an incremental run resolves again, when the graph was complete.
Scope(old, new, raw, newRaw, modified, deleted) ==
    build_resolve_set(newRaw, modified \cup deleted,
        dir1_callers(resolve_raw_edges(old, raw),
                     removed_surface_files(old, new, modified, deleted),
                     modified \cup deleted),
        added_names(old, new, modified))

\* The row of an edge.
RowOf(symbols, e) ==
    [file |-> e.file, name |-> e.name,
     to_file |-> select_best_candidate(Candidates(symbols, e.name), e).file,
     to |-> select_best_candidate(Candidates(symbols, e.name), e).fqn]

LEMMA ResolveIs ==
    ASSUME NEW symbols, NEW edges
    PROVE  resolve_raw_edges(symbols, edges) =
             {RowOf(symbols, e) : e \in {x \in edges : Candidates(symbols, x.name) # {}}}
BY DEF resolve_raw_edges, RowOf

\* An edge outside the resolve set has the row it had.
LEMMA RowKept ==
    ASSUME NEW old, NEW new, NEW raw, NEW newRaw, NEW modified, NEW deleted,
           Edited(old, new, raw, newRaw, modified, deleted),
           NEW e \in raw, e \in newRaw,
           e.file \notin Scope(old, new, raw, newRaw, modified, deleted)
    PROVE  /\ Candidates(old, e.name) # {} <=> Candidates(new, e.name) # {}
           /\ Candidates(old, e.name) # {} => RowOf(old, e) = RowOf(new, e)
<1> DEFINE O == Candidates(old, e.name)  N == Candidates(new, e.name)
           removed == removed_surface_files(old, new, modified, deleted)
           t == select_best_candidate(O, e)
<1>1. e.file \notin modified \cup deleted /\ e.name \notin added_names(old, new, modified)
  BY DEF Scope, build_resolve_set
<1>2. Ordered(O, N)
  BY DEF Edited, Ordered, Placed, Apart, Candidates
<1>3. \A a, b \in O : a.name = b.name
  BY DEF Candidates
<1>4. ASSUME NEW x \in N PROVE \E a \in O : Same(a, x)
  <2>1. x \in new /\ x.name = e.name
    BY DEF Candidates
  <2>2. CASE x.file \notin modified
    <3>1. x \in O
      BY <2>1, <2>2 DEF Edited, Candidates
    <3> QED
      BY <3>1 DEF Same
  <2>3. CASE x.file \in modified
    <3>1. <<x.name, x.fqn>> \in Surface(new, x.file)
      BY <2>1 DEF Surface
    <3>2. <<x.name, x.fqn>> \in Surface(old, x.file)
      <4>1. SUFFICES ASSUME <<x.name, x.fqn>> \notin Surface(old, x.file) PROVE FALSE
        OBVIOUS
      <4>2. x.name \in added_names(old, new, modified)
        <5> DEFINE p == <<x.name, x.fqn>>
        <5>1. p \in UNION {Surface(new, f) \ Surface(old, f) : f \in modified}
          BY <2>3, <3>1, <4>1
        <5>2. p[1] = x.name
          OBVIOUS
        <5> HIDE DEF p
        <5> QED
          BY <5>1, <5>2 DEF added_names
      <4> QED
        BY <1>1, <2>1, <4>2
    <3>3. PICK a \in old : a.file = x.file /\ <<a.name, a.fqn>> = <<x.name, x.fqn>>
      BY <3>2 DEF Surface
    <3> QED
      BY <2>1, <3>3 DEF Candidates, Same
  <2> QED
    BY <2>2, <2>3
<1>5. ASSUME O # {}, NEW a \in O, a.file = t.file PROVE \E x \in N : Same(a, x)
  <2>1. RowOf(old, e) \in resolve_raw_edges(old, raw)
    BY <1>5, ResolveIs
  <2>2. RowOf(old, e).file = e.file /\ RowOf(old, e).to_file = t.file
    BY DEF RowOf
  <2>3. t.file \notin removed
    <3>1. SUFFICES ASSUME t.file \in removed PROVE FALSE
      OBVIOUS
    <3>2. e.file \in dir1_callers(resolve_raw_edges(old, raw), removed, modified \cup deleted)
      <4> HIDE DEF removed, t
      <4> QED
        BY <1>1, <2>1, <2>2, <3>1 DEF dir1_callers
    <3> QED
      BY <3>2 DEF Scope, build_resolve_set
  <2>4. a \in old /\ a.name = e.name /\ a.file \notin deleted
    BY <1>5, <2>3 DEF Candidates, removed_surface_files
  <2>5. CASE a.file \notin modified
    <3>1. a \in N
      BY <2>4, <2>5 DEF Edited, Candidates
    <3> QED
      BY <3>1 DEF Same
  <2>6. CASE a.file \in modified
    <3>1. Surface(old, a.file) \subseteq Surface(new, a.file)
      BY <1>5, <2>3, <2>6 DEF removed_surface_files
    <3>2. <<a.name, a.fqn>> \in Surface(new, a.file)
      BY <2>4, <3>1 DEF Surface
    <3>3. PICK x \in new : x.file = a.file /\ <<x.name, x.fqn>> = <<a.name, a.fqn>>
      BY <3>2 DEF Surface
    <3> QED
      BY <2>4, <3>3 DEF Candidates, Same
  <2> QED
    BY <2>5, <2>6
<1>6. CASE O = {}
  BY <1>4, <1>6
<1>7. CASE O # {}
  <2>1. Kept(O, N, t)
    BY <1>3, <1>4, <1>5, <1>7 DEF Kept
  <2>2. e.probes \in Seq(Nat)
    BY DEF Edited
  <2>3. t \in O /\ select_best_candidate(N, e) \in N /\ Same(t, select_best_candidate(N, e))
    <3> HIDE DEF O, N
    <3> QED
      BY <1>2, <1>7, <2>1, <2>2, SelectKept
  <2> QED
    BY <1>7, <2>3 DEF RowOf, Same
<1> QED
  BY <1>6, <1>7

\* Re-resolving the blast radius of an edit turns the full call graph of the old
\* tables into that of the new ones.
LEMMA ScopedIsFull ==
    ASSUME NEW old, NEW new, NEW raw, NEW newRaw, NEW modified, NEW deleted,
           Edited(old, new, raw, newRaw, modified, deleted)
    PROVE  reresolve_files(resolve_raw_edges(old, raw), new, newRaw,
                           Scope(old, new, raw, newRaw, modified, deleted))
           = resolve_raw_edges(new, newRaw)
<1> DEFINE calls0 == resolve_raw_edges(old, raw)
           rs == Scope(old, new, raw, newRaw, modified, deleted)
<1>1. modified \cup deleted \subseteq rs
  BY DEF Scope, build_resolve_set
<1>2. ASSUME NEW e, e.file \notin rs PROVE e \in raw <=> e \in newRaw
  BY <1>1, <1>2 DEF Edited
<1>3. ASSUME NEW e \in raw, e \in newRaw, e.file \notin rs
      PROVE  /\ Candidates(old, e.name) # {} <=> Candidates(new, e.name) # {}
             /\ Candidates(old, e.name) # {} => RowOf(old, e) = RowOf(new, e)
  BY <1>3, RowKept
<1>4. \A symbols, e : RowOf(symbols, e).file = e.file
  BY DEF RowOf
<1> HIDE DEF rs
<1>5. ASSUME NEW c \in calls0, c.file \notin rs PROVE c \in resolve_raw_edges(new, newRaw)
  <2>1. PICK e \in raw : Candidates(old, e.name) # {} /\ c = RowOf(old, e)
    BY ResolveIs
  <2>2. e.file \notin rs
    BY <1>4, <1>5, <2>1
  <2>3. e \in newRaw /\ Candidates(new, e.name) # {} /\ c = RowOf(new, e)
    BY <1>2, <1>3, <2>1, <2>2
  <2> QED
    BY <2>3, ResolveIs
<1>6. ASSUME NEW c \in resolve_raw_edges(new, newRaw), c.file \notin rs PROVE c \in calls0
  <2>1. PICK e \in newRaw : Candidates(new, e.name) # {} /\ c = RowOf(new, e)
    BY ResolveIs
  <2>2. e.file \notin rs
    BY <1>4, <1>6, <2>1
  <2>3. e \in raw /\ Candidates(old, e.name) # {} /\ c = RowOf(old, e)
    BY <1>2, <1>3, <2>1, <2>2
  <2> QED
    BY <2>3, ResolveIs
<1>7. resolve_raw_edges(new, {e \in newRaw : e.file \in rs})
        = {c \in resolve_raw_edges(new, newRaw) : c.file \in rs}
  <2> DEFINE scoped == {e \in newRaw : e.file \in rs}
  <2>1. resolve_raw_edges(new, scoped) =
            {RowOf(new, e) : e \in {x \in scoped : Candidates(new, x.name) # {}}}
    BY ResolveIs
  <2>2. resolve_raw_edges(new, newRaw) =
            {RowOf(new, e) : e \in {x \in newRaw : Candidates(new, x.name) # {}}}
    BY ResolveIs
  <2>3. ASSUME NEW c \in resolve_raw_edges(new, scoped)
        PROVE  c \in resolve_raw_edges(new, newRaw) /\ c.file \in rs
    BY <1>4, <2>1, <2>2
  <2>4. ASSUME NEW c \in resolve_raw_edges(new, newRaw), c.file \in rs
        PROVE  c \in resolve_raw_edges(new, scoped)
    <3>1. PICK e \in newRaw : Candidates(new, e.name) # {} /\ c = RowOf(new, e)
      BY <2>2
    <3>2. e \in scoped
      BY <1>4, <2>4, <3>1
    <3> QED
      BY <2>1, <3>1, <3>2
  <2> QED
    BY <2>3, <2>4
<1>8. reresolve_files(calls0, new, newRaw, rs) = resolve_raw_edges(new, newRaw)
  BY <1>5, <1>6, <1>7 DEF reresolve_files
<1> QED
  BY <1>8 DEF rs
=============================================================================
