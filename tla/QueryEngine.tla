---------------------------- MODULE QueryEngine -----------------------------
(***************************************************************************)
(* One retrieval query (src/query/engine.rs, scope_fallback.rs,            *)
(* content_fence.rs, graph_expand.rs, filters.rs) against an index that an *)
(* index run and the user's editor change between any two of its awaits:   *)
(* embed, scan the vectors, hydrate the hits from the chunk rows, expand   *)
(* along the call graph, merge, read the lines from disk, fetch the caller *)
(* statistics, rerank, format; and the code/docs fallbacks around it.      *)
(*                                                                         *)
(* A chunk is a model value with a class; its relevance is its place in    *)
(* the sequence Ranking.  Scores, texts and timings are left out.          *)
(***************************************************************************)
EXTENDS Integers, Sequences, FiniteSets, SequencesExt, Positions

CONSTANTS
    Ranking,     \* the chunks of the repository, best vector score first
    DocChunks,   \* the chunks of files with a docs extension
    Calls,       \* pairs of chunks <<a, b>>: b's symbol calls or is called by a's
    Filters,     \* filters: what kind:, lang: and path: let through, and what name:
                 \* matches exactly and within the edit distance
    top_k,
    MaxWorld     \* bound of the model: changes of the index and the disk

QChunks == ToSet(Ranking)

ASSUME QueryConstants ==
    /\ Ranking \in Seq(QChunks)
    /\ DocChunks \subseteq QChunks /\ Calls \subseteq QChunks \X QChunks
    /\ Filters \subseteq [through : SUBSET QChunks, exact : SUBSET QChunks,
                          fuzzy : SUBSET QChunks]
    /\ top_k \in Nat \ {0} /\ MaxWorld \in Nat

Class(c) == IF c \in DocChunks THEN "docs" ELSE "code"
opposite(s) == IF s = "code" THEN "docs" ELSE "code"

VARIABLES
    row,       \* chunks with a durable row
    disk,      \* chunks -> "code", "blank" (only white space) or "gone" lines
    shard,     \* the chunks of the repository's vector shard
    resident,  \* the shard is in memory
    world,     \* changes so far
    request,   \* its scope or "none", filter, graph mode, reranker
    qstep,     \* the next await of the query
    qpass,     \* 1, or 2 for the retry after a rejection
    qscope,    \* the class being scanned
    fell,      \* the scan fell back to the other class
    cands,     \* candidates still to hydrate
    base,      \* hydrated candidates <<chunk, content>>: from its row or the disk
    dropped,   \* candidates the fence dropped in this scan
    warming,
    merged,    \* the same with those a call led to (<<chunk, "call">>), merged
    numbered,  \* per merged chunk: its lines on disk were read
    stats,     \* per merged chunk: the chunk the statistics are about, or "none"
    first,     \* the result of pass 1
    scans,     \* the classes scanned so far, in order
    lost,      \* chunks some scan dropped
    qanswer    \* the QueryResult handed out

worldvars == <<row, disk, shard, resident, world>>
passvars == <<qscope, fell, cands, base, dropped, warming, merged, numbered, stats>>
qvars == <<worldvars, passvars, request, qstep, qpass, first, scans, lost, qanswer>>

Reranks == {"Off", "NoKey", "Llm", "Jev", "Agentic"}
NoResult == [results |-> <<>>, scope |-> "none", fallback |-> FALSE,
             warming |-> FALSE, rejected |-> FALSE, graph_pending |-> FALSE]

(***************************************************************************)
(* parse_query: of the scope: words typed into the text the first counts,  *)
(* and a scope given as a tool parameter overrides it.                     *)
(***************************************************************************)
Scopes == {"code", "docs"}
parse_query_filters(typed) == IF typed = <<>> THEN "none" ELSE Head(typed)
parse_query(typed, external) ==
    IF external # "none" THEN external ELSE parse_query_filters(typed)

QInit ==
    /\ row = QChunks /\ shard = QChunks /\ resident \in BOOLEAN
    /\ disk = [c \in QChunks |-> "code"] /\ world = 0
    /\ \E typed \in BoundedSeq(Scopes, 2), external \in Scopes \cup {"none"} :
         request \in [scope : {parse_query(typed, external)}, filter : Filters,
                 full : BOOLEAN, reranker : Reranks]
    /\ qstep = "embed" /\ qpass = 1 /\ qscope = request.scope /\ fell = FALSE
    /\ cands = <<>> /\ base = <<>> /\ dropped = 0 /\ warming = FALSE
    /\ merged = <<>> /\ numbered = <<>> /\ stats = <<>>
    /\ first = NoResult /\ scans = <<>> /\ lost = {} /\ qanswer = NoResult

------------------------------------------------------------------------------
(***************************************************************************)
(* The surroundings: an index run removes and rewrites rows before it      *)
(* publishes the shard; files are edited and deleted; a shard is evicted.  *)
(***************************************************************************)
World ==
    /\ world < MaxWorld /\ world' = world + 1
    /\ \/ \E c \in row : row' = row \ {c} /\ UNCHANGED <<disk, shard, resident>>
       \/ \E c \in QChunks \ row : row' = row \cup {c} /\ UNCHANGED <<disk, shard, resident>>
       \/ shard' = row /\ UNCHANGED <<row, disk, resident>>
       \/ resident' = ~resident /\ UNCHANGED <<row, disk, shard>>
       \/ \E c \in QChunks, d \in {"code", "blank", "gone"} :
            disk' = [disk EXCEPT ![c] = d] /\ UNCHANGED <<row, shard, resident>>
    /\ UNCHANGED <<passvars, request, qstep, qpass, first, scans, lost, qanswer>>

------------------------------------------------------------------------------
\* Hand out a result: the caller's, or that of pass 1.
Answer(r) == qstep' = "answered" /\ qanswer' = r

(***************************************************************************)
(* retry_on_rerank_rejection: pass 1 honours the request; only a scoped    *)
(* answer that is empty because everything was rejected, that did not fall *)
(* back and is not warming, is tried once in the other class.  A retry     *)
(* that fails or finds nothing leaves the first answer in place.           *)
(***************************************************************************)
RetriesAfterFallback(r) ==  \* mutant
    qpass = 1 /\ r.scope # "none" /\ ~r.warming /\ r.rejected

RetryDue(r) ==
    qpass = 1 /\ r.scope # "none" /\ ~r.fallback /\ ~r.warming /\ r.rejected

PassEnds(r) ==
    \/ /\ RetryDue(r)
       /\ first' = r /\ qpass' = 2 /\ qscope' = opposite(r.scope) /\ fell' = FALSE
       /\ qstep' = "embed"
       /\ UNCHANGED qanswer
    \/ /\ qpass = 1 /\ ~RetryDue(r)
       /\ Answer(r)
       /\ UNCHANGED <<first, qpass, qscope, fell>>
    \/ /\ qpass = 2
       /\ Answer(IF r.results = <<>> THEN first
                 ELSE [r EXCEPT !.scope = qscope, !.fallback = TRUE])
       /\ UNCHANGED <<first, qpass, qscope, fell>>

\* The embedding call; an empty vector is an error as well.
embed_query ==
    /\ qstep = "embed" /\ qstep' = "search"
    /\ UNCHANGED <<worldvars, passvars, request, qpass, first, scans, lost, qanswer>>

EmbedFails ==
    /\ qstep = "embed"
    /\ IF qpass = 2 THEN Answer(first) ELSE Answer([NoResult EXCEPT !.scope = "error"])
    /\ UNCHANGED <<worldvars, passvars, request, qpass, first, scans, lost>>

------------------------------------------------------------------------------
(***************************************************************************)
(* One scan of one class: the class is pushed into the vector scan, which  *)
(* returns the best 2 * top_k.  A shard that is still cold when the        *)
(* bounded wait is over yields nothing, and says so.                       *)
(***************************************************************************)
InScope(c) == qscope = "none" \/ Class(c) = qscope

TopHits == LET at == {i \in DOMAIN Ranking : Ranking[i] \in shard /\ InScope(Ranking[i])}
               hits == Picked(Ranking, at)
           IN  SubSeq(hits, 1, IF Len(hits) > 2 * top_k THEN 2 * top_k ELSE Len(hits))

vector_search ==
    /\ qstep = "search" /\ qstep' = "hydrate"
    /\ \/ resident' = TRUE /\ cands' = TopHits /\ warming' = FALSE
       \/ ~resident /\ resident' = resident /\ cands' = <<>> /\ warming' = TRUE
    /\ base' = <<>> /\ dropped' = 0
    /\ scans' = Append(scans, qscope)
    /\ UNCHANGED <<row, disk, shard, world, qscope, fell, merged, numbered, stats,
                   request, qpass, first, lost, qanswer>>

(***************************************************************************)
(* hydrate_candidates, one database read per candidate: its row, else its  *)
(* lines on disk; what resolves to nothing is dropped by the fence.        *)
(***************************************************************************)
ContentOf(c) ==
    IF c \in row THEN "row" ELSE IF disk[c] = "code" THEN "disk" ELSE ""

hydrate_candidates ==
    /\ qstep = "hydrate" /\ cands # <<>>
    /\ LET c == Head(cands) IN
         /\ base' = IF ContentOf(c) = "" THEN base ELSE Append(base, <<c, ContentOf(c)>>)
         /\ dropped' = dropped + (IF ContentOf(c) = "" THEN 1 ELSE 0)
         /\ lost' = IF ContentOf(c) = "" THEN lost \cup {c} ELSE lost
    /\ cands' = Tail(cands)
    /\ UNCHANGED <<worldvars, qscope, fell, warming, merged, numbered, stats, request, qstep,
                   qpass, first, scans, qanswer>>

(***************************************************************************)
(* The end of a scan: a dropped candidate means an index run is under way, *)
(* so the answer is marked; then the kind, language, path and name filters *)
(* narrow what is left.                                                    *)
(***************************************************************************)
Narrowed(set) ==
    LET through == set \cap request.filter.through
        exact == through \cap request.filter.exact
    IN  IF exact # {} THEN exact ELSE through \cap request.filter.fuzzy

Base == {base[i][1] : i \in DOMAIN base}
apply_query_filters == Picked(base, {i \in DOMAIN base : base[i][1] \in Narrowed(Base)})
GatherWarms == warming \/ dropped > 0

(***************************************************************************)
(* gather_with_fallback: an empty first scan of a scoped request that is   *)
(* not warming is repeated in the other class, once, and not in a retry.   *)
(* If that is empty too, the requested class is reported, with the warming *)
(* flag of the second scan.                                                *)
(***************************************************************************)
FallsBackWarming(empty) ==  \* mutant
    empty /\ qscope # "none" /\ qpass = 1 /\ ~fell

FallbackDue(empty) ==
    empty /\ qscope # "none" /\ qpass = 1 /\ ~fell /\ ~GatherWarms

EmptyAnswer(scope, warms) ==
    [results |-> <<>>, scope |-> scope, fallback |-> FALSE,
     warming |-> warms, rejected |-> FALSE, graph_pending |-> ~request.full]

ScanDone == qstep = "hydrate" /\ cands = <<>>

GatherFallsBack ==
    /\ ScanDone /\ FallbackDue(apply_query_filters = <<>>)
    /\ qstep' = "search" /\ qscope' = opposite(qscope) /\ fell' = TRUE
    /\ UNCHANGED <<worldvars, cands, base, dropped, warming, merged, numbered, stats, request,
                   qpass, first, scans, lost, qanswer>>

GatherEmpty ==
    /\ ScanDone /\ apply_query_filters = <<>> /\ ~FallbackDue(TRUE)
    /\ PassEnds(EmptyAnswer(IF fell THEN opposite(qscope) ELSE qscope, GatherWarms))
    /\ UNCHANGED <<worldvars, cands, base, dropped, warming, merged, numbered, stats, request,
                   scans, lost>>

GatherServes ==
    /\ ScanDone /\ apply_query_filters # <<>>
    /\ base' = apply_query_filters /\ warming' = GatherWarms
    /\ qstep' = "expand"
    /\ UNCHANGED <<worldvars, qscope, fell, cands, dropped, merged, numbered, stats, request,
                   qpass, first, scans, lost, qanswer>>

------------------------------------------------------------------------------
(***************************************************************************)
(* graph_expand, weighted_merge and the cap: with the call graph usable,   *)
(* chunks at most MAX_DEPTH = 2 calls away join the pool behind the base   *)
(* chunks, each with the content of its row.  The second call is followed  *)
(* only from a chunk that the first one added.  Which of the calls are     *)
(* followed depends on scores, on caps and on reads that may fail.         *)
(* Neither the filters nor the class scanned apply to what is found.       *)
(***************************************************************************)
\* Chunks with a row one call away from a chunk of the set.
Neighbours(set) == {c \in row : \E b \in set : <<b, c>> \in Calls}

\* The sets that an expansion of `set` may come up with.
Reachable(set) == LET near == Neighbours(set) \ set
                  IN  IF request.full THEN near \cup (Neighbours(near) \ set) ELSE {}
Expansions(set) == {found \in SUBSET Reachable(set) :
                      found \subseteq Neighbours(set) \cup Neighbours(found \cap Neighbours(set))}

graph_expand ==
    /\ qstep = "expand" /\ qstep' = "read"
    /\ \E found \in Expansions(Base) :
         LET rows == [i \in DOMAIN Ranking |-> <<Ranking[i], "call">>]
             all == base \o Picked(rows, {i \in DOMAIN Ranking : Ranking[i] \in found})
         IN  merged' = SubSeq(all, 1, IF Len(all) > top_k THEN top_k ELSE Len(all))
    /\ numbered' = <<>>
    /\ UNCHANGED <<worldvars, qscope, fell, cands, base, dropped, warming, stats, request, qpass,
                   first, scans, lost, qanswer>>

\* The lines are read once per candidate; a file without them falls back to
\* the stored content.  Numbered lines are never empty, whatever they hold.
read_lines_from_fs ==
    /\ qstep = "read" /\ Len(numbered) < Len(merged)
    /\ numbered' = Append(numbered, disk[merged[Len(numbered) + 1][1]] # "gone")
    /\ UNCHANGED <<worldvars, qscope, fell, cands, base, dropped, warming, merged, stats, request,
                   qstep, qpass, first, scans, lost, qanswer>>

\* Aligned with the candidates; a row or a query that fails has none, and
\* without the call graph nothing is read.
fetch_caller_stats_batch ==
    /\ qstep = "read" /\ Len(numbered) = Len(merged)
    /\ qstep' = "rerank"
    /\ stats' = [i \in DOMAIN merged |->
                   IF request.full /\ merged[i][1] \in row THEN merged[i][1] ELSE "none"]
    /\ UNCHANGED <<worldvars, qscope, fell, cands, base, dropped, warming, merged, numbered,
                   request, qpass, first, scans, lost, qanswer>>

------------------------------------------------------------------------------
(***************************************************************************)
(* What a reranker may return: indices into the pool, in its order.  It    *)
(* degrades to the candidates' order; only a reply it really gave may      *)
(* reject everything.  The agentic pool goes on behind the candidates with *)
(* the sub-queries' chunks: hits of the class served that pass the         *)
(* filters, and what the call graph adds to them.                          *)
(***************************************************************************)
SubQuery ==
    LET hits == Narrowed({c \in row \cap shard : InScope(c)})
    IN  {<<c, "row">> : c \in hits} \cup {<<c, "call">> : c \in Reachable(hits)}
Pools == IF request.reranker = "Agentic"
         THEN {merged} \cup {Append(merged, h) : h \in SubQuery}
         ELSE {merged}

Orders(n) == UNION {{s \in [1..k -> 1..n] : IsInjective(s)} : k \in 0..n}
InOrder(n) == [i \in 1..n |-> i]

Degraded == [order |-> InOrder(Len(merged)), skip |-> TRUE]
parse_rerank_response(n) == {Degraded} \cup [order : Orders(n), skip : {FALSE}]
JevOutputs(n) == {Degraded} \cup [order : {o \in Orders(n) : Len(o) = n}, skip : {FALSE}]

RerankOutputs(p) ==
    CASE request.reranker \in {"Off", "NoKey"} -> {Degraded}
      [] request.reranker = "Jev" -> JevOutputs(Len(p))
      [] OTHER -> parse_rerank_response(Len(p))

\* What the formatter puts into a result for the k-th of the order.
StatsByPosition(out, k) == IF k \in DOMAIN stats THEN stats[k] ELSE "none"  \* mutant

StatsFor(out, k) == IF out.order[k] \in DOMAIN stats THEN stats[out.order[k]] ELSE "none"

Formatted(p, out) ==
    [k \in DOMAIN out.order |->
       LET i == out.order[k] IN
       [chunk |-> p[i][1], called |-> p[i][2] = "call", stats |-> StatsFor(out, k),
        content |-> IF i \in DOMAIN numbered /\ numbered[i] THEN "numbered" ELSE p[i][2]]]

rerank ==
    /\ qstep = "rerank"
    /\ \E p \in Pools : \E out \in RerankOutputs(p) :
         LET found == Formatted(p, out)
             kept == Picked(found, {k \in DOMAIN found : found[k].content # ""})
         IN  PassEnds([results |-> kept, scope |-> qscope, fallback |-> fell,
                       warming |-> warming \/ Len(kept) # Len(found),
                       rejected |-> kept = <<>> /\ ~out.skip,
                       graph_pending |-> ~request.full])
    /\ UNCHANGED <<worldvars, cands, base, dropped, warming, merged, numbered, stats, request,
                   scans, lost>>

QNext ==
    \/ World \/ embed_query \/ EmbedFails
    \/ vector_search \/ hydrate_candidates
    \/ GatherFallsBack \/ GatherEmpty \/ GatherServes
    \/ graph_expand \/ read_lines_from_fs \/ fetch_caller_stats_batch \/ rerank

QSpec == QInit /\ [][QNext]_qvars

------------------------------------------------------------------------------
Answered == qstep = "answered" /\ qanswer.scope # "error"

(***************************************************************************)
(* "No results" is a verdict: an empty answer that is not marked warming   *)
(* lost no candidate of its class to a running index, in any of its scans, *)
(* and for a scoped request the other class was tried as well.             *)
(***************************************************************************)
EmptyIsVerdict ==
    Answered /\ qanswer.results = <<>> /\ ~qanswer.warming =>
      /\ qpass = 1 => lost = {}
      /\ qpass = 2 => \A c \in lost : Class(c) # qanswer.scope
      /\ request.scope # "none" =>
           (qpass = 2 \/ scans = <<request.scope, opposite(request.scope)>>)

(***************************************************************************)
(* A class is never scanned twice for one request: the two fallbacks       *)
(* cannot bounce the query between the classes.                            *)
(***************************************************************************)
NoPingPong == IsInjective(scans) /\ Len(scans) <= 2

(***************************************************************************)
(* What an empty search means (run_query_with_filters, scope_fallback): an *)
(* empty answer is a verdict, and finding it scans a class at most once.   *)
(***************************************************************************)
EmptySearchSound == EmptyIsVerdict /\ NoPingPong

(***************************************************************************)
(* The answer says what it is: the class it names differs from the class   *)
(* asked for exactly when it is flagged; its results are of that class, but*)
(* for those the call graph led to, which may be of the other one; there   *)
(* are none of these in an answer that says the call graph is pending; and *)
(* each result carries the statistics of its own chunk.                    *)
(***************************************************************************)
AnswerIsWhatItSays ==
    Answered =>
      /\ qanswer.scope = "none" <=> request.scope = "none"
      /\ qanswer.scope # "none" => (qanswer.fallback <=> qanswer.scope # request.scope)
      /\ \A k \in DOMAIN qanswer.results :
           LET r == qanswer.results[k] IN
           /\ qanswer.scope # "none" /\ ~r.called => Class(r.chunk) = qanswer.scope
           /\ r.called => ~qanswer.graph_pending
           /\ r.stats \in {"none", r.chunk}

(***************************************************************************)
(* "so the agent cannot pull in candidates the owner filtered out"         *)
(* (engine.rs:819), and "results are narrowed by the filter predicates"    *)
(* (filters.rs:7): not the chunks the call graph adds.                     *)
(***************************************************************************)
FiltersHold ==
    Answered => \A k \in DOMAIN qanswer.results : qanswer.results[k].chunk \in request.filter.through
=============================================================================
