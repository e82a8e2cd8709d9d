---------------------------- MODULE QueryService ----------------------------
(***************************************************************************)
(* What a retrieval request goes through before and after the query itself *)
(* (src/mcp.rs, mcp/readiness.rs, mcp/query_gate.rs, mcp/progress.rs,      *)
(* router/mcp_proxy.rs and the handlers of server.rs): which repository it *)
(* is about, whether that repository's index may be queried, waiting for   *)
(* the run that owns it, loading its vectors, and the answer.  Requests    *)
(* interleave with the index runs, with other senders of triggers and with *)
(* each other; every await of a request is a step.  Time is counted in     *)
(* poll intervals.                                                         *)
(***************************************************************************)
EXTENDS Integers, Sequences, FiniteSets, SequencesExt, FiniteSetsExt

CONSTANTS
    Requests,
    Workspaces,         \* paths that are directories
    MainRoot,           \* linked worktrees -> the main checkout's path
    mcp_index_wait,     \* Settings::mcp_index_wait_secs, in poll intervals
    TriggerCapacity,    \* slots of the index engine's trigger channel
    sub_query_budget,   \* the agent's own searches in one pass (agentic_rag_max_turns)
    MaxRuns             \* bound of the model: index runs

ASSUME ServiceConstants ==
    /\ mcp_index_wait \in Nat /\ TriggerCapacity \in Nat \ {0} /\ MaxRuns \in Nat
    /\ sub_query_budget \in Nat
    /\ MainRoot \in [DOMAIN MainRoot -> Workspaces] /\ DOMAIN MainRoot \subseteq Workspaces

VARIABLES
    idx,        \* per workspace, its index: see NeverIndexed
    statuses,   \* workspaces with an entry in the engine's status map
    channel,    \* triggers sent and not yet received
    pending,    \* workspaces the consumer has a run to start for
    runs,       \* runs started so far
    memRepos,   \* Settings.repos in memory
    diskRepos,  \* Settings.repos in settings.json
    rq,         \* per request, where it stands
    built       \* history: workspaces whose index was ever published

indexvars == <<idx, statuses, pending, runs, built>>
svars == <<indexvars, channel, memRepos, diskRepos, rq>>

\* run: Idle, Scan, Publish (inside the fence), ResolveEdges or Error; fenced
\* outlives a run that failed inside; snap: a snapshot or a persisted shard.
NeverIndexed == [run |-> "Idle", fenced |-> FALSE, chunks |-> FALSE, stamp |-> "none",
                 marker |-> FALSE, live |-> FALSE, snap |-> FALSE]
Indexed(stamp) == [NeverIndexed EXCEPT !.chunks = TRUE, !.stamp = stamp,
                                       !.marker = TRUE, !.snap = TRUE]
\* A run of this process failed inside the fence.
Broken(stamp, chunks) == [NeverIndexed EXCEPT !.run = "Error", !.fenced = TRUE, !.stamp = stamp,
                                             !.chunks = chunks, !.snap = stamp # "none"]

\* waited and warmed: intervals waited for the run and in this scan; scans: the
\* scans of this attempt; subs: the agent's searches of this pass, sub while one
\* is under way; part: the candidates are not all there are.
NewRequest == [surface |-> "mcp", path |-> "", pc |-> "new", repo |-> "", note |-> FALSE,
               chunks |-> FALSE, stamp |-> "none", status |-> "none", plan |-> "none",
               budget |-> 0, warm |-> 0, full |-> FALSE, banner |-> "", tries |-> 1,
               waited |-> 0, warmed |-> 0, scans |-> 0, pass |-> "requested", subs |-> 0,
               sub |-> FALSE, part |-> FALSE, beating |-> FALSE, answer |-> ""]

SInit ==
    /\ idx \in [Workspaces -> {NeverIndexed}
                  \cup {Indexed(s) : s \in {"none", "recent", "old"}}
                  \cup {Broken(s, c) : s \in {"none", "recent"}, c \in BOOLEAN}]
    /\ \A w \in DOMAIN MainRoot : idx[w] = NeverIndexed
    /\ memRepos \in {S \in SUBSET (Workspaces \ DOMAIN MainRoot) : 
                       \A w \in Workspaces : idx[w] # NeverIndexed => w \in S}
    /\ diskRepos = memRepos /\ statuses = memRepos
    /\ channel = <<>> /\ pending = {} /\ runs = 0
    /\ rq = [r \in Requests |-> NewRequest]
    /\ built = {w \in Workspaces : idx[w].snap}

------------------------------------------------------------------------------
(***************************************************************************)
(* The index runs, as far as a request can tell them apart.  A run that    *)
(* fails inside the fence leaves the fence set.                            *)
(***************************************************************************)
\* The watcher, the UI or the boot catch-up asks for a run of a known repository.
OtherTrigger(w) ==
    /\ w \in statuses /\ Len(channel) < TriggerCapacity /\ runs < MaxRuns
    /\ channel' = Append(channel, w)
    /\ UNCHANGED <<indexvars, memRepos, diskRepos, rq>>

Consume ==
    /\ channel # <<>>
    /\ pending' = pending \cup {Head(channel)} /\ channel' = Tail(channel)
    /\ UNCHANGED <<idx, statuses, runs, built, memRepos, diskRepos, rq>>

RunStarts(w) ==
    /\ w \in pending /\ runs < MaxRuns /\ idx[w].run \in {"Idle", "Error"}
    /\ runs' = runs + 1 /\ pending' = pending \ {w} /\ statuses' = statuses \cup {w}
    /\ idx' = [idx EXCEPT ![w].run = "Scan"]
    /\ UNCHANGED <<channel, built, memRepos, diskRepos, rq>>

\* Nothing changed: straight to the call edges; or the fence goes up.
RunMoves(w) ==
    /\ \/ /\ idx[w].run = "Scan" /\ idx[w].marker /\ ~idx[w].fenced
          /\ idx' = [idx EXCEPT ![w].run = "ResolveEdges"]
          /\ UNCHANGED built
       \/ /\ idx[w].run = "Scan"
          /\ idx' = [idx EXCEPT ![w] = [@ EXCEPT !.run = "Publish", !.fenced = TRUE,
                       !.live = FALSE, !.snap = idx[w].snap \/ idx[w].live, !.marker = FALSE]]
          /\ UNCHANGED built
       \/ /\ idx[w].run = "Publish"
          /\ \E resident \in BOOLEAN :
               idx' = [idx EXCEPT ![w] = [@ EXCEPT !.run = "ResolveEdges", !.fenced = FALSE,
                         !.chunks = TRUE, !.marker = TRUE, !.live = resident]]
          /\ built' = built \cup {w}
       \/ /\ idx[w].run = "ResolveEdges"
          /\ idx' = [idx EXCEPT ![w] = [@ EXCEPT !.run = "Idle", !.stamp = "recent"]]
          /\ UNCHANGED built
    /\ UNCHANGED <<statuses, channel, pending, runs, memRepos, diskRepos, rq>>

RunFails(w) ==
    /\ idx[w].run \notin {"Idle", "Error"}
    /\ \E left \in IF idx[w].fenced THEN BOOLEAN ELSE {idx[w].chunks} :
         idx' = [idx EXCEPT ![w].run = "Error", ![w].chunks = left]
    /\ UNCHANGED <<statuses, channel, pending, runs, built, memRepos, diskRepos, rq>>

\* Another repository's warm pushes this one's shard out of memory.
Evict(w) ==
    /\ idx[w].live
    /\ idx' = [idx EXCEPT ![w].live = FALSE]
    /\ UNCHANGED <<statuses, channel, pending, runs, built, memRepos, diskRepos, rq>>

------------------------------------------------------------------------------
Rest(r) == rq[r].surface = "query"
Set(r, e) == rq' = [rq EXCEPT ![r] = e]
\* A pass that has not looked for anything yet.
Afresh(q) == [q EXCEPT !.warm = 0, !.warmed = 0, !.scans = 0, !.pass = "requested",
                       !.subs = 0, !.sub = FALSE, !.part = FALSE]
Reply(r, a) == Set(r, [Afresh(rq[r]) EXCEPT !.pc = "done", !.answer = a, !.beating = FALSE,
                                            !.plan = "none", !.budget = 0])
At(r, pc) == rq[r].pc = pc
StatusOf(w) == IF w \in statuses THEN idx[w].run ELSE "none"

(***************************************************************************)
(* linked_worktree_main_root: a path whose .git is a file naming another   *)
(* checkout stands for that checkout.  The MCP surfaces (the global and    *)
(* the per-repository handler, POST /api/mcp-tool and the router's proxy)  *)
(* resolve it before anything else; POST /api/query does not.              *)
(***************************************************************************)
linked_worktree_main_root(p) == p \in DOMAIN MainRoot
KeepsWorktree(p) == p  \* mutant
resolve_worktree(p) == IF linked_worktree_main_root(p) THEN MainRoot[p] ELSE p

\* The router forwards a tool call to the worker of the resolved path; a worker
\* that cannot be reached is an error text.
ProxyCall(r, p) ==
    /\ At(r, "new")
    /\ IF p = "" THEN Reply(r, "required")
       ELSE \/ Set(r, [rq[r] EXCEPT !.surface = "mcp", !.path = resolve_worktree(p),
                                    !.note = linked_worktree_main_root(p),
                                    !.pc = "received", !.beating = TRUE])
            \/ Reply(r, "unreachable")
    /\ UNCHANGED <<indexvars, channel, memRepos, diskRepos>>

\* The tool handlers of a worker: both wrap the funnel in the heartbeat.
CallTool(r, p) ==
    /\ At(r, "new")
    /\ Set(r, [rq[r] EXCEPT !.path = p, !.pc = "received", !.beating = TRUE])
    /\ UNCHANGED <<indexvars, channel, memRepos, diskRepos>>

post_mcp_tool(r, p) ==
    /\ At(r, "new")
    /\ Set(r, [rq[r] EXCEPT !.path = p, !.pc = "received"])
    /\ UNCHANGED <<indexvars, channel, memRepos, diskRepos>>

\* POST /api/query: no repositories, no keys and no path are client errors.
post_query(r, p) ==
    /\ At(r, "new")
    /\ IF memRepos = {} \/ p = "" THEN Reply(r, "400")
       ELSE Set(r, [rq[r] EXCEPT !.surface = "query", !.path = p, !.repo = p, !.pc = "open"])
    /\ UNCHANGED <<indexvars, channel, memRepos, diskRepos>>

(***************************************************************************)
(* run_codebase_retrieval: the redirect, then a workspace the settings     *)
(* snapshot does not list is registered - on disk if it is a directory and *)
(* the file can be written, and with the engine.                           *)
(***************************************************************************)
run_codebase_retrieval(r) ==
    /\ At(r, "received")
    /\ Set(r, [rq[r] EXCEPT !.repo = resolve_worktree(rq[r].path), !.pc = "resolved", !.path = "",
                            !.note = @ \/ linked_worktree_main_root(rq[r].path)])
    /\ UNCHANGED <<indexvars, channel, memRepos, diskRepos>>

AutoRegister(r) ==
    /\ At(r, "resolved")
    /\ LET w == rq[r].repo IN
       IF w = "" THEN Reply(r, "required") /\ UNCHANGED <<diskRepos, statuses>>
       ELSE IF w \in memRepos
       THEN Set(r, [rq[r] EXCEPT !.pc = "open"]) /\ UNCHANGED <<diskRepos, statuses>>
       ELSE IF w \notin Workspaces
       THEN Reply(r, "not a directory") /\ UNCHANGED <<diskRepos, statuses>>
       ELSE /\ diskRepos' \in {diskRepos, diskRepos \cup {w}}
            /\ statuses' = statuses \cup {w}
            /\ Set(r, [rq[r] EXCEPT !.pc = "open"])
    /\ UNCHANGED <<idx, pending, runs, built, channel, memRepos>>

------------------------------------------------------------------------------
(***************************************************************************)
(* await_index_ready: the handle, the chunk count, the stamp, the status   *)
(* and the fence are read one after another; a read that fails counts as   *)
(* nothing there.                                                          *)
(***************************************************************************)
Plan(r, plan, warm) ==
    Set(r, [rq[r] EXCEPT !.pc = "gate", !.plan = plan, !.warm = warm])

NoEmbeddingKeys(r) ==
    /\ At(r, "open")
    /\ Reply(r, "no_keys")
    /\ UNCHANGED <<indexvars, channel, memRepos, diskRepos>>

OpenIndex(r) ==
    /\ At(r, "open")
    /\ \/ Set(r, [rq[r] EXCEPT !.pc = "count"])
       \/ Plan(r, "Failed", 0)
    /\ UNCHANGED <<indexvars, channel, memRepos, diskRepos>>

ReadCount(r) ==
    /\ At(r, "count")
    /\ \E read \in BOOLEAN : Set(r, [rq[r] EXCEPT !.pc = "stamp",
         !.chunks = read /\ rq[r].repo \in Workspaces /\ idx[rq[r].repo].chunks])
    /\ UNCHANGED <<indexvars, channel, memRepos, diskRepos>>

ReadStamp(r) ==
    /\ At(r, "stamp")
    /\ \E read \in BOOLEAN : Set(r, [rq[r] EXCEPT !.pc = "status",
         !.stamp = IF read /\ rq[r].repo \in Workspaces THEN idx[rq[r].repo].stamp ELSE "none"])
    /\ UNCHANGED <<indexvars, channel, memRepos, diskRepos>>

\* The call-graph fast path comes before the freshness policy.
is_resolve_edges_status(s) == s = "ResolveEdges"
ReadStatus(r) ==
    /\ At(r, "status")
    /\ LET s == StatusOf(rq[r].repo) IN
       IF is_resolve_edges_status(s) THEN Plan(r, "VectorOnly", mcp_index_wait)
       ELSE Set(r, [rq[r] EXCEPT !.pc = "decide", !.status = s])
    /\ UNCHANGED <<indexvars, channel, memRepos, diskRepos>>

\* evaluate: what the four facts allow.
Owned(q) == q.status \in {"Scan", "Publish"}
evaluate(q, fenced) ==
    LET withheld == fenced \/ ~q.chunks
        recent == q.stamp = "recent"
    IN  IF ~withheld /\ q.stamp # "old"
        THEN [plan |-> "ServeExisting", trigger |-> q.stamp = "none" /\ ~Owned(q)]
        ELSE IF recent /\ withheld THEN [plan |-> "ServeStale", trigger |-> ~Owned(q)]
        ELSE IF Owned(q) THEN [plan |-> "WaitForRun", trigger |-> FALSE]
        ELSE [plan |-> "TriggerThenWait", trigger |-> TRUE]

Decide(r) ==
    /\ At(r, "decide")
    /\ LET w == rq[r].repo
           v == evaluate(rq[r], w \in Workspaces /\ idx[w].fenced)
       IN Set(r, [rq[r] EXCEPT !.plan = v.plan, !.pc = IF v.trigger THEN "trigger" ELSE "act",
                               !.chunks = FALSE, !.stamp = "none", !.status = "none"])
    /\ UNCHANGED <<indexvars, channel, memRepos, diskRepos>>

\* trigger_index waits for a free slot of the channel, whose receiver lives as
\* long as the engine.
SendTrigger(r) ==
    /\ At(r, "trigger") /\ Len(channel) < TriggerCapacity
    /\ channel' = IF rq[r].repo \in Workspaces THEN Append(channel, rq[r].repo) ELSE channel
    /\ Set(r, [rq[r] EXCEPT !.pc = "act"])
    /\ UNCHANGED <<indexvars, memRepos, diskRepos>>

requires_wait(plan) == plan \in {"WaitForRun", "TriggerThenWait"}
Act(r) ==
    /\ At(r, "act")
    /\ IF requires_wait(rq[r].plan)
       THEN Set(r, [rq[r] EXCEPT !.pc = "poll", !.budget = mcp_index_wait])
       ELSE Plan(r, IF rq[r].plan = "ServeStale" THEN "Stale" ELSE "Ready", mcp_index_wait)
    /\ UNCHANGED <<indexvars, channel, memRepos, diskRepos>>

(***************************************************************************)
(* wait_for_run: sleep one interval, look at the status, and give up at    *)
(* the deadline; what is left of the budget is what a scan may warm for.   *)
(***************************************************************************)
NoDeadline(q, s) ==  \* mutant
    CASE is_resolve_edges_status(s) -> "VectorOnly"
      [] s = "Idle"  -> "Ready"
      [] s = "Error" -> "Failed"
      [] OTHER       -> "poll"

poll_outcome(q, s) ==
    CASE is_resolve_edges_status(s) -> "VectorOnly"
      [] s = "Idle"  -> "Ready"
      [] s = "Error" -> "Failed"
      [] s \in {"Scan", "Publish", "none"} /\ q.budget <= 1 -> "Timeout"
      [] OTHER       -> "poll"

FullBudget(q) == mcp_index_wait  \* mutant
budget_left(q) == IF q.budget = 0 THEN 0 ELSE q.budget - 1

wait_for_run(r) ==
    /\ At(r, "poll")
    /\ LET o == poll_outcome(rq[r], StatusOf(rq[r].repo))
           slept == [rq[r] EXCEPT !.waited = Min({@ + 1, mcp_index_wait + 2})]
       IN  Set(r, IF o = "poll" THEN [slept EXCEPT !.budget = budget_left(rq[r])]
                  ELSE [slept EXCEPT !.pc = "gate", !.plan = o, !.warm = budget_left(rq[r])])
    /\ UNCHANGED <<indexvars, channel, memRepos, diskRepos>>

(***************************************************************************)
(* rest_gate and query_with: the graph mode and the banner of a plan, or   *)
(* the degraded answer of a plan that cannot be queried.  Every scan of the *)
(* query gets the whole rest of the budget.                                *)
(***************************************************************************)
Scan(q) == [q EXCEPT !.pc = "search", !.scans = @ + 1, !.warmed = 0]

rest_gate(r) ==
    LET p == rq[r].plan IN
    CASE p = "Timeout" -> Reply(r, "503 warming")
      [] p = "Failed"  -> Reply(r, "502 failed")
      [] OTHER -> Set(r, Scan([rq[r] EXCEPT !.full = p = "Ready",
                                 !.banner = IF p = "Ready" THEN "" ELSE "graph_pending"]))

query_with(r) ==
    LET p == rq[r].plan IN
    CASE p = "Timeout" -> Reply(r, "still_indexing")
      [] p = "Failed"  -> Reply(r, "index_failed")
      [] OTHER -> Set(r, Scan([rq[r] EXCEPT !.full = p = "Ready",
                                 !.banner = CASE p = "Ready" -> ""
                                              [] p = "Stale" -> "stale"
                                              [] OTHER -> "graph_pending"]))

Gate(r) ==
    /\ At(r, "gate")
    /\ IF Rest(r) THEN rest_gate(r) ELSE query_with(r)
    /\ UNCHANGED <<indexvars, channel, memRepos, diskRepos>>

------------------------------------------------------------------------------
(***************************************************************************)
(* The query, as far as the service sees it.  An attempt is one pass over  *)
(* the requested class or one over the other class when that scan found    *)
(* nothing, and a second pass when the rerank rejected every candidate; an *)
(* agent searches again while it reranks.  A client that cannot be built   *)
(* and an embedding that fails are error texts (502 on the REST surface);  *)
(* in the second pass the first answer stands, and an agent's search is    *)
(* answered with the error.                                                *)
(***************************************************************************)
IgnoresWarming(warm, rejected) ==  \* mutant
    IF rejected THEN "rejected" ELSE "no_results"
select_empty_or_warming_message(warm, rejected) ==
    IF warm THEN "warming_retry" ELSE IF rejected THEN "rejected" ELSE "no_results"

\* How an attempt ends: an answer, or a second attempt of a warming MCP query.
do_query(r, found, warm, rejected) ==
    IF found THEN Reply(r, IF warm THEN "partial_results" ELSE "results")
    ELSE IF warm /\ ~Rest(r) /\ rq[r].tries = 1
    THEN Set(r, [Afresh(rq[r]) EXCEPT !.pc = "poll", !.tries = 2, !.waited = 0,
                                      !.budget = mcp_index_wait])
    ELSE Reply(r, IF Rest(r) THEN IF warm THEN "warming" ELSE "no_results"
                  ELSE select_empty_or_warming_message(warm, rejected))

\* A scan ends.  A scoped request that found nothing looks at the other class
\* once, unless its index was warming or this is the second pass.
gather_with_fallback(r, found, warm) ==
    LET q == rq[r] IN
    \/ q.sub /\ Set(r, [q EXCEPT !.pc = "rerank", !.sub = FALSE, !.warmed = 0])
    \/ ~q.sub /\ found /\ Set(r, [q EXCEPT !.pc = "rerank", !.part = warm, !.warmed = 0])
    \/ ~q.sub /\ ~found /\ q.pass = "retry" /\ do_query(r, FALSE, FALSE, TRUE)
    \/ ~q.sub /\ ~found /\ q.pass # "retry" /\ do_query(r, FALSE, warm, FALSE)
    \/ ~q.sub /\ ~found /\ q.pass = "requested" /\ ~warm
         /\ Set(r, Scan([q EXCEPT !.pass = "fallback"]))

Hit(r) == \E found, warm \in BOOLEAN : gather_with_fallback(r, found, warm)

\* Rows that vanished since the scan make an answer partial or warming; a scoped
\* request whose candidates were all rejected is tried in the other class once.
rerank_candidates(r) ==
    /\ At(r, "rerank")
    /\ LET q == rq[r] IN
       \/ q.subs < sub_query_budget /\ Set(r, Scan([q EXCEPT !.subs = @ + 1, !.sub = TRUE]))
       \/ \E warm \in {q.part, TRUE} : do_query(r, TRUE, warm, FALSE)
       \/ q.pass = "retry" /\ do_query(r, FALSE, FALSE, TRUE)
       \/ q.pass # "retry" /\ \E warm \in {q.part, TRUE} : do_query(r, FALSE, warm, ~warm)
       \/ q.pass = "requested" /\ ~q.part /\ Set(r, Scan([q EXCEPT !.pass = "retry", !.subs = 0]))
    /\ UNCHANGED <<indexvars, channel, memRepos, diskRepos>>

QueryFails(r) ==
    /\ At(r, "search")
    /\ LET q == rq[r] IN
       \/ q.sub /\ Set(r, [q EXCEPT !.pc = "rerank", !.sub = FALSE])
       \/ ~q.sub /\ q.pass = "retry" /\ do_query(r, FALSE, FALSE, TRUE)
       \/ ~q.sub /\ q.pass = "requested" /\ Reply(r, "query_failed")
    /\ UNCHANGED <<indexvars, channel, memRepos, diskRepos>>

\* The live shard answers; a fenced repository answers from its snapshot.
Search(r) ==
    /\ At(r, "search")
    /\ LET w == rq[r].repo
           known == w \in Workspaces
       IN  CASE known /\ idx[w].live -> Hit(r)
             [] known /\ ~idx[w].live /\ idx[w].fenced ->
                  IF idx[w].snap THEN Hit(r) ELSE gather_with_fallback(r, FALSE, TRUE)
             [] OTHER -> Set(r, [rq[r] EXCEPT !.pc = "warm"])
    /\ UNCHANGED <<indexvars, channel, memRepos, diskRepos>>

\* The warm is a task of its own; the request waits for it only so long.
Installable(w) == w \in Workspaces /\ idx[w].marker /\ ~idx[w].fenced

WarmInstalls(r) ==
    /\ At(r, "warm") /\ Installable(rq[r].repo)
    /\ idx' = [idx EXCEPT ![rq[r].repo].live = TRUE]
    /\ Set(r, [rq[r] EXCEPT !.pc = "recheck"])
    /\ UNCHANGED <<statuses, pending, runs, built, channel, memRepos, diskRepos>>

WarmRefused(r) ==
    /\ At(r, "warm") /\ ~Installable(rq[r].repo)
    /\ Set(r, [rq[r] EXCEPT !.pc = "recheck"])
    /\ UNCHANGED <<indexvars, channel, memRepos, diskRepos>>

WarmTick(r) ==
    /\ At(r, "warm")
    /\ Set(r, IF rq[r].warmed = rq[r].warm THEN [rq[r] EXCEPT !.pc = "recheck"]
              ELSE [rq[r] EXCEPT !.warmed = @ + 1])
    /\ UNCHANGED <<indexvars, channel, memRepos, diskRepos>>

Recheck(r) ==
    /\ At(r, "recheck")
    /\ LET w == rq[r].repo
           known == w \in Workspaces
       IN  IF known /\ (idx[w].live \/ (idx[w].fenced /\ idx[w].snap)) THEN Hit(r)
           ELSE gather_with_fallback(r, FALSE, TRUE)
    /\ UNCHANGED <<indexvars, channel, memRepos, diskRepos>>

------------------------------------------------------------------------------
(***************************************************************************)
(* with_progress_heartbeat: a ping every interval while the work runs; a   *)
(* failed ping or a cancelled client ends the pings, never the work.       *)
(***************************************************************************)
DropsTheWork(r) ==  \* mutant
    /\ rq[r].beating
    /\ Set(r, [rq[r] EXCEPT !.beating = FALSE, !.pc = "dropped"])
    /\ UNCHANGED <<indexvars, channel, memRepos, diskRepos>>

HeartbeatEnds(r) ==
    /\ rq[r].beating
    /\ Set(r, [rq[r] EXCEPT !.beating = FALSE])
    /\ UNCHANGED <<indexvars, channel, memRepos, diskRepos>>

------------------------------------------------------------------------------
(***************************************************************************)
(* run_file_retrieval: the chunks of one file, ranked against the question *)
(* and reranked.  It neither registers a repository nor waits for a run.   *)
(* A chunk row is told apart by whether it has an embedding and whether    *)
(* its lines can still be read from disk.                                  *)
(***************************************************************************)
FileCall(r, p) ==
    /\ At(r, "new")
    /\ IF p = "" THEN Reply(r, "required")
       ELSE Set(r, [rq[r] EXCEPT !.repo = resolve_worktree(p), !.pc = "file", !.beating = TRUE,
                                 !.note = linked_worktree_main_root(p)])
    /\ UNCHANGED <<indexvars, channel, memRepos, diskRepos>>

cosine_rank(rows, k) ==
    LET scored == SelectSeq(rows, LAMBDA c : c.embedded)
    IN  SubSeq(scored, 1, Min({4 * k, Len(scored)}))

FileBlocks(cands, reranked, k) ==
    LET final == SelectSeq(SubSeq(reranked, 1, Min({k, Len(reranked)})),
                           LAMBDA i : i \in DOMAIN cands)
    IN  [j \in DOMAIN final |-> IF cands[final[j]].disk THEN "lines" ELSE "row_text"]

FileRows == {<<>>} \cup {<<c>> : c \in [embedded : BOOLEAN, disk : BOOLEAN]}
Reranked == {<<>>, <<1>>, <<2, 1>>}

run_file_retrieval(r) ==
    /\ At(r, "file")
    /\ \/ \E e \in {"no_keys", "database", "client", "embedding"} : Reply(r, e)
       \/ \E rows \in IF rq[r].repo \in Workspaces /\ idx[rq[r].repo].chunks
                       THEN FileRows ELSE {<<>>}, reranked \in Reranked :
            Reply(r, IF rows = <<>> THEN "no_chunks"
                     ELSE IF FileBlocks(cosine_rank(rows, 1), reranked, 1) = <<>>
                     THEN "no_relevant_chunks" ELSE "file_results")
    /\ UNCHANGED <<indexvars, channel, memRepos, diskRepos>>

RequestStep(r) ==
    \/ run_file_retrieval(r) \/ NoEmbeddingKeys(r)
    \/ run_codebase_retrieval(r) \/ AutoRegister(r)
    \/ OpenIndex(r) \/ ReadCount(r) \/ ReadStamp(r) \/ ReadStatus(r) \/ Decide(r)
    \/ SendTrigger(r) \/ Act(r) \/ wait_for_run(r) \/ Gate(r)
    \/ QueryFails(r) \/ Search(r) \/ rerank_candidates(r)
    \/ WarmInstalls(r) \/ WarmRefused(r) \/ WarmTick(r) \/ Recheck(r)

Arrives(r) == \E p \in Workspaces \cup {"", "nowhere"} :
    FileCall(r, p) \/ ProxyCall(r, p) \/ CallTool(r, p) \/ post_mcp_tool(r, p) \/ post_query(r, p)

IndexSide == \E w \in Workspaces :
    OtherTrigger(w) \/ RunStarts(w) \/ RunMoves(w) \/ RunFails(w) \/ Evict(w)

SNext ==
    \/ Consume \/ IndexSide
    \/ \E r \in Requests : Arrives(r) \/ RequestStep(r) \/ HeartbeatEnds(r)

\* The request's task, its timers and the consumer loop are scheduled, and the
\* channel serves waiting senders in order; an index run may take for ever.
SFairness ==
    /\ WF_svars(Consume)
    /\ \A r \in Requests : WF_svars(RequestStep(r)) /\ SF_svars(SendTrigger(r))
SSpec == SInit /\ [][SNext]_svars /\ SFairness

------------------------------------------------------------------------------
(***************************************************************************)
(* A request that came in is answered, whatever the index run it waits for *)
(* does: every wait of readiness.rs and of the warm is bounded.            *)
(***************************************************************************)
RequestAnswered ==
    \A r \in Requests : (rq[r].pc # "new") ~> (rq[r].pc = "done")

(***************************************************************************)
(* "No results" and "rejected" are verdicts about an index: neither is     *)
(* given for a repository that has never had one.                          *)
(***************************************************************************)
NoFalseEmpty ==
    \A r \in Requests : rq[r].answer \in {"no_results", "rejected"} => rq[r].repo \in built

(***************************************************************************)
(* What an attempt has waited for the run is not available to any of its   *)
(* scans again (one poll interval of slack), and it makes a bounded number *)
(* of scans: the requested class, the other one, and the agent's searches. *)
(* Each of these may wait for the whole rest, so the budget bounds a scan  *)
(* and not an attempt (the "total budget" of readiness.rs:41).             *)
(***************************************************************************)
WaitBudget ==
    \A r \in Requests :
        /\ rq[r].waited + rq[r].warmed <= mcp_index_wait + 1
        /\ rq[r].scans <= 2 + 2 * sub_query_budget

(***************************************************************************)
(* A linked worktree is served from its main checkout and never becomes a  *)
(* repository of its own in the settings.                                  *)
(***************************************************************************)
WorktreeNotRegistered == diskRepos \cap DOMAIN MainRoot = {}

(***************************************************************************)
(* What linked_worktree_main_root promises about every query: no run for a *)
(* worktree.  POST /api/query triggers one.                                *)
(***************************************************************************)
WorktreeNotIndexed == built \cap DOMAIN MainRoot = {}
=============================================================================
