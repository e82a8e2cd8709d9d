--------------------------- MODULE ServiceProofs ----------------------------
(***************************************************************************)
(* Proofs about QueryService, for any requests, any workspaces and any     *)
(* wait budget: an empty verdict is about an index there has been, and no  *)
(* scan of an attempt waits longer than its budget.  About Chat, for any   *)
(* turns of any dialogs: the search floor is met, and the transcript is    *)
(* what was shown.  About WorkerRegistry, for any finite set of requests   *)
(* and any number of spawns and faults: the types, the single owner of a   *)
(* repository's database, that the registry implements DatabaseOwner, that *)
(* a deleted spawn is ended by somebody, and that idle exits go unnoticed. *)
(* And about QueryEngine, for any chunks, filters and changes underneath:  *)
(* what an empty search means, and what an answer says of itself.  About   *)
(* AgenticRerank, for any pool, budgets and calls in a response: no turn   *)
(* is asked for while a call is unanswered, and what was committed is the  *)
(* answer.  And about ModelClients, for any keys, frames and turns: no     *)
(* token is streamed twice, no call is mixed with another one's arguments, *)
(* and the next request replays the calls with their results.              *)
(***************************************************************************)
EXTENDS QueryService, Chat, WorkerRegistry, QueryEngine, AgenticRerank, ModelClients,
        FiniteSetTheorems, TLAPS

RequestFields == {"surface", "path", "pc", "repo", "note", "chunks", "stamp", "status", "plan",
                  "budget", "warm", "full", "banner", "tries", "waited", "warmed", "scans", "pass",
                  "subs", "sub", "part", "beating", "answer"}
IndexFields == {"run", "fenced", "chunks", "stamp", "marker", "live", "snap"}
RunStates == {"Idle", "Scan", "Publish", "ResolveEdges", "Error"}

\* Where a request has not waited yet, and where it may still warm.
BeforeWaiting == {"new", "received", "resolved", "open", "count", "stamp", "status", "decide",
                  "trigger", "act", "file"}
MayWarm == {"gate", "search", "warm", "recheck", "rerank"}

\* A request none of whose scans in this attempt has begun.
Untouched(q) == q.scans = 0 /\ q.warmed = 0 /\ q.pass = "requested" /\ q.subs = 0 /\ ~q.sub

\* What an attempt has waited, and what is left for each of its scans.
BudgetOf(q) ==
    /\ q.waited \in Nat /\ q.budget \in Nat /\ q.warm \in Nat /\ q.warmed \in Nat
    /\ q.tries \in {1, 2} /\ q.pc \in BeforeWaiting \cup MayWarm \cup {"poll", "done"}
    /\ q.waited + q.warmed <= mcp_index_wait + 1
    /\ q.pc \in BeforeWaiting => q.waited = 0 /\ q.tries = 1
    /\ q.pc \notin MayWarm \/ q.pc = "gate" => Untouched(q)
    /\ q.pc = "poll" => /\ q.waited + q.budget <= mcp_index_wait + 1
                        /\ q.waited + 1 <= mcp_index_wait + 1
    /\ q.pc \in MayWarm => q.waited + q.warm <= mcp_index_wait + 1 /\ q.warmed <= q.warm

\* The scans of an attempt: one of each class, and the agent's of either pass.
ScansOf(q) ==
    /\ q.scans \in Nat /\ q.subs \in Nat /\ q.subs <= sub_query_budget
    /\ q.pass \in {"requested", "fallback", "retry"}
    /\ q.pass = "requested" => q.scans <= 1 + q.subs
    /\ q.pass = "fallback" => q.scans <= 2 + q.subs
    /\ q.pass = "retry" => q.scans <= 2 + sub_query_budget + q.subs

\* An answer is given at the end; an empty one about an index of `known`, and
\* only candidates of such an index were reranked.
AnswerOf(q, known) ==
    /\ q.pc # "done" => q.answer = ""
    /\ q.answer \in {"no_results", "rejected"} => q.repo \in known
    /\ q.pc = "rerank" \/ q.sub \/ q.pass = "retry" => q.repo \in known

RequestInv(q, known) == DOMAIN q = RequestFields /\ BudgetOf(q) /\ ScansOf(q) /\ AnswerOf(q, known)

\* Whatever a query could be answered from was once published.
IndexInv ==
    /\ DOMAIN idx = Workspaces /\ statuses \subseteq Workspaces
    /\ \A w \in Workspaces :
          /\ DOMAIN idx[w] = IndexFields /\ idx[w].run \in RunStates
          /\ idx[w].live \/ idx[w].snap \/ idx[w].marker => w \in built
    /\ channel \in Seq(Workspaces) /\ pending \subseteq Workspaces

ServiceInv ==
    /\ IndexInv
    /\ DOMAIN rq = Requests
    /\ \A r \in Requests : RequestInv(rq[r], built)

-----------------------------------------------------------------------------
(* The index side.                                                         *)

\* A step of the index side leaves the requests what they are.
LEMMA RequestsKeep ==
  ASSUME ServiceInv, IndexInv', rq' = rq, built \subseteq built'
  PROVE  ServiceInv'
BY DEF ServiceInv, RequestInv, AnswerOf

\* One workspace's index moves.
LEMMA OneIndex ==
  ASSUME IndexInv, NEW w \in Workspaces, NEW e, idx' = [idx EXCEPT ![w] = e],
         DOMAIN e = IndexFields, e.run \in RunStates,
         e.live \/ e.snap \/ e.marker => w \in built',
         built \subseteq built', statuses' \subseteq Workspaces,
         channel' = channel, pending' \subseteq Workspaces
  PROVE  IndexInv'
BY DEF IndexInv

\* Runs, triggers and evictions.
LEMMA IndexStep ==
  ASSUME ServiceInv, Consume \/ IndexSide
  PROVE  ServiceInv'
<1> USE DEF ServiceInv
<1>1. CASE Consume
  <2>1. Head(channel) \in Workspaces /\ Tail(channel) \in Seq(Workspaces)
    BY <1>1 DEF Consume, IndexInv
  <2>2. IndexInv'
    BY <1>1, <2>1 DEF Consume, IndexInv
  <2> QED
    BY <1>1, <2>2, RequestsKeep DEF Consume
<1>2. ASSUME NEW w \in Workspaces, OtherTrigger(w)
      PROVE  ServiceInv'
  <2>1. Append(channel, w) \in Seq(Workspaces)
    BY DEF IndexInv
  <2>2. IndexInv'
    BY <1>2, <2>1 DEF OtherTrigger, IndexInv, indexvars
  <2> QED
    BY <1>2, <2>2, RequestsKeep DEF OtherTrigger, indexvars
<1>3. ASSUME NEW w \in Workspaces, RunStarts(w)
      PROVE  ServiceInv'
  <2>1. idx' = [idx EXCEPT ![w] = [idx[w] EXCEPT !.run = "Scan"]]
    BY <1>3 DEF RunStarts
  <2>2. IndexInv'
    BY <1>3, <2>1, OneIndex DEF RunStarts, IndexInv, IndexFields, RunStates
  <2> QED
    BY <1>3, <2>2, RequestsKeep DEF RunStarts
<1>4. ASSUME NEW w \in Workspaces, RunMoves(w)
      PROVE  ServiceInv'
  <2>1. UNCHANGED <<statuses, channel, pending, rq>>
    BY <1>4 DEF RunMoves
  <2>2. DOMAIN idx[w] = IndexFields /\ statuses \subseteq Workspaces /\ pending \subseteq Workspaces
        /\ (idx[w].live \/ idx[w].snap \/ idx[w].marker => w \in built)
    BY DEF IndexInv
  <2>3. ASSUME idx' = [idx EXCEPT ![w].run = "ResolveEdges"], built' = built
        PROVE  ServiceInv'
    <3>1. idx' = [idx EXCEPT ![w] = [idx[w] EXCEPT !.run = "ResolveEdges"]]
      BY <2>3
    <3>2. IndexInv'
      BY <2>1, <2>2, <2>3, <3>1, OneIndex DEF IndexFields, RunStates
    <3> QED
      BY <2>1, <2>3, <3>2, RequestsKeep
  <2>4. ASSUME idx' = [idx EXCEPT ![w] = [@ EXCEPT !.run = "Publish", !.fenced = TRUE,
                         !.live = FALSE, !.snap = idx[w].snap \/ idx[w].live, !.marker = FALSE]],
               built' = built
        PROVE  ServiceInv'
    <3>1. DOMAIN idx' = Workspaces /\ \A v \in Workspaces : v # w => idx'[v] = idx[v]
      BY <2>4 DEF IndexInv
    <3>2. DOMAIN idx'[w] = IndexFields /\ idx'[w].run = "Publish"
      BY <2>2, <2>4 DEF IndexFields, IndexInv
    <3>3. ~idx'[w].live /\ ~idx'[w].marker
      BY <2>2, <2>4 DEF IndexFields, IndexInv
    <3>4. idx'[w].snap => idx[w].snap \/ idx[w].live
      BY <2>2, <2>4 DEF IndexFields, IndexInv
    <3>5. IndexInv'
      BY <2>1, <2>2, <2>4, <3>1, <3>2, <3>3, <3>4 DEF IndexInv, RunStates
    <3> QED
      BY <2>1, <2>4, <3>5, RequestsKeep
  <2>5. ASSUME NEW there \in BOOLEAN,
               idx' = [idx EXCEPT ![w] = [@ EXCEPT !.run = "ResolveEdges", !.fenced = FALSE,
                         !.chunks = TRUE, !.marker = TRUE, !.live = there]],
               built' = built \cup {w}
        PROVE  ServiceInv'
    <3> DEFINE e == [idx[w] EXCEPT !.run = "ResolveEdges", !.fenced = FALSE,
                       !.chunks = TRUE, !.marker = TRUE, !.live = there]
    <3>1. idx' = [idx EXCEPT ![w] = e]
      BY <2>5 DEF IndexInv
    <3>2. DOMAIN e = IndexFields /\ e.run = "ResolveEdges"
      BY <2>2 DEF IndexFields
    <3> HIDE DEF e
    <3>3. IndexInv'
      BY <2>1, <2>2, <2>5, <3>1, <3>2, OneIndex DEF RunStates
    <3> QED
      BY <2>1, <2>5, <3>3, RequestsKeep
  <2>6. ASSUME idx' = [idx EXCEPT ![w] = [@ EXCEPT !.run = "Idle", !.stamp = "recent"]], built' = built
        PROVE  ServiceInv'
    <3>1. idx' = [idx EXCEPT ![w] = [idx[w] EXCEPT !.run = "Idle", !.stamp = "recent"]]
      BY <2>6 DEF IndexInv
    <3>2. IndexInv'
      BY <2>1, <2>2, <2>6, <3>1, OneIndex DEF IndexFields, RunStates
    <3> QED
      BY <2>1, <2>6, <3>2, RequestsKeep
  <2> QED
    BY <1>4, <2>3, <2>4, <2>5, <2>6 DEF RunMoves
<1>5. ASSUME NEW w \in Workspaces, RunFails(w)
      PROVE  ServiceInv'
  <2>1. PICK rest : idx' = [idx EXCEPT ![w] = [idx[w] EXCEPT !.run = "Error", !.chunks = rest]]
    BY <1>5 DEF RunFails, IndexInv
  <2>2. IndexInv'
    BY <1>5, <2>1, OneIndex DEF RunFails, IndexInv, IndexFields, RunStates
  <2> QED
    BY <1>5, <2>2, RequestsKeep DEF RunFails
<1>6. ASSUME NEW w \in Workspaces, Evict(w)
      PROVE  ServiceInv'
  <2>1. idx' = [idx EXCEPT ![w] = [idx[w] EXCEPT !.live = FALSE]]
    BY <1>6 DEF Evict, IndexInv
  <2>2. IndexInv'
    BY <1>6, <2>1, OneIndex DEF Evict, IndexInv, IndexFields, RunStates
  <2> QED
    BY <1>6, <2>2, RequestsKeep DEF Evict
<1> QED
  BY <1>1, <1>2, <1>3, <1>4, <1>5, <1>6 DEF IndexSide

-----------------------------------------------------------------------------
(* Requests.                                                               *)

\* A request that moves to a state that is in order leaves all in order.
LEMMA SetKeeps ==
  ASSUME ServiceInv, IndexInv', built' = built, NEW r \in Requests, NEW e, Set(r, e),
         RequestInv(e, built)
  PROVE  ServiceInv'
BY DEF ServiceInv, Set

\* The same when the step changes nothing the index side is about.
LEMMA SetAlone ==
  ASSUME ServiceInv, UNCHANGED <<idx, statuses, pending, built, channel>>, NEW r \in Requests, NEW e,
         Set(r, e), RequestInv(e, built)
  PROVE  ServiceInv'
<1>1. IndexInv'
  BY DEF ServiceInv, IndexInv
<1> QED
  BY <1>1, SetKeeps

\* An answer ends a request; an empty verdict needs an index there has been.
LEMMA ReplyKeeps ==
  ASSUME ServiceInv, UNCHANGED <<idx, pending, built, channel>>, statuses' \subseteq Workspaces,
         NEW r \in Requests, NEW a, Reply(r, a),
         a \in {"no_results", "rejected"} => rq[r].repo \in built
  PROVE  ServiceInv'
<1> USE ServiceConstants DEF Afresh
<1> DEFINE e == [Afresh(rq[r]) EXCEPT !.pc = "done", !.answer = a, !.beating = FALSE,
                                      !.plan = "none", !.budget = 0]
<1>1. RequestInv(rq[r], built) /\ Set(r, e)
  BY DEF ServiceInv, Reply
<1>2. /\ DOMAIN e = RequestFields /\ e.pc = "done" /\ e.answer = a /\ e.budget = 0 /\ e.warm = 0
      /\ e.repo = rq[r].repo /\ e.waited = rq[r].waited /\ e.tries = rq[r].tries
      /\ e.warmed = 0 /\ e.scans = 0 /\ e.pass = "requested" /\ e.subs = 0 /\ e.sub = FALSE
  BY <1>1 DEF RequestInv, RequestFields
<1>3. rq[r].waited \in Nat /\ rq[r].waited + 0 <= mcp_index_wait + 1 /\ rq[r].tries \in {1, 2}
  BY <1>1 DEF RequestInv, BudgetOf
<1>4. IndexInv'
  BY DEF ServiceInv, IndexInv
<1> HIDE DEF e
<1>5. BudgetOf(e)
  BY <1>2, <1>3 DEF BudgetOf, Untouched, BeforeWaiting, MayWarm
<1>6. RequestInv(e, built)
  BY <1>2, <1>5 DEF RequestInv, ScansOf, AnswerOf
<1> QED
  BY <1>1, <1>4, <1>6, SetKeeps

\* A request arrives.
LEMMA ArriveStep ==
  ASSUME ServiceInv, NEW r \in Requests, Arrives(r)
  PROVE  ServiceInv'
<1> USE DEF indexvars
<1>0. RequestInv(rq[r], built) /\ UNCHANGED <<indexvars, channel>> /\ At(r, "new")
      /\ statuses \subseteq Workspaces
  BY DEF ServiceInv, IndexInv, Arrives, FileCall, ProxyCall, CallTool, post_mcp_tool, post_query
<1>1. ASSUME NEW p, FileCall(r, p)
      PROVE  ServiceInv'
  <2>1. CASE p = ""
    BY <1>0, <1>1, <2>1, ReplyKeeps DEF FileCall
  <2>2. CASE p # ""
    <3> DEFINE e == [rq[r] EXCEPT !.repo = resolve_worktree(p), !.pc = "file", !.beating = TRUE,
                                 !.note = linked_worktree_main_root(p)]
    <3>1. RequestInv(e, built)
      BY <1>0 DEF At, RequestInv, RequestFields, BudgetOf, ScansOf, AnswerOf, Untouched, BeforeWaiting, MayWarm
    <3>2. Set(r, e)
      BY <1>1, <2>2 DEF FileCall
    <3> HIDE DEF e
    <3> QED
      BY <1>0, <3>1, <3>2, SetAlone
  <2> QED
    BY <2>1, <2>2
<1>2. ASSUME NEW p, ProxyCall(r, p)
      PROVE  ServiceInv'
  <2> DEFINE e == [rq[r] EXCEPT !.surface = "mcp", !.path = resolve_worktree(p),
                                    !.note = linked_worktree_main_root(p),
                                    !.pc = "received", !.beating = TRUE]
  <2>1. CASE Set(r, e)
    <3>1. RequestInv(e, built)
      BY <1>0 DEF At, RequestInv, RequestFields, BudgetOf, ScansOf, AnswerOf, Untouched, BeforeWaiting, MayWarm
    <3> HIDE DEF e
    <3> QED
      BY <1>0, <2>1, <3>1, SetAlone
  <2>2. CASE Reply(r, "required") \/ Reply(r, "unreachable")
    BY <1>0, <2>2, ReplyKeeps
  <2> QED
    BY <1>2, <2>1, <2>2 DEF ProxyCall
<1>3. ASSUME NEW p, CallTool(r, p)
      PROVE  ServiceInv'
  <2> DEFINE e == [rq[r] EXCEPT !.path = p, !.pc = "received", !.beating = TRUE]
  <2>1. RequestInv(e, built)
    BY <1>0 DEF At, RequestInv, RequestFields, BudgetOf, ScansOf, AnswerOf, Untouched, BeforeWaiting, MayWarm
  <2>2. Set(r, e)
    BY <1>3 DEF CallTool
  <2> HIDE DEF e
  <2> QED
    BY <1>0, <2>1, <2>2, SetAlone
<1>4. ASSUME NEW p, post_mcp_tool(r, p)
      PROVE  ServiceInv'
  <2> DEFINE e == [rq[r] EXCEPT !.path = p, !.pc = "received"]
  <2>1. RequestInv(e, built)
    BY <1>0 DEF At, RequestInv, RequestFields, BudgetOf, ScansOf, AnswerOf, Untouched, BeforeWaiting, MayWarm
  <2>2. Set(r, e)
    BY <1>4 DEF post_mcp_tool
  <2> HIDE DEF e
  <2> QED
    BY <1>0, <2>1, <2>2, SetAlone
<1>5. ASSUME NEW p, post_query(r, p)
      PROVE  ServiceInv'
  <2> DEFINE e == [rq[r] EXCEPT !.surface = "query", !.path = p, !.repo = p, !.pc = "open"]
  <2>1. CASE Set(r, e)
    <3>1. RequestInv(e, built)
      BY <1>0 DEF At, RequestInv, RequestFields, BudgetOf, ScansOf, AnswerOf, Untouched, BeforeWaiting, MayWarm
    <3> HIDE DEF e
    <3> QED
      BY <1>0, <2>1, <3>1, SetAlone
  <2>2. CASE Reply(r, "400")
    BY <1>0, <2>2, ReplyKeeps
  <2> QED
    BY <1>5, <2>1, <2>2 DEF post_query
<1> QED
  BY <1>1, <1>2, <1>3, <1>4, <1>5 DEF Arrives

\* A request that has not waited yet begins to poll or goes to the gate.
LEMMA BeginsWaiting ==
  ASSUME NEW q, NEW e, NEW known, RequestInv(q, known), q.pc \in BeforeWaiting,
         DOMAIN e = RequestFields, e.waited = q.waited, e.tries = q.tries, e.answer = q.answer,
         e.scans = q.scans, e.warmed = q.warmed, e.pass = q.pass, e.subs = q.subs, e.sub = q.sub,
         e.budget \in Nat, e.warm \in Nat,
         \/ e.pc = "poll" /\ e.budget <= mcp_index_wait
         \/ e.pc = "gate" /\ e.warm <= mcp_index_wait
  PROVE  RequestInv(e, known)
<1>1. e.waited = 0 /\ e.tries = 1 /\ Untouched(q)
  BY DEF RequestInv, BudgetOf, BeforeWaiting, MayWarm
<1>2. Untouched(e)
  BY <1>1 DEF Untouched
<1>3. mcp_index_wait \in Nat
  BY ServiceConstants
<1>4. BudgetOf(e)
  <2>0. e.warmed = 0 /\ e.waited + e.warmed <= mcp_index_wait + 1 /\ e.budget \in Nat /\ e.warm \in Nat
    BY <1>1, <1>2, <1>3 DEF Untouched
  <2>1. CASE e.pc = "poll" /\ e.budget <= mcp_index_wait
    <3>1. /\ e.waited + e.budget <= mcp_index_wait + 1 /\ e.waited + 1 <= mcp_index_wait + 1
      BY <1>1, <1>3, <2>0, <2>1
    <3> QED
      BY <1>1, <1>2, <2>0, <2>1, <3>1 DEF BudgetOf, BeforeWaiting, MayWarm
  <2>2. CASE e.pc = "gate" /\ e.warm <= mcp_index_wait
    <3>1. e.waited + e.warm <= mcp_index_wait + 1 /\ e.warmed <= e.warm
      BY <1>1, <1>3, <2>0, <2>2
    <3> QED
      BY <1>1, <1>2, <2>0, <2>2, <3>1 DEF BudgetOf, BeforeWaiting, MayWarm
  <2> QED
    BY <2>1, <2>2
<1>5. ScansOf(e)
  BY DEF RequestInv, ScansOf
<1>6. e.answer = ""
  BY DEF RequestInv, AnswerOf, BeforeWaiting
<1>7. AnswerOf(e, known)
  BY <1>2, <1>6 DEF AnswerOf, Untouched
<1> QED
  BY <1>4, <1>5, <1>7 DEF RequestInv

\* The request resolves its workspace and reads the four facts readiness is
\* decided from; it has not waited yet.
LEMMA ReadyStep ==
  ASSUME ServiceInv, NEW r \in Requests,
         \/ run_codebase_retrieval(r) \/ AutoRegister(r) \/ NoEmbeddingKeys(r) \/ OpenIndex(r)
         \/ ReadCount(r) \/ ReadStamp(r) \/ ReadStatus(r) \/ Decide(r) \/ Act(r)
  PROVE  ServiceInv'
<1> USE ServiceConstants DEF indexvars
<1>0. RequestInv(rq[r], built) /\ statuses \subseteq Workspaces
  BY DEF ServiceInv, IndexInv
<1>1. CASE run_codebase_retrieval(r)
  <2> DEFINE e == [rq[r] EXCEPT !.repo = resolve_worktree(rq[r].path), !.pc = "resolved", !.path = "",
                                !.note = @ \/ linked_worktree_main_root(rq[r].path)]
  <2>1. At(r, "received") /\ Set(r, e) /\ UNCHANGED <<indexvars, channel>>
    BY <1>1 DEF run_codebase_retrieval
  <2>2. RequestInv(e, built)
    BY <1>0, <2>1 DEF At, RequestInv, RequestFields, BudgetOf, ScansOf, AnswerOf, Untouched, BeforeWaiting, MayWarm
  <2> HIDE DEF e
  <2> QED
    BY <2>1, <2>2, SetAlone
<1>2. CASE AutoRegister(r)
  <2> DEFINE e == [rq[r] EXCEPT !.pc = "open"]
  <2>1. At(r, "resolved") /\ UNCHANGED <<idx, pending, built, channel>>
        /\ statuses' \subseteq Workspaces
        /\ (Set(r, e) \/ Reply(r, "required") \/ Reply(r, "not a directory"))
    BY <1>0, <1>2 DEF AutoRegister
  <2>2. RequestInv(e, built)
    BY <1>0, <2>1 DEF At, RequestInv, RequestFields, BudgetOf, ScansOf, AnswerOf, Untouched, BeforeWaiting, MayWarm
  <2> HIDE DEF e
  <2>3. IndexInv'
    BY <2>1 DEF ServiceInv, IndexInv
  <2> QED
    BY <2>1, <2>2, <2>3, SetKeeps, ReplyKeeps
<1>3. CASE NoEmbeddingKeys(r)
  BY <1>0, <1>3, ReplyKeeps DEF NoEmbeddingKeys
<1>4. CASE OpenIndex(r)
  <2> DEFINE e == [rq[r] EXCEPT !.pc = "count"]
             f == [rq[r] EXCEPT !.pc = "gate", !.plan = "Failed", !.warm = 0]
  <2>1. At(r, "open") /\ UNCHANGED <<indexvars, channel>> /\ (Set(r, e) \/ Set(r, f))
    BY <1>4 DEF OpenIndex, Plan
  <2>2. RequestInv(e, built)
    BY <1>0, <2>1 DEF At, RequestInv, RequestFields, BudgetOf, ScansOf, AnswerOf, Untouched, BeforeWaiting, MayWarm
  <2>3. RequestInv(f, built)
    <3>1. /\ DOMAIN f = RequestFields /\ f.waited = rq[r].waited /\ f.tries = rq[r].tries
          /\ f.scans = rq[r].scans /\ f.warmed = rq[r].warmed /\ f.pass = rq[r].pass
          /\ f.subs = rq[r].subs /\ f.sub = rq[r].sub
          /\ f.answer = rq[r].answer /\ f.pc = "gate" /\ f.warm \in Nat /\ f.warm <= mcp_index_wait
          /\ f.budget \in Nat
      BY <1>0 DEF RequestInv, RequestFields, BudgetOf
    <3>2. rq[r].pc \in BeforeWaiting
      BY <2>1 DEF At, BeforeWaiting
    <3> HIDE DEF f
    <3> QED
      BY <1>0, <3>1, <3>2, BeginsWaiting
  <2> HIDE DEF e, f
  <2> QED
    BY <2>1, <2>2, <2>3, SetAlone
<1>5. CASE ReadCount(r)
  <2>0. PICK read \in BOOLEAN : Set(r, [rq[r] EXCEPT !.pc = "stamp",
            !.chunks = read /\ rq[r].repo \in Workspaces /\ idx[rq[r].repo].chunks])
    BY <1>5 DEF ReadCount
  <2> DEFINE e == [rq[r] EXCEPT !.pc = "stamp",
                     !.chunks = read /\ rq[r].repo \in Workspaces /\ idx[rq[r].repo].chunks]
  <2>1. At(r, "count") /\ UNCHANGED <<indexvars, channel>> /\ Set(r, e)
    BY <1>5, <2>0 DEF ReadCount
  <2>2. RequestInv(e, built)
    BY <1>0, <2>1 DEF At, RequestInv, RequestFields, BudgetOf, ScansOf, AnswerOf, Untouched, BeforeWaiting, MayWarm
  <2> HIDE DEF e
  <2> QED
    BY <2>1, <2>2, SetAlone
<1>6. CASE ReadStamp(r)
  <2> DEFINE f(read) ==
        [rq[r] EXCEPT !.pc = "status",
            !.stamp = IF read /\ rq[r].repo \in Workspaces THEN idx[rq[r].repo].stamp ELSE "none"]
  <2>0. PICK read \in BOOLEAN : Set(r, f(read))
    BY <1>6 DEF ReadStamp
  <2> DEFINE e == f(read)
  <2>1. At(r, "stamp") /\ UNCHANGED <<indexvars, channel>> /\ Set(r, e)
    BY <1>6, <2>0 DEF ReadStamp
  <2>2. RequestInv(e, built)
    BY <1>0, <2>1 DEF At, RequestInv, RequestFields, BudgetOf, ScansOf, AnswerOf, Untouched, BeforeWaiting, MayWarm
  <2> HIDE DEF e
  <2> QED
    BY <2>1, <2>2, SetAlone
<1>7. CASE ReadStatus(r)
  <2> DEFINE s == StatusOf(rq[r].repo)
             e == [rq[r] EXCEPT !.pc = "decide", !.status = s]
             f == [rq[r] EXCEPT !.pc = "gate", !.plan = "VectorOnly", !.warm = mcp_index_wait]
  <2>1. At(r, "status") /\ UNCHANGED <<indexvars, channel>> /\ (Set(r, e) \/ Set(r, f))
    BY <1>7 DEF ReadStatus, Plan
  <2>2. RequestInv(e, built)
    BY <1>0, <2>1 DEF At, RequestInv, RequestFields, BudgetOf, ScansOf, AnswerOf, Untouched, BeforeWaiting, MayWarm
  <2>3. RequestInv(f, built)
    <3>1. /\ DOMAIN f = RequestFields /\ f.waited = rq[r].waited /\ f.tries = rq[r].tries
          /\ f.scans = rq[r].scans /\ f.warmed = rq[r].warmed /\ f.pass = rq[r].pass
          /\ f.subs = rq[r].subs /\ f.sub = rq[r].sub
          /\ f.answer = rq[r].answer /\ f.pc = "gate" /\ f.warm \in Nat /\ f.warm <= mcp_index_wait
          /\ f.budget \in Nat
      BY <1>0 DEF RequestInv, RequestFields, BudgetOf
    <3>2. rq[r].pc \in BeforeWaiting
      BY <2>1 DEF At, BeforeWaiting
    <3> HIDE DEF f
    <3> QED
      BY <1>0, <3>1, <3>2, BeginsWaiting
  <2> HIDE DEF e, f
  <2> QED
    BY <2>1, <2>2, <2>3, SetAlone
<1>8. CASE Decide(r)
  <2>1. At(r, "decide") /\ UNCHANGED <<indexvars, channel>>
    BY <1>8 DEF Decide
  <2> DEFINE w == rq[r].repo
             v == evaluate(rq[r], w \in Workspaces /\ idx[w].fenced)
             e == [rq[r] EXCEPT !.plan = v.plan, !.pc = IF v.trigger THEN "trigger" ELSE "act",
                                !.chunks = FALSE, !.stamp = "none", !.status = "none"]
  <2>2. Set(r, e)
    BY <1>8 DEF Decide
  <2> HIDE DEF v
  <2>3. RequestInv(e, built)
    BY <1>0, <2>1 DEF At, RequestInv, RequestFields, BudgetOf, ScansOf, AnswerOf, Untouched, BeforeWaiting, MayWarm
  <2> HIDE DEF e
  <2> QED
    BY <2>1, <2>2, <2>3, SetAlone
<1>9. CASE Act(r)
  <2>1. At(r, "act") /\ UNCHANGED <<indexvars, channel>>
    BY <1>9 DEF Act
  <2> DEFINE e == [rq[r] EXCEPT !.pc = "poll", !.budget = mcp_index_wait]
             p == IF rq[r].plan = "ServeStale" THEN "Stale" ELSE "Ready"
             f == [rq[r] EXCEPT !.pc = "gate", !.plan = p, !.warm = mcp_index_wait]
  <2>2. Set(r, e) \/ Set(r, f)
    BY <1>9 DEF Act, Plan
  <2>3. RequestInv(e, built)
    <3>1. /\ DOMAIN e = RequestFields /\ e.waited = rq[r].waited /\ e.tries = rq[r].tries
          /\ e.scans = rq[r].scans /\ e.warmed = rq[r].warmed /\ e.pass = rq[r].pass
          /\ e.subs = rq[r].subs /\ e.sub = rq[r].sub
          /\ e.answer = rq[r].answer /\ e.pc = "poll" /\ e.budget \in Nat /\ e.budget <= mcp_index_wait
          /\ e.warm \in Nat
      BY <1>0 DEF RequestInv, RequestFields, BudgetOf
    <3>2. rq[r].pc \in BeforeWaiting
      BY <2>1 DEF At, BeforeWaiting
    <3> HIDE DEF e
    <3> QED
      BY <1>0, <3>1, <3>2, BeginsWaiting
  <2>4. RequestInv(f, built)
    <3>1. /\ DOMAIN f = RequestFields /\ f.waited = rq[r].waited /\ f.tries = rq[r].tries
          /\ f.scans = rq[r].scans /\ f.warmed = rq[r].warmed /\ f.pass = rq[r].pass
          /\ f.subs = rq[r].subs /\ f.sub = rq[r].sub
          /\ f.answer = rq[r].answer /\ f.pc = "gate" /\ f.warm \in Nat /\ f.warm <= mcp_index_wait
          /\ f.budget \in Nat
      BY <1>0 DEF RequestInv, RequestFields, BudgetOf
    <3>2. rq[r].pc \in BeforeWaiting
      BY <2>1 DEF At, BeforeWaiting
    <3> HIDE DEF f
    <3> QED
      BY <1>0, <3>1, <3>2, BeginsWaiting
  <2> HIDE DEF e, f
  <2> QED
    BY <2>1, <2>2, <2>3, <2>4, SetAlone
<1> QED
  BY <1>1, <1>2, <1>3, <1>4, <1>5, <1>6, <1>7, <1>8, <1>9

\* The trigger is sent once the channel has a slot.
LEMMA TriggerStep ==
  ASSUME ServiceInv, NEW r \in Requests, SendTrigger(r)
  PROVE  ServiceInv'
<1> DEFINE e == [rq[r] EXCEPT !.pc = "act"]
<1>1. At(r, "trigger") /\ UNCHANGED indexvars /\ Set(r, e) /\ RequestInv(rq[r], built)
  BY DEF SendTrigger, ServiceInv
<1>2. RequestInv(e, built)
  BY <1>1 DEF At, RequestInv, RequestFields, BudgetOf, ScansOf, AnswerOf, Untouched, BeforeWaiting, MayWarm
<1>3. channel' \in Seq(Workspaces)
  BY DEF SendTrigger, ServiceInv, IndexInv
<1>4. IndexInv'
  BY <1>1, <1>3 DEF ServiceInv, IndexInv, indexvars
<1> HIDE DEF e
<1> QED
  BY <1>1, <1>2, <1>4, SetKeeps DEF indexvars

\* One sleep is at most one interval more.
LEMMA Sleeps ==
  ASSUME NEW n \in Nat
  PROVE  Min({n + 1, mcp_index_wait + 2}) \in Nat /\ Min({n + 1, mcp_index_wait + 2}) <= n + 1
<1> DEFINE m == mcp_index_wait + 2
<1>1. m \in Nat
  BY ServiceConstants
<1> HIDE DEF m
<1>2. \E x \in {n + 1, m} : \A y \in {n + 1, m} : x <= y
  BY <1>1
<1>3. Min({n + 1, m}) \in {n + 1, m} /\ \A y \in {n + 1, m} : Min({n + 1, m}) <= y
  BY <1>2 DEF Min
<1> QED
  BY <1>1, <1>3 DEF m

\* One poll: an interval of the budget is gone, and at the deadline the wait ends.
LEMMA PollStep ==
  ASSUME ServiceInv, NEW r \in Requests, wait_for_run(r)
  PROVE  ServiceInv'
<1> DEFINE q == rq[r]
           o == poll_outcome(q, StatusOf(q.repo))
           w == Min({q.waited + 1, mcp_index_wait + 2})
           rest == budget_left(q)
           stay == [[q EXCEPT !.waited = w] EXCEPT !.budget = rest]
           leave == [[q EXCEPT !.waited = w] EXCEPT !.pc = "gate", !.plan = o, !.warm = rest]
<1>1. /\ RequestInv(q, built) /\ q.pc = "poll" /\ UNCHANGED <<indexvars, channel>>
      /\ Set(r, IF o = "poll" THEN stay ELSE leave)
  BY DEF ServiceInv, wait_for_run, At
<1>2. StatusOf(q.repo) \in RunStates \cup {"none"}
  BY DEF ServiceInv, IndexInv, StatusOf
<1>3. /\ q.waited \in Nat /\ q.budget \in Nat /\ q.warm \in Nat /\ mcp_index_wait \in Nat
      /\ q.waited + q.budget <= mcp_index_wait + 1 /\ q.waited + 1 <= mcp_index_wait + 1
      /\ q.warmed = 0 /\ Untouched(q)
  BY <1>1, ServiceConstants DEF RequestInv, BudgetOf, Untouched, MayWarm
<1>4. o = "poll" => q.budget > 1
  BY <1>2, <1>3 DEF poll_outcome, RunStates, is_resolve_edges_status
<1>5. w \in Nat /\ w <= q.waited + 1
  BY <1>3, Sleeps
<1>6. rest \in Nat /\ rest = IF q.budget = 0 THEN 0 ELSE q.budget - 1
  BY <1>3 DEF budget_left
<1> HIDE DEF o, w, rest
<1>7. ASSUME NEW e, DOMAIN e = RequestFields, e.answer = q.answer, e.tries = q.tries,
             e.warmed = q.warmed, e.scans = q.scans, e.pass = q.pass, e.subs = q.subs,
             e.sub = q.sub, e.waited = w, e.budget \in Nat, e.warm \in Nat,
             \/ e.pc = "poll" /\ e.waited + e.budget <= mcp_index_wait + 1
                              /\ e.waited + 1 <= mcp_index_wait + 1
             \/ e.pc = "gate" /\ e.waited + e.warm <= mcp_index_wait + 1
      PROVE  RequestInv(e, built)
  <2>1. Untouched(e) /\ e.warmed = 0 /\ e.waited \in Nat /\ e.tries \in {1, 2}
    BY <1>1, <1>3, <1>5, <1>7 DEF Untouched, RequestInv, BudgetOf
  <2>2. e.waited <= mcp_index_wait + 1
    BY <1>3, <1>5, <1>7
  <2>3. BudgetOf(e)
    BY <1>3, <1>7, <2>1, <2>2 DEF BudgetOf, BeforeWaiting, MayWarm
  <2>4. ScansOf(e)
    BY <1>1, <1>7 DEF RequestInv, ScansOf
  <2>5. AnswerOf(e, built)
    BY <1>1, <1>7, <2>1 DEF RequestInv, AnswerOf, Untouched
  <2> QED
    BY <1>7, <2>3, <2>4, <2>5 DEF RequestInv
<1>8. CASE o = "poll"
  <2>1. /\ DOMAIN stay = RequestFields /\ stay.answer = q.answer /\ stay.tries = q.tries
        /\ stay.warmed = q.warmed /\ stay.scans = q.scans /\ stay.pass = q.pass
        /\ stay.subs = q.subs /\ stay.sub = q.sub
        /\ stay.waited = w /\ stay.budget = rest /\ stay.warm = q.warm /\ stay.pc = "poll"
    BY <1>1 DEF RequestInv, RequestFields
  <2> HIDE DEF stay
  <2>2. stay.waited + stay.budget <= mcp_index_wait + 1 /\ stay.waited + 1 <= mcp_index_wait + 1
    BY <1>3, <1>4, <1>5, <1>6, <1>8, <2>1
  <2>3. RequestInv(stay, built)
    BY <1>3, <1>6, <1>7, <2>1, <2>2
  <2>4. Set(r, stay)
    BY <1>1, <1>8
  <2> QED
    BY <1>1, <2>3, <2>4, SetAlone DEF indexvars
<1>9. CASE o # "poll"
  <2>1. /\ DOMAIN leave = RequestFields /\ leave.answer = q.answer /\ leave.tries = q.tries
        /\ leave.warmed = q.warmed /\ leave.scans = q.scans /\ leave.pass = q.pass
        /\ leave.subs = q.subs /\ leave.sub = q.sub
        /\ leave.waited = w /\ leave.budget = q.budget /\ leave.warm = rest /\ leave.pc = "gate"
    BY <1>1 DEF RequestInv, RequestFields
  <2> HIDE DEF leave
  <2>2. leave.waited + leave.warm <= mcp_index_wait + 1
    BY <1>3, <1>5, <1>6, <2>1
  <2>3. RequestInv(leave, built)
    BY <1>3, <1>6, <1>7, <2>1, <2>2
  <2>4. Set(r, leave)
    BY <1>1, <1>9
  <2> QED
    BY <1>1, <2>3, <2>4, SetAlone DEF indexvars
<1> QED
  BY <1>8, <1>9

\* A scan begins: the first one, the other class's, the second pass's, or one
\* the agent asks for.
LEMMA ScanBegins ==
  ASSUME NEW q, NEW e, NEW known, RequestInv(q, known), q.pc \in MayWarm,
         DOMAIN e = RequestFields, e.pc = "search", e.warmed = 0, e.scans = q.scans + 1,
         e.waited = q.waited, e.warm = q.warm, e.budget = q.budget, e.tries = q.tries,
         e.answer = q.answer, e.repo = q.repo,
         \/ q.pc = "gate" /\ e.pass = q.pass /\ e.subs = q.subs /\ e.sub = q.sub
         \/ e.pass = q.pass /\ q.subs < sub_query_budget /\ e.subs = q.subs + 1 /\ q.repo \in known
         \/ q.pass = "requested" /\ e.pass = "fallback" /\ e.subs = q.subs /\ ~e.sub
         \/ q.pass = "requested" /\ e.pass = "retry" /\ e.subs = 0 /\ q.repo \in known
  PROVE  RequestInv(e, known)
<1>1. mcp_index_wait \in Nat /\ sub_query_budget \in Nat
  BY ServiceConstants
<1>2. BudgetOf(e)
  BY <1>1 DEF RequestInv, BudgetOf, BeforeWaiting, MayWarm
<1>3. ScansOf(e)
  <2>1. q.pc = "gate" => q.scans = 0 /\ q.pass = "requested" /\ q.subs = 0
    BY DEF RequestInv, BudgetOf, Untouched
  <2> QED
    BY <1>1, <2>1 DEF RequestInv, ScansOf
<1>4. AnswerOf(e, known)
  <2>1. q.pc = "gate" => ~q.sub /\ q.pass = "requested"
    BY DEF RequestInv, BudgetOf, Untouched
  <2> QED
    BY <2>1 DEF RequestInv, AnswerOf, MayWarm
<1> QED
  BY <1>2, <1>3, <1>4 DEF RequestInv

\* A scan goes on, or is over.
LEMMA ScanMoves ==
  ASSUME NEW q, NEW e, NEW known, RequestInv(q, known), q.pc \in MayWarm \ {"gate"},
         DOMAIN e = RequestFields, e.pc \in MayWarm \ {"gate"}, e.scans = q.scans,
         e.waited = q.waited, e.warm = q.warm, e.budget = q.budget, e.tries = q.tries,
         e.answer = q.answer, e.repo = q.repo, e.pass = q.pass, e.subs = q.subs,
         e.sub => q.sub, e.warmed \in Nat, e.warmed <= q.warm,
         e.pc = "rerank" => q.repo \in known
  PROVE  RequestInv(e, known)
<1>1. mcp_index_wait \in Nat /\ q.waited \in Nat /\ q.warm \in Nat
      /\ q.waited + q.warm <= mcp_index_wait + 1
  BY ServiceConstants DEF RequestInv, BudgetOf
<1>2. e.waited + e.warmed <= mcp_index_wait + 1
  BY <1>1
<1>3. BudgetOf(e)
  BY <1>1, <1>2 DEF RequestInv, BudgetOf, BeforeWaiting, MayWarm
<1>4. ScansOf(e)
  BY DEF RequestInv, ScansOf
<1>5. AnswerOf(e, known)
  BY DEF RequestInv, AnswerOf, MayWarm
<1> QED
  BY <1>3, <1>4, <1>5 DEF RequestInv

\* The plan becomes a graph mode and a banner, or a degraded answer.
LEMMA GateStep ==
  ASSUME ServiceInv, NEW r \in Requests, Gate(r)
  PROVE  ServiceInv'
<1>1. /\ RequestInv(rq[r], built) /\ rq[r].pc = "gate" /\ UNCHANGED <<indexvars, channel>>
      /\ statuses \subseteq Workspaces
  BY DEF ServiceInv, IndexInv, Gate, At
<1>2. ASSUME NEW f, NEW b, Set(r, Scan([rq[r] EXCEPT !.full = f, !.banner = b]))
      PROVE  ServiceInv'
  <2> DEFINE e == Scan([rq[r] EXCEPT !.full = f, !.banner = b])
  <2>0. /\ DOMAIN e = RequestFields /\ e.pc = "search" /\ e.warmed = 0
        /\ e.scans = rq[r].scans + 1 /\ e.waited = rq[r].waited /\ e.warm = rq[r].warm
        /\ e.budget = rq[r].budget /\ e.tries = rq[r].tries /\ e.answer = rq[r].answer
        /\ e.repo = rq[r].repo /\ e.pass = rq[r].pass /\ e.subs = rq[r].subs /\ e.sub = rq[r].sub
    BY <1>1 DEF RequestInv, RequestFields, Scan
  <2> HIDE DEF e
  <2>1. RequestInv(e, built)
    BY <1>1, <2>0, ScanBegins DEF MayWarm
  <2>2. Set(r, e)
    BY <1>2 DEF e
  <2> QED
    BY <1>1, <2>1, <2>2, SetAlone DEF indexvars
<1>3. ASSUME NEW a \in {"503 warming", "502 failed", "still_indexing", "index_failed"}, Reply(r, a)
      PROVE  ServiceInv'
  BY <1>1, <1>3, ReplyKeeps DEF indexvars
<1>4. CASE Rest(r)
  <2>1. rest_gate(r)
    BY <1>4 DEF Gate
  <2>2. CASE rq[r].plan = "Timeout"
    BY <1>3, <2>1, <2>2 DEF rest_gate
  <2>3. CASE rq[r].plan = "Failed"
    BY <1>3, <2>1, <2>3 DEF rest_gate
  <2>4. CASE rq[r].plan # "Timeout" /\ rq[r].plan # "Failed"
    BY <1>2, <2>1, <2>4 DEF rest_gate
  <2> QED
    BY <2>2, <2>3, <2>4
<1>5. CASE ~Rest(r)
  <2>1. query_with(r)
    BY <1>5 DEF Gate
  <2>2. CASE rq[r].plan = "Timeout"
    BY <1>3, <2>1, <2>2 DEF query_with
  <2>3. CASE rq[r].plan = "Failed"
    BY <1>3, <2>1, <2>3 DEF query_with
  <2>4. CASE rq[r].plan # "Timeout" /\ rq[r].plan # "Failed"
    BY <1>2, <2>1, <2>4 DEF query_with
  <2> QED
    BY <2>2, <2>3, <2>4
<1> QED
  BY <1>4, <1>5

\* A query answers, or waits for a second attempt; it says "no results" only
\* when it was not warming, and then the repository has had an index.
LEMMA QueryAnswers ==
  ASSUME ServiceInv, NEW r \in Requests, rq[r].pc \in MayWarm,
         UNCHANGED <<idx, statuses, pending, built, channel>>,
         NEW found \in BOOLEAN, NEW warm \in BOOLEAN, NEW rejected \in BOOLEAN,
         do_query(r, found, warm, rejected), found \/ warm \/ rq[r].repo \in built
  PROVE  ServiceInv'
<1> DEFINE e == [Afresh(rq[r]) EXCEPT !.pc = "poll", !.tries = 2, !.waited = 0,
                                      !.budget = mcp_index_wait]
<1>1. RequestInv(rq[r], built) /\ statuses' \subseteq Workspaces
  BY DEF ServiceInv, IndexInv
<1>2. ASSUME NEW a, Reply(r, a), a \in {"no_results", "rejected"} => ~found /\ ~warm
      PROVE  ServiceInv'
  BY <1>1, <1>2, ReplyKeeps
<1>3. CASE found
  BY <1>2, <1>3 DEF do_query
<1>4. CASE ~found /\ warm /\ ~Rest(r) /\ rq[r].tries = 1
  <2>1. Set(r, e)
    BY <1>4 DEF do_query
  <2>2. /\ DOMAIN e = RequestFields /\ e.pc = "poll" /\ e.tries = 2 /\ e.budget = mcp_index_wait
        /\ e.waited = 0 /\ e.warm = 0 /\ e.answer = rq[r].answer /\ Untouched(e)
    BY <1>1 DEF RequestInv, RequestFields, Afresh, Untouched
  <2>3. mcp_index_wait \in Nat /\ sub_query_budget \in Nat
    BY ServiceConstants
  <2>4. e.answer = ""
    BY <1>1, <2>2 DEF RequestInv, AnswerOf, MayWarm
  <2> HIDE DEF e
  <2>5. BudgetOf(e)
    BY <2>2, <2>3 DEF BudgetOf, BeforeWaiting, MayWarm, Untouched
  <2>6. ScansOf(e)
    BY <2>2, <2>3 DEF ScansOf, Untouched
  <2>7. RequestInv(e, built)
    BY <2>2, <2>4, <2>5, <2>6 DEF RequestInv, AnswerOf, Untouched
  <2> QED
    BY <2>1, <2>7, SetAlone
<1>5. CASE ~found /\ ~(warm /\ ~Rest(r) /\ rq[r].tries = 1)
  <2>1. CASE warm
    <3>1. Reply(r, "warming") \/ Reply(r, "warming_retry")
      BY <1>5, <2>1 DEF do_query, select_empty_or_warming_message
    <3> QED
      BY <1>2, <3>1
  <2>2. CASE ~warm
    <3>1. Reply(r, "no_results") \/ Reply(r, "rejected")
      BY <1>5, <2>2 DEF do_query, select_empty_or_warming_message
    <3> QED
      BY <1>2, <1>5, <2>2, <3>1
  <2> QED
    BY <2>1, <2>2
<1> QED
  BY <1>3, <1>4, <1>5

\* A scan ends: with candidates to rerank, in the other class, or with a verdict.
LEMMA GatherStep ==
  ASSUME ServiceInv, NEW r \in Requests, rq[r].pc \in {"search", "recheck"},
         UNCHANGED <<idx, statuses, pending, built, channel>>,
         NEW found \in BOOLEAN, NEW warm \in BOOLEAN,
         gather_with_fallback(r, found, warm), (~found /\ warm) \/ rq[r].repo \in built
  PROVE  ServiceInv'
<1> DEFINE q == rq[r]
<1>1. RequestInv(q, built) /\ q.pc \in MayWarm \ {"gate"}
  BY DEF ServiceInv, MayWarm
<1>2. ASSUME NEW e, Set(r, e), DOMAIN e = RequestFields, e.pc = "rerank", e.scans = q.scans,
             e.waited = q.waited, e.warm = q.warm, e.budget = q.budget, e.tries = q.tries,
             e.answer = q.answer, e.repo = q.repo, e.pass = q.pass, e.subs = q.subs,
             e.sub => q.sub, e.warmed = 0, q.repo \in built
      PROVE  ServiceInv'
  <2>1. e.warmed \in Nat /\ e.warmed <= q.warm
    BY <1>1, <1>2 DEF RequestInv, BudgetOf
  <2>2. RequestInv(e, built)
    BY <1>1, <1>2, <2>1, ScanMoves DEF MayWarm
  <2> QED
    BY <1>2, <2>2, SetAlone
<1>3. CASE q.sub /\ Set(r, [q EXCEPT !.pc = "rerank", !.sub = FALSE, !.warmed = 0])
  <2>1. q.repo \in built
    BY <1>1, <1>3 DEF RequestInv, AnswerOf
  <2> QED
    BY <1>1, <1>2, <1>3, <2>1 DEF RequestInv, RequestFields
<1>4. CASE found /\ Set(r, [q EXCEPT !.pc = "rerank", !.part = warm, !.warmed = 0])
  BY <1>1, <1>2, <1>4 DEF RequestInv, RequestFields
<1>5. CASE q.pass = "retry" /\ do_query(r, FALSE, FALSE, TRUE)
  <2>1. q.repo \in built
    BY <1>1, <1>5 DEF RequestInv, AnswerOf
  <2> QED
    BY <1>1, <1>5, <2>1, QueryAnswers
<1>6. CASE ~found /\ do_query(r, FALSE, warm, FALSE)
  BY <1>1, <1>6, QueryAnswers
<1>7. CASE q.pass = "requested" /\ ~q.sub /\ Set(r, Scan([q EXCEPT !.pass = "fallback"]))
  <2> DEFINE e == Scan([q EXCEPT !.pass = "fallback"])
  <2>1. /\ DOMAIN e = RequestFields /\ e.pc = "search" /\ e.warmed = 0 /\ e.scans = q.scans + 1
        /\ e.waited = q.waited /\ e.warm = q.warm /\ e.budget = q.budget /\ e.tries = q.tries
        /\ e.answer = q.answer /\ e.repo = q.repo /\ e.pass = "fallback" /\ e.subs = q.subs
        /\ ~e.sub
    BY <1>1, <1>7 DEF RequestInv, RequestFields, Scan
  <2>2. Set(r, e)
    BY <1>7
  <2> HIDE DEF e
  <2>3. RequestInv(e, built)
    BY <1>1, <1>7, <2>1, ScanBegins
  <2> QED
    BY <2>2, <2>3, SetAlone
<1> QED
  BY <1>3, <1>4, <1>5, <1>6, <1>7 DEF gather_with_fallback

\* What a shard or a snapshot answers from was once published.
LEMMA HitAnswers ==
  ASSUME ServiceInv, NEW r \in Requests, rq[r].pc \in {"search", "recheck"},
         UNCHANGED <<idx, statuses, pending, built, channel>>, Hit(r),
         rq[r].repo \in Workspaces, idx[rq[r].repo].live \/ idx[rq[r].repo].snap
  PROVE  ServiceInv'
<1>1. rq[r].repo \in built
  BY DEF ServiceInv, IndexInv
<1>2. PICK found \in BOOLEAN, warm \in BOOLEAN : gather_with_fallback(r, found, warm)
  BY DEF Hit
<1> QED
  BY <1>1, <1>2, GatherStep

\* The rerank answers, searches again, or sends a rejected request to the other
\* class.
LEMMA CandidatesStep ==
  ASSUME ServiceInv, NEW r \in Requests, rerank_candidates(r)
  PROVE  ServiceInv'
<1> DEFINE q == rq[r]
<1>1. /\ RequestInv(q, built) /\ q.pc = "rerank" /\ q.pc \in MayWarm /\ q.repo \in built
      /\ UNCHANGED <<idx, statuses, pending, built, channel>> /\ statuses \subseteq Workspaces
  BY DEF ServiceInv, IndexInv, rerank_candidates, At, MayWarm, indexvars, RequestInv, AnswerOf
<1>2. ASSUME NEW warm, warm \in {q.part, TRUE}, NEW found \in BOOLEAN,
             \/ found /\ do_query(r, TRUE, warm, FALSE)
             \/ ~found /\ do_query(r, FALSE, warm, ~warm)
      PROVE  ServiceInv'
  <2>1. ASSUME NEW a, Reply(r, a)
        PROVE  ServiceInv'
    BY <1>1, <2>1, ReplyKeeps
  <2>2. CASE found
    BY <1>2, <2>1, <2>2 DEF do_query
  <2>3. CASE ~found /\ (warm /\ ~Rest(r) /\ rq[r].tries = 1)
    <3>1. do_query(r, FALSE, TRUE, FALSE)
      BY <1>2, <2>3 DEF do_query
    <3> QED
      BY <1>1, <3>1, QueryAnswers
  <2>4. CASE ~found /\ ~(warm /\ ~Rest(r) /\ rq[r].tries = 1)
    BY <1>2, <2>1, <2>4 DEF do_query
  <2> QED
    BY <2>2, <2>3, <2>4
<1>3. CASE q.pass = "retry" /\ do_query(r, FALSE, FALSE, TRUE)
  BY <1>1, <1>3, QueryAnswers
<1>4. CASE q.subs < sub_query_budget /\ Set(r, Scan([q EXCEPT !.subs = @ + 1, !.sub = TRUE]))
  <2> DEFINE e == Scan([q EXCEPT !.subs = @ + 1, !.sub = TRUE])
  <2>1. /\ DOMAIN e = RequestFields /\ e.pc = "search" /\ e.warmed = 0 /\ e.scans = q.scans + 1
        /\ e.waited = q.waited /\ e.warm = q.warm /\ e.budget = q.budget /\ e.tries = q.tries
        /\ e.answer = q.answer /\ e.repo = q.repo /\ e.pass = q.pass /\ e.subs = q.subs + 1
    BY <1>1 DEF RequestInv, RequestFields, Scan
  <2>2. Set(r, e)
    BY <1>4
  <2> HIDE DEF e
  <2>3. RequestInv(e, built)
    BY <1>1, <1>4, <2>1, ScanBegins
  <2> QED
    BY <1>1, <2>2, <2>3, SetAlone
<1>5. CASE q.pass = "requested" /\ Set(r, Scan([q EXCEPT !.pass = "retry", !.subs = 0]))
  <2> DEFINE e == Scan([q EXCEPT !.pass = "retry", !.subs = 0])
  <2>1. /\ DOMAIN e = RequestFields /\ e.pc = "search" /\ e.warmed = 0 /\ e.scans = q.scans + 1
        /\ e.waited = q.waited /\ e.warm = q.warm /\ e.budget = q.budget /\ e.tries = q.tries
        /\ e.answer = q.answer /\ e.repo = q.repo /\ e.pass = "retry" /\ e.subs = 0
    BY <1>1 DEF RequestInv, RequestFields, Scan
  <2>2. Set(r, e)
    BY <1>5
  <2> HIDE DEF e
  <2>3. RequestInv(e, built)
    BY <1>1, <1>5, <2>1, ScanBegins
  <2> QED
    BY <1>1, <2>2, <2>3, SetAlone
<1> QED
  BY <1>2, <1>3, <1>4, <1>5 DEF rerank_candidates

LEMMA SearchStep ==
  ASSUME ServiceInv, NEW r \in Requests, QueryFails(r) \/ Search(r) \/ Recheck(r)
  PROVE  ServiceInv'
<1>1. RequestInv(rq[r], built) /\ statuses \subseteq Workspaces
  BY DEF ServiceInv, IndexInv
<1>2. CASE QueryFails(r)
  <2> DEFINE q == rq[r]
             e == [q EXCEPT !.pc = "rerank", !.sub = FALSE]
  <2>1. q.pc = "search" /\ UNCHANGED <<idx, statuses, pending, built, channel>>
    BY <1>2 DEF QueryFails, At, indexvars
  <2>2. CASE q.sub /\ Set(r, e)
    <3>1. /\ DOMAIN e = RequestFields /\ e.pc = "rerank" /\ e.scans = q.scans /\ e.pass = q.pass
          /\ e.waited = q.waited /\ e.warm = q.warm /\ e.budget = q.budget /\ e.tries = q.tries
          /\ e.answer = q.answer /\ e.repo = q.repo /\ e.subs = q.subs /\ ~e.sub
          /\ e.warmed = q.warmed
      BY <1>1 DEF RequestInv, RequestFields
    <3>2. q.repo \in built /\ q.warmed \in Nat /\ q.warmed <= q.warm
      BY <1>1, <2>1, <2>2 DEF RequestInv, AnswerOf, BudgetOf, MayWarm
    <3> HIDE DEF e
    <3>3. RequestInv(e, built)
      BY <1>1, <2>1, <3>1, <3>2, ScanMoves DEF MayWarm
    <3> QED
      BY <2>1, <2>2, <3>3, SetAlone
  <2>3. CASE q.pass = "retry" /\ do_query(r, FALSE, FALSE, TRUE)
    <3>1. q.repo \in built
      BY <1>1, <2>3 DEF RequestInv, AnswerOf
    <3> QED
      BY <2>1, <2>3, <3>1, QueryAnswers DEF MayWarm
  <2>4. CASE Reply(r, "query_failed")
    BY <1>1, <2>1, <2>4, ReplyKeeps
  <2> QED
    BY <1>2, <2>2, <2>3, <2>4 DEF QueryFails
<1>3. CASE Search(r)
  <2>1. rq[r].pc = "search" /\ UNCHANGED <<idx, statuses, pending, built, channel>>
    BY <1>3 DEF Search, At, indexvars
  <2> DEFINE w == rq[r].repo
             e == [rq[r] EXCEPT !.pc = "warm"]
  <2>2. CASE w \in Workspaces /\ idx[w].live
    BY <1>3, <2>1, <2>2, HitAnswers DEF Search
  <2>3. CASE w \in Workspaces /\ ~idx[w].live /\ idx[w].fenced
    <3>1. CASE idx[w].snap
      BY <1>3, <2>1, <2>3, <3>1, HitAnswers DEF Search
    <3>2. CASE ~idx[w].snap
      <4>1. gather_with_fallback(r, FALSE, TRUE)
        BY <1>3, <2>3, <3>2 DEF Search
      <4> QED
        BY <2>1, <4>1, GatherStep
    <3> QED
      BY <3>1, <3>2
  <2>4. CASE ~(w \in Workspaces /\ idx[w].live) /\ ~(w \in Workspaces /\ ~idx[w].live /\ idx[w].fenced)
    <3>1. Set(r, e)
      BY <1>3, <2>4 DEF Search
    <3>2. RequestInv(e, built)
      BY <1>1, <2>1 DEF RequestInv, RequestFields, BudgetOf, ScansOf, AnswerOf, Untouched, BeforeWaiting, MayWarm
    <3> HIDE DEF e
    <3> QED
      BY <2>1, <3>1, <3>2, SetAlone
  <2> QED
    BY <2>2, <2>3, <2>4
<1>4. CASE Recheck(r)
  <2>1. rq[r].pc = "recheck" /\ UNCHANGED <<idx, statuses, pending, built, channel>>
    BY <1>4 DEF Recheck, At, indexvars
  <2> DEFINE w == rq[r].repo
  <2>2. CASE w \in Workspaces /\ (idx[w].live \/ (idx[w].fenced /\ idx[w].snap))
    BY <1>4, <2>1, <2>2, HitAnswers DEF Recheck
  <2>3. CASE ~(w \in Workspaces /\ (idx[w].live \/ (idx[w].fenced /\ idx[w].snap)))
    <3>1. gather_with_fallback(r, FALSE, TRUE)
      BY <1>4, <2>3 DEF Recheck
    <3> QED
      BY <2>1, <3>1, GatherStep
  <2> QED
    BY <2>2, <2>3
<1> QED
  BY <1>2, <1>3, <1>4

\* The warm installs, is refused, or takes an interval of what is left.
LEMMA WarmStep ==
  ASSUME ServiceInv, NEW r \in Requests, WarmInstalls(r) \/ WarmRefused(r) \/ WarmTick(r)
  PROVE  ServiceInv'
<1> DEFINE e == [rq[r] EXCEPT !.pc = "recheck"]
<1>1. RequestInv(rq[r], built) /\ rq[r].pc = "warm" /\ channel' = channel /\ built' = built
  BY DEF ServiceInv, WarmInstalls, WarmRefused, WarmTick, At, indexvars
<1>2. RequestInv(e, built)
  BY <1>1 DEF RequestInv, RequestFields, BudgetOf, ScansOf, AnswerOf, Untouched, BeforeWaiting, MayWarm
<1>3. CASE WarmInstalls(r)
  <2> DEFINE w == rq[r].repo
  <2>1. w \in Workspaces /\ idx[w].marker /\ Set(r, e)
    BY <1>3 DEF WarmInstalls, Installable
  <2>2. idx' = [idx EXCEPT ![w] = [idx[w] EXCEPT !.live = TRUE]]
    BY <1>3, <2>1 DEF WarmInstalls, ServiceInv, IndexInv
  <2>3. /\ DOMAIN idx[w] = IndexFields /\ idx[w].run \in RunStates /\ w \in built
        /\ statuses' \subseteq Workspaces /\ pending' \subseteq Workspaces
    BY <1>3, <2>1 DEF WarmInstalls, ServiceInv, IndexInv
  <2>4. IndexInv'
    <3> DEFINE i == [idx[w] EXCEPT !.live = TRUE]
    <3>1. DOMAIN i = IndexFields /\ i.run \in RunStates
      BY <2>3 DEF IndexFields
    <3>2. idx' = [idx EXCEPT ![w] = i] /\ IndexInv
      BY <2>2 DEF ServiceInv
    <3> HIDE DEF i, w
    <3> QED
      BY <1>1, <2>1, <2>3, <3>1, <3>2, OneIndex
  <2> HIDE DEF e
  <2> QED
    BY <1>1, <1>2, <2>1, <2>4, SetKeeps
<1>4. CASE WarmRefused(r)
  <2>1. Set(r, e) /\ UNCHANGED indexvars
    BY <1>4 DEF WarmRefused
  <2> HIDE DEF e
  <2> QED
    BY <1>1, <1>2, <2>1, SetAlone DEF indexvars
<1>5. CASE WarmTick(r)
  <2> DEFINE f == [rq[r] EXCEPT !.warmed = @ + 1]
  <2>1. Set(r, IF rq[r].warmed = rq[r].warm THEN e ELSE f) /\ UNCHANGED indexvars
    BY <1>5 DEF WarmTick
  <2>2. CASE rq[r].warmed = rq[r].warm
    <3>1. Set(r, e)
      BY <2>1, <2>2
    <3> HIDE DEF e
    <3> QED
      BY <1>1, <1>2, <2>1, <3>1, SetAlone DEF indexvars
  <2>3. CASE rq[r].warmed # rq[r].warm
    <3>1. rq[r].warmed \in Nat /\ rq[r].warm \in Nat /\ rq[r].warmed <= rq[r].warm
      BY <1>1 DEF RequestInv, BudgetOf, MayWarm
    <3>2. rq[r].warmed + 1 \in Nat /\ rq[r].warmed + 1 <= rq[r].warm
      BY <2>3, <3>1
    <3>3. /\ DOMAIN f = RequestFields /\ f.pc = "warm" /\ f.scans = rq[r].scans
          /\ f.waited = rq[r].waited /\ f.warm = rq[r].warm /\ f.budget = rq[r].budget
          /\ f.tries = rq[r].tries /\ f.answer = rq[r].answer /\ f.repo = rq[r].repo
          /\ f.pass = rq[r].pass /\ f.subs = rq[r].subs /\ f.sub = rq[r].sub
          /\ f.warmed = rq[r].warmed + 1
      BY <1>1 DEF RequestInv, RequestFields
    <3>4. Set(r, f)
      BY <2>1, <2>3
    <3> HIDE DEF f
    <3>5. RequestInv(f, built)
      BY <1>1, <3>2, <3>3, ScanMoves DEF MayWarm
    <3> QED
      BY <1>1, <2>1, <3>4, <3>5, SetAlone DEF indexvars
  <2> QED
    BY <2>2, <2>3
<1> QED
  BY <1>3, <1>4, <1>5

\* The heartbeat ends; the chunks of one file are ranked.
LEMMA SideStep ==
  ASSUME ServiceInv, NEW r \in Requests, HeartbeatEnds(r) \/ run_file_retrieval(r)
  PROVE  ServiceInv'
<1>1. RequestInv(rq[r], built) /\ statuses \subseteq Workspaces
  BY DEF ServiceInv, IndexInv
<1>2. CASE HeartbeatEnds(r)
  <2> DEFINE e == [rq[r] EXCEPT !.beating = FALSE]
  <2>1. Set(r, e) /\ UNCHANGED <<indexvars, channel>>
    BY <1>2 DEF HeartbeatEnds
  <2>2. RequestInv(e, built)
    BY <1>1 DEF RequestInv, RequestFields, BudgetOf, ScansOf, AnswerOf, Untouched, BeforeWaiting, MayWarm
  <2> HIDE DEF e
  <2> QED
    BY <2>1, <2>2, SetAlone DEF indexvars
<1>3. CASE run_file_retrieval(r)
  <2>1. UNCHANGED <<indexvars, channel>>
    BY <1>3 DEF run_file_retrieval
  <2>2. \E a \in {"no_keys", "database", "client", "embedding", "no_chunks", "no_relevant_chunks",
                  "file_results"} : Reply(r, a)
    BY <1>3 DEF run_file_retrieval
  <2> QED
    BY <1>1, <2>1, <2>2, ReplyKeeps DEF indexvars
<1> QED
  BY <1>2, <1>3

-----------------------------------------------------------------------------
(* The theorems.                                                           *)

\* The invariant they rest on.
LEMMA ServiceInvariant == SSpec => []ServiceInv
<1>1. SInit => ServiceInv
  <2> SUFFICES ASSUME SInit PROVE ServiceInv
    OBVIOUS
  <2>1. RequestInv(NewRequest, built)
    <3>1. DOMAIN NewRequest = RequestFields
      BY DEF NewRequest, RequestFields
    <3>2. BudgetOf(NewRequest) /\ ScansOf(NewRequest)
      BY ServiceConstants DEF NewRequest, BudgetOf, ScansOf, Untouched, BeforeWaiting, MayWarm
    <3> QED
      BY <3>1, <3>2 DEF RequestInv, AnswerOf, NewRequest
  <2>2. DOMAIN rq = Requests /\ \A r \in Requests : rq[r] = NewRequest
    BY DEF SInit
  <2>3. ASSUME NEW w \in Workspaces
        PROVE  /\ DOMAIN idx[w] = IndexFields /\ idx[w].run \in RunStates
               /\ idx[w].live \/ idx[w].snap \/ idx[w].marker => w \in built
    <3>1. \/ idx[w] = NeverIndexed
          \/ \E s \in {"none", "recent", "old"} : idx[w] = Indexed(s)
          \/ \E s \in {"none", "recent"}, c \in BOOLEAN : idx[w] = Broken(s, c)
      BY DEF SInit
    <3>2. idx[w].snap => w \in built
      BY DEF SInit
    <3>3. CASE idx[w] = NeverIndexed
      BY <3>2, <3>3 DEF NeverIndexed, IndexFields, RunStates
    <3>4. ASSUME NEW s, idx[w] = Indexed(s)
          PROVE  DOMAIN idx[w] = IndexFields /\ idx[w].run \in RunStates /\ idx[w].snap
      BY <3>4 DEF Indexed, NeverIndexed, IndexFields, RunStates
    <3>5. ASSUME NEW s, NEW c, idx[w] = Broken(s, c)
          PROVE  /\ DOMAIN idx[w] = IndexFields /\ idx[w].run \in RunStates
                 /\ ~idx[w].live /\ ~idx[w].marker
      BY <3>5 DEF Broken, NeverIndexed, IndexFields, RunStates
    <3> QED
      BY <3>1, <3>2, <3>3, <3>4, <3>5
  <2>4. IndexInv
    <3>1. DOMAIN idx = Workspaces /\ statuses \subseteq Workspaces /\ channel = <<>> /\ pending = {}
      BY DEF SInit
    <3> QED
      BY <2>3, <3>1 DEF IndexInv
  <2> QED
    BY <2>1, <2>2, <2>4 DEF ServiceInv
<1>2. ServiceInv /\ [SNext]_svars => ServiceInv'
  <2> SUFFICES ASSUME ServiceInv, [SNext]_svars PROVE ServiceInv'
    OBVIOUS
  <2>1. CASE Consume \/ IndexSide
    BY <2>1, IndexStep
  <2>2. ASSUME NEW r \in Requests, Arrives(r) \/ RequestStep(r) \/ HeartbeatEnds(r)
        PROVE  ServiceInv'
    BY <2>2, ArriveStep, ReadyStep, TriggerStep, PollStep, GateStep, SearchStep,
       CandidatesStep, WarmStep, SideStep
       DEF RequestStep
  <2>3. CASE UNCHANGED svars
    BY <2>3 DEF svars, indexvars, ServiceInv, IndexInv
  <2> QED
    BY <2>1, <2>2, <2>3 DEF SNext
<1> QED
  BY <1>1, <1>2, PTL DEF SSpec

\* "No results" and "rejected" are said of a repository whose index was once
\* published, however runs, evictions, warms and other requests interleave
\* (await_index_ready, query_with, select_empty_or_warming_message).
THEOREM EmptyIsAVerdict == SSpec => []NoFalseEmpty
<1>1. ServiceInv => NoFalseEmpty
  BY DEF ServiceInv, RequestInv, AnswerOf, NoFalseEmpty
<1> QED
  BY <1>1, ServiceInvariant, PTL

\* What the wait for the run spends of an attempt's budget no scan of the
\* attempt spends again, and the scans that each may spend the rest are at most
\* two passes and the agent's searches, for every budget (wait_for_run,
\* budget_left, gather_with_fallback, retry_on_rerank_rejection).
THEOREM ScansWithinBudget == SSpec => []WaitBudget
<1>1. ServiceInv => WaitBudget
  <2> SUFFICES ASSUME ServiceInv, NEW r \in Requests
               PROVE  /\ rq[r].waited + rq[r].warmed <= mcp_index_wait + 1
                      /\ rq[r].scans <= 2 + 2 * sub_query_budget
    BY DEF WaitBudget
  <2>1. BudgetOf(rq[r]) /\ ScansOf(rq[r])
    BY DEF ServiceInv, RequestInv
  <2> QED
    BY <2>1, ServiceConstants DEF BudgetOf, ScansOf
<1> QED
  BY <1>1, ServiceInvariant, PTL

-----------------------------------------------------------------------------
(* Chat: the floor of a turn and the transcript of a dialog                *)

TurnFields == {"pc", "conv", "repo", "floor", "strict", "replay", "context", "round", "calls",
               "distinct", "answer", "evidence", "shown", "final", "event", "queries"}
BeforeAnswer == {"new", "snapshot", "context", "ask", "tool", "final"}

\* The answer that is stored is the one that was shown.
AsShown(t) == /\ t.answer = "text" => t.shown = "text"
              /\ t.answer = "fallback" <=> t.shown = "fallback"

\* A turn: what it counts are its searches, and it has no answer before it stores.
TurnInv(t) ==
    /\ DOMAIN t = TurnFields
    /\ t.pc \in BeforeAnswer \cup {"store", "done"}
    /\ t.floor \in Nat /\ t.evidence \in BOOLEAN
    /\ t.queries \subseteq Queries /\ IsFiniteSet(t.distinct)
    /\ t.distinct = {Canon[q] : q \in t.queries}
    /\ t.pc \in BeforeAnswer => t.answer = ""
    /\ t.pc = "store" => t.answer \in {"", "blank", "text", "fallback"} /\ AsShown(t)
    /\ t.pc = "store" /\ ~t.final /\ t.strict => t.floor <= Cardinality(t.distinct)

Transcript == [n : 0 .. ChatTurns, answer : {"text", "fallback", "backfill"}, evidence : BOOLEAN]

\* A stored turn is over, and with Done.
StoredAs(history, c, t) ==
    t.n # 0 => /\ history[t.n].pc = "done" /\ history[t.n].event = "Done"
               /\ history[t.n].conv = c
               /\ t.answer = "text" => history[t.n].shown = "text"
               /\ t.answer = "fallback" <=> history[t.n].shown = "fallback"

ConvInv ==
    \A c \in DOMAIN convs :
        /\ DOMAIN convs[c] = {"repo", "turns"} /\ convs[c].turns \in Seq(Transcript)
        /\ \A k \in DOMAIN convs[c].turns : StoredAs(chat, c, convs[c].turns[k])

ChatInv == DOMAIN chat = Turns /\ (\A i \in Turns : TurnInv(chat[i])) /\ ConvInv

\* A turn that is not over moves on; the transcripts are left alone.
LEMMA TurnMoves ==
    ASSUME ChatInv, NEW i \in Turns, chat[i].pc # "done", NEW e, TurnInv(e), Put(i, e),
           convs' = convs
    PROVE  ChatInv'
<1>1. DOMAIN chat' = Turns /\ chat'[i] = e /\ \A j \in Turns : j # i => chat'[j] = chat[j]
  BY DEF ChatInv, Put
<1>2. \A j \in Turns : TurnInv(chat'[j])
  BY <1>1 DEF ChatInv
<1>3. ConvInv'
  <2> SUFFICES ASSUME NEW c \in DOMAIN convs
               PROVE  /\ DOMAIN convs[c] = {"repo", "turns"}
                      /\ convs[c].turns \in Seq(Transcript)
                      /\ \A k \in DOMAIN convs[c].turns : StoredAs(chat', c, convs[c].turns[k])
    BY DEF ConvInv
  <2>1. ASSUME NEW k \in DOMAIN convs[c].turns PROVE StoredAs(chat', c, convs[c].turns[k])
    <3> DEFINE t == convs[c].turns[k]
    <3>1. t \in Transcript /\ StoredAs(chat, c, t)
      BY DEF ChatInv, ConvInv
    <3>2. t.n # 0 => t.n \in Turns /\ t.n # i
      BY <3>1, ChatConstants DEF Transcript, StoredAs, Turns
    <3> QED
      BY <1>1, <3>1, <3>2 DEF StoredAs
  <2> QED
    BY <2>1 DEF ChatInv, ConvInv
<1> QED
  BY <1>1, <1>2, <1>3 DEF ChatInv

LEMMA NewTurnInv == TurnInv(NewTurn)
<1>1. IsFiniteSet({}) /\ {Canon[q] : q \in {}} = {}
  BY FS_EmptySet
<1> QED
  BY <1>1 DEF NewTurn, TurnInv, TurnFields, BeforeAnswer, AsShown

\* A turn that ends carries nothing but its end.
LEMMA EndInv ==
    ASSUME NEW i, NEW event
    PROVE  TurnInv([NewTurn EXCEPT !.pc = "done", !.conv = chat[i].conv, !.event = event,
                                   !.shown = chat[i].shown])
<1>1. IsFiniteSet({}) /\ {Canon[q] : q \in {}} = {}
  BY FS_EmptySet
<1> QED
  BY <1>1 DEF NewTurn, TurnInv, TurnFields, BeforeAnswer, AsShown

LEMMA EndsMoves ==
    ASSUME ChatInv, NEW i \in Turns, chat[i].pc # "done", NEW event, Ends(i, event),
           convs' = convs
    PROVE  ChatInv'
BY EndInv, TurnMoves DEF Ends

LEMMA MaxOfTwo ==
    ASSUME NEW m \in Int, NEW n \in Int
    PROVE  Max({m, n}) \in {m, n} /\ Max({m, n}) >= m /\ Max({m, n}) >= n
<1>1. \E x \in {m, n} : \A y \in {m, n} : x >= y
  BY m >= n \/ n >= m
<1> QED
  BY <1>1 DEF Max

LEMMA FloorIsNatural ==
    ASSUME NEW numbers \in {{}, {1}, {0, MAX_TURNS}}
    PROVE  requested_search_floor(numbers) \in Nat
<1> DEFINE named == {n \in numbers : n # 0}
           limit == MAX_REQUESTED_SEARCHES
<1>1. limit \in Nat
  BY ChatConstants DEF MAX_REQUESTED_SEARCHES
<1>2. CASE named = {}
  BY <1>2 DEF requested_search_floor
<1>3. CASE named # {}
  <2>1. PICK n \in Nat : named = {n}
    <3>1. named = {1} \/ named = {MAX_TURNS}
      BY <1>3, ChatConstants
    <3> QED
      BY <3>1, ChatConstants
  <2>2. Max(named) = n
    BY <2>1, MaxOfTwo
  <2>3. \E x \in {n, limit} : \A y \in {n, limit} : x <= y
    BY <1>1, <2>1, n <= limit \/ limit <= n
  <2>4. Min({n, limit}) \in {n, limit}
    BY <2>3 DEF Min
  <2>5. requested_search_floor(numbers) = Min({n, limit})
    BY <1>3, <2>2 DEF requested_search_floor
  <2> QED
    BY <1>1, <2>1, <2>4, <2>5
<1> QED
  BY <1>2, <1>3

LEMMA PostStep == ASSUME ChatInv, NEW i \in Turns, post_repo_chat(i) PROVE ChatInv'
<1>0. PICK c \in ConvIds \cup {""}, r \in ChatRepos,
           numbers \in IF i \in SearchingTurns THEN {{}, {1}, {0, MAX_TURNS}} ELSE {{}},
           llm \in build_chat_llm :
        LET t == [chat[i] EXCEPT !.conv = c, !.repo = r, !.strict = llm = "strict",
                                 !.floor = requested_search_floor(numbers)]
        IN  IF c = "" \/ llm = "none"
            THEN Ends(i, "Error")
            ELSE Put(i, [t EXCEPT !.pc = "snapshot"])
  BY Zenon DEF post_repo_chat
<1>1. numbers \in {{}, {1}, {0, MAX_TURNS}}
  BY <1>0
<1>2. chat[i].pc = "new" /\ convs' = convs /\ TurnInv(chat[i])
  BY DEF post_repo_chat, ChatInv
<1>3. CASE Ends(i, "Error")
  BY <1>2, <1>3, EndsMoves
<1>4. CASE ~Ends(i, "Error")
  <2> DEFINE t == [chat[i] EXCEPT !.conv = c, !.repo = r, !.strict = llm = "strict",
                                  !.floor = requested_search_floor(numbers)]
             e == [t EXCEPT !.pc = "snapshot"]
  <2>1. Put(i, e)
    BY <1>0, <1>4
  <2>2. TurnInv(e)
    BY <1>1, <1>2, FloorIsNatural DEF TurnInv, TurnFields, BeforeAnswer
  <2> HIDE DEF e
  <2> QED
    BY <1>2, <2>1, <2>2, TurnMoves
<1> QED
  BY <1>3, <1>4

LEMMA ReplayStep ==
    ASSUME ChatInv, NEW i \in Turns, snapshot(i) \/ recent_tool_context(i)
    PROVE  ChatInv'
<1>1. /\ chat[i].pc \in {"snapshot", "context"} /\ convs' = convs /\ TurnInv(chat[i])
      /\ \/ \E x : Put(i, [chat[i] EXCEPT !.pc = "context", !.replay = x])
         \/ \E x : Put(i, [chat[i] EXCEPT !.pc = "ask", !.context = x])
         \/ Put(i, [chat[i] EXCEPT !.pc = "context"])
         \/ Put(i, [chat[i] EXCEPT !.pc = "ask"])
  BY DEF snapshot, recent_tool_context, ChatInv
<1>2. ASSUME NEW e, Put(i, e), DOMAIN e = DOMAIN chat[i],
             \A k \in DOMAIN chat[i] \ {"pc", "replay", "context"} : e[k] = chat[i][k],
             e.pc \in {"context", "ask"}
      PROVE  ChatInv'
  <2>1. TurnInv(e)
    BY <1>1, <1>2 DEF TurnInv, TurnFields, BeforeAnswer, AsShown
  <2> QED
    BY <1>1, <1>2, <2>1, TurnMoves
<1>3. DOMAIN chat[i] = TurnFields
  BY <1>1 DEF TurnInv
<1> QED
  BY <1>1, <1>2, <1>3 DEF TurnFields

LEMMA NotBelow == \A m, n \in Nat : ~(n > 0 /\ m < n) => n <= m
BY SMTT(60)

\* On an endpoint that honours "required", text comes only once the floor is met.
LEMMA RoundStep == ASSUME ChatInv, NEW i \in Turns, Round(i) PROVE ChatInv'
<1> DEFINE t == [chat[i] EXCEPT !.round = @ + 1]
<1>1. chat[i].pc = "ask" /\ convs' = convs /\ TurnInv(chat[i])
  BY DEF Round, ChatInv
<1>2. ASSUME NEW text \in {"", "blank", "text"}, ~(Forced(i) /\ chat[i].strict),
             Put(i, [Shows(t, text) EXCEPT !.answer = text,
                       !.pc = IF text = "" THEN "final" ELSE "store"])
      PROVE  ChatInv'
  <2> DEFINE e == [Shows(t, text) EXCEPT !.answer = text,
                     !.pc = IF text = "" THEN "final" ELSE "store"]
  <2>1. chat[i].strict => chat[i].floor <= Cardinality(chat[i].distinct)
    <3>1. IsFiniteSet(chat[i].distinct) /\ chat[i].floor \in Nat
      BY <1>1 DEF TurnInv
    <3>2. Cardinality(chat[i].distinct) \in Nat
      BY <3>1, FS_CardinalityType
    <3>3. SUFFICES ASSUME chat[i].strict
                   PROVE  chat[i].floor <= Cardinality(chat[i].distinct)
      OBVIOUS
    <3>4. ~Forced(i)
      BY <1>2, <3>3
    <3> QED
      BY <3>1, <3>2, <3>4, NotBelow DEF Forced
  <2>2. TurnInv(e)
    BY <1>1, <2>1 DEF TurnInv, TurnFields, BeforeAnswer, AsShown, Shows
  <2> HIDE DEF e
  <2> QED
    BY <1>1, <1>2, <2>2, TurnMoves DEF e
<1>3. ASSUME NEW k \in 1 .. MaxToolCalls, NEW text \in {"", "text"},
             Put(i, [Shows(t, text) EXCEPT !.pc = "tool", !.calls = k])
      PROVE  ChatInv'
  <2>1. TurnInv([Shows(t, text) EXCEPT !.pc = "tool", !.calls = k])
    BY <1>1 DEF TurnInv, TurnFields, BeforeAnswer, AsShown, Shows
  <2> QED
    BY <1>1, <1>3, <2>1, TurnMoves
<1>4. CASE Ends(i, "Error")
  BY <1>1, <1>4, EndsMoves
<1> QED
  BY <1>2, <1>3, <1>4 DEF Round

\* What counts towards the floor are the successful searches.
LEMMA CallStep == ASSUME ChatInv, NEW i \in Turns, RunCall(i) PROVE ChatInv'
<1> SUFFICES ASSUME NEW call \in ToolCall, NEW ok \in run_tool(call),
                    NEW kept \in summarize_tool_result(ok),
                    chat[i].pc = "tool", convs' = convs,
                    LET t == chat[i] IN
                    Put(i, [t EXCEPT !.calls = @ - 1, !.distinct = Counted(@, call, ok),
                             !.queries = IF ok /\ call.search THEN @ \cup {call.query} ELSE @,
                             !.evidence = @ \/ kept,
                             !.pc = CASE t.calls > 1 -> "tool"
                                      [] t.calls = 1 /\ t.round < MAX_TURNS -> "ask"
                                      [] OTHER -> "final"])
             PROVE  ChatInv'
  BY DEF RunCall
<1>1. TurnInv(chat[i])
  BY DEF ChatInv
<1>2. ok \in BOOLEAN /\ ~(ok /\ call.search /\ call.query = "")
  <2>1. CASE call.search /\ call.query = ""
    BY <2>1, Zenon DEF run_tool
  <2>2. CASE ~(call.search /\ call.query = "")
    BY <2>2, Zenon DEF run_tool
  <2> QED
    BY <2>1, <2>2
<1>3. kept \in BOOLEAN
  <2>1. CASE ok
    BY <2>1, Zenon DEF summarize_tool_result
  <2>2. CASE ~ok
    BY <2>2, Zenon DEF summarize_tool_result
  <2> QED
    BY <2>1, <2>2
<1> DEFINE t == chat[i]
           place == CASE t.calls > 1 -> "tool"
                      [] t.calls = 1 /\ t.round < MAX_TURNS -> "ask"
                      [] OTHER -> "final"
           found == IF ok /\ call.search THEN t.queries \cup {call.query} ELSE t.queries
           e == [t EXCEPT !.calls = t.calls - 1, !.distinct = Counted(t.distinct, call, ok),
                          !.queries = found, !.evidence = t.evidence \/ kept, !.pc = place]
<1>4. Put(i, e)
  OBVIOUS
<1>5. ok /\ call.search => call.query \in Queries
  <2>1. CASE call \in [search : {TRUE}, query : Queries \cup {""}]
    <3>1. call.query \in Queries \cup {""}
      BY <2>1
    <3> QED
      BY <1>2, <3>1, Zenon
  <2>2. CASE call = [search |-> FALSE, query |-> ""]
    BY <2>2
  <2> QED
    BY <2>1, <2>2 DEF ToolCall
<1>6. found \subseteq Queries
  BY <1>1, <1>5 DEF TurnInv
<1>7. /\ Counted(t.distinct, call, ok) = {Canon[q] : q \in found}
      /\ IsFiniteSet(Counted(t.distinct, call, ok))
  <2>1. t.distinct = {Canon[q] : q \in t.queries} /\ IsFiniteSet(t.distinct)
    BY <1>1 DEF TurnInv
  <2>2. CASE ok /\ call.search
    <3>1. Counted(t.distinct, call, ok) = t.distinct \cup {Canon[call.query]}
      BY <2>2 DEF Counted, normalize
    <3>2. IsFiniteSet(t.distinct \cup {Canon[call.query]})
      BY <2>1, FS_AddElement
    <3>3. found = t.queries \cup {call.query}
      BY <2>2
    <3> QED
      BY <2>1, <3>1, <3>2, <3>3
  <2>3. CASE ~(ok /\ call.search)
    BY <2>1, <2>3 DEF Counted
  <2> QED
    BY <2>2, <2>3
<1>8. place \in {"tool", "ask", "final"}
  OBVIOUS
<1>9. TurnInv(e)
  <2> HIDE DEF found, place
  <2> QED
    BY <1>1, <1>3, <1>6, <1>7, <1>8 DEF TurnInv, TurnFields, BeforeAnswer
<1> QED
  <2> HIDE DEF e
  <2> QED
    BY <1>1, <1>4, <1>9, TurnMoves

\* The fixed sentence is shown instead of an answer, never behind one.
LEMMA FinalStep == ASSUME ChatInv, NEW i \in Turns, FinalPass(i) PROVE ChatInv'
<1>1. chat[i].pc = "final" /\ convs' = convs /\ TurnInv(chat[i]) /\ chat[i].answer = ""
  BY DEF FinalPass, ChatInv, TurnInv, BeforeAnswer
<1>2. PICK shown \in {"", "blank", "text"}, fails \in BOOLEAN :
         LET t == [Shows(chat[i], shown) EXCEPT !.pc = "store", !.final = TRUE] IN
         Put(i, CASE ~fails /\ shown = "text" -> [t EXCEPT !.answer = "text"]
                  [] (fails \/ shown # "text") /\ FallbackShown(shown) ->
                       [t EXCEPT !.answer = "fallback",
                                 !.shown = IF shown = "" THEN "fallback" ELSE "glued"]
                  [] OTHER -> t)
  BY DEF FinalPass
<1> DEFINE t == [Shows(chat[i], shown) EXCEPT !.pc = "store", !.final = TRUE]
           e == CASE ~fails /\ shown = "text" -> [t EXCEPT !.answer = "text"]
                  [] (fails \/ shown # "text") /\ FallbackShown(shown) ->
                       [t EXCEPT !.answer = "fallback",
                                 !.shown = IF shown = "" THEN "fallback" ELSE "glued"]
                  [] OTHER -> t
<1>3. Put(i, e)
  BY <1>2
<1>4. TurnInv(e)
  <2>1. CASE ~fails /\ shown = "text"
    <3>1. e = [t EXCEPT !.answer = "text"]
      BY <2>1
    <3> QED
      BY <1>1, <2>1, <3>1 DEF TurnInv, TurnFields, BeforeAnswer, AsShown, Shows
  <2>2. CASE (fails \/ shown # "text") /\ shown = ""
    <3>1. e = [t EXCEPT !.answer = "fallback", !.shown = "fallback"]
      BY <2>2 DEF FallbackShown
    <3> QED
      BY <1>1, <2>2, <3>1 DEF TurnInv, TurnFields, BeforeAnswer, AsShown, Shows
  <2>3. CASE (fails \/ shown # "text") /\ shown # ""
    <3>1. e = t
      BY <2>3 DEF FallbackShown
    <3> QED
      BY <1>1, <2>3, <3>1 DEF TurnInv, TurnFields, BeforeAnswer, AsShown, Shows
  <2> QED
    BY <2>1, <2>2, <2>3
<1> QED
  <2> HIDE DEF e
  <2> QED
    BY <1>1, <1>3, <1>4, TurnMoves

LEMMA AppendIs ==
    ASSUME NEW S, NEW s \in Seq(S), NEW x \in S
    PROVE  /\ Append(s, x) \in Seq(S) /\ Len(Append(s, x)) = Len(s) + 1 /\ Len(s) \in Nat
           /\ \A m \in 1 .. Len(s) + 1 : Append(s, x)[m] = IF m = Len(s) + 1 THEN x ELSE s[m]
OBVIOUS

Newest(all, limit) == SubSeq(all, Max({1, Len(all) - limit + 1}), Len(all))

\* The newest of a dialog's turns: what is kept is the new turn and turns it had.
LEMMA KeepsNewest ==
    ASSUME NEW S, NEW old \in Seq(S), NEW new \in S, NEW limit \in Nat \ {0}
    PROVE  /\ Newest(Append(old, new), limit) \in Seq(S)
           /\ \A k \in DOMAIN Newest(Append(old, new), limit) :
                 \/ Newest(Append(old, new), limit)[k] = new
                 \/ \E m \in DOMAIN old : Newest(Append(old, new), limit)[k] = old[m]
<1> DEFINE all == Append(old, new)
           from == Max({1, Len(all) - limit + 1})
           kept == SubSeq(all, from, Len(all))
<1>1. /\ all \in Seq(S) /\ Len(all) = Len(old) + 1 /\ Len(old) \in Nat
      /\ \A m \in 1 .. Len(old) + 1 : all[m] = IF m = Len(old) + 1 THEN new ELSE old[m]
  BY AppendIs
<1> HIDE DEF all
<1>2. from \in 1 .. Len(all)
  <2> DEFINE last == Len(all) - limit + 1
  <2>1. last \in Int /\ last <= Len(all) /\ Len(all) >= 1
    BY <1>1
  <2> HIDE DEF last
  <2>2. Max({1, last}) \in {1, last} /\ Max({1, last}) >= 1
    <3>1. \E x \in {1, last} : \A y \in {1, last} : x >= y
      BY <2>1, 1 >= last \/ last >= 1
    <3> QED
      BY <3>1 DEF Max
  <2>3. Max({1, last}) \in 1 .. Len(all)
    BY <1>1, <2>1, <2>2
  <2> QED
    BY <2>3 DEF last
<1> HIDE DEF from
<1>3. /\ kept \in Seq(S) /\ Len(kept) = Len(all) - from + 1 /\ DOMAIN kept = 1 .. Len(kept)
      /\ \A k \in 1 .. Len(kept) : kept[k] = all[from + k - 1]
  BY <1>1, <1>2
<1> HIDE DEF kept
<1>4. ASSUME NEW k \in DOMAIN kept
      PROVE  kept[k] = new \/ \E m \in DOMAIN old : kept[k] = old[m]
  <2> DEFINE p == from + k - 1
  <2>0. p \in 1 .. Len(old) + 1 /\ kept[k] = all[p]
    BY SMTT(60), <1>1, <1>2, <1>3
  <2> HIDE DEF p
  <2>1. PICK m \in 1 .. Len(old) + 1 : kept[k] = all[m]
    BY <2>0
  <2>2. CASE m = Len(old) + 1
    BY <1>1, <2>1, <2>2
  <2>3. CASE m # Len(old) + 1
    <3>1. m \in 1 .. Len(old) /\ all[m] = old[m]
      BY <1>1, <2>1, <2>3
    <3>2. m \in DOMAIN old
      BY <3>1
    <3> QED
      BY <2>1, <3>1, <3>2
  <2> QED
    BY <2>2, <2>3
<1>5. kept \in Seq(S) /\ \A k \in DOMAIN kept : kept[k] = new \/ \E m \in DOMAIN old : kept[k] = old[m]
  BY <1>3, <1>4
<1> QED
  BY <1>5 DEF kept, from, all, Newest

\* A turn is stored with what was shown, behind what the dialog had.
LEMMA AppendStep == ASSUME ChatInv, NEW i \in Turns, Store(i) PROVE ChatInv'
<1> DEFINE c == chat[i].conv
           told == IF chat[i].answer \in {"", "blank"} THEN "backfill" ELSE chat[i].answer
           new == [n |-> i, answer |-> told, evidence |-> chat[i].evidence]
           old == IF Bound(c, chat[i].repo) THEN convs[c].turns ELSE <<>>
           all == Append(old, new)
           from == Max({1, Len(all) - MAX_TURNS_KEPT + 1})
           kept == SubSeq(all, from, Len(all))
           stored == [repo |-> chat[i].repo, turns |-> kept]
           full == [x \in DOMAIN convs \cup {c} |-> IF x = c THEN stored ELSE convs[x]]
           e == [NewTurn EXCEPT !.pc = "done", !.conv = chat[i].conv, !.event = "Done",
                                !.shown = chat[i].shown]
<1>1. chat[i].pc = "store" /\ TurnInv(chat[i]) /\ Put(i, e)
  BY ZenonT(60) DEF Store, Ends, ChatInv
<1>2. /\ DOMAIN convs' \subseteq DOMAIN full
      /\ \A x \in DOMAIN convs' : convs'[x] = full[x]
  BY DEF Store, append_turn
<1>3. /\ DOMAIN full = DOMAIN convs \cup {c} /\ full[c] = stored
      /\ \A x \in DOMAIN convs : x # c => full[x] = convs[x]
  OBVIOUS
<1>4. new \in Transcript
  <2>1. told \in {"text", "fallback", "backfill"} /\ chat[i].evidence \in BOOLEAN
    BY <1>1 DEF TurnInv
  <2>2. i \in 0 .. ChatTurns
    BY ChatConstants DEF Turns
  <2> HIDE DEF told
  <2> QED
    BY <2>1, <2>2 DEF Transcript
<1>5. old \in Seq(Transcript) /\ \A k \in DOMAIN old : StoredAs(chat, c, old[k])
  BY DEF Bound, ChatInv, ConvInv
<1>6. /\ kept \in Seq(Transcript)
      /\ \A k \in DOMAIN kept : kept[k] = new \/ \E m \in DOMAIN old : kept[k] = old[m]
  <2> HIDE DEF new, old
  <2>1. old \in Seq(Transcript) /\ MAX_TURNS_KEPT \in Nat \ {0}
    BY <1>5, ChatConstants
  <2>2. kept = Newest(Append(old, new), MAX_TURNS_KEPT)
    BY DEF Newest
  <2> HIDE DEF kept
  <2> QED
    BY <1>4, <2>1, <2>2, KeepsNewest
<1>7. DOMAIN chat' = Turns /\ chat'[i] = e /\ \A j \in Turns : j # i => chat'[j] = chat[j]
  BY <1>1 DEF ChatInv, Put
<1>8. \A j \in Turns : TurnInv(chat'[j])
  <2>1. TurnInv(e)
    BY EndInv
  <2> HIDE DEF e
  <2> QED
    BY <1>7, <2>1 DEF ChatInv
<1>9. ASSUME NEW d, NEW t \in Transcript, StoredAs(chat, d, t)
      PROVE  StoredAs(chat', d, t)
  <2>1. t.n # 0 => t.n \in Turns /\ t.n # i
    BY <1>1, <1>9, ChatConstants DEF Transcript, StoredAs, Turns
  <2> QED
    BY <1>7, <1>9, <2>1 DEF StoredAs
<1>10. StoredAs(chat', c, new)
  <2>1. /\ told = "text" => chat[i].shown = "text"
        /\ told = "fallback" <=> chat[i].shown = "fallback"
    BY <1>1 DEF TurnInv, AsShown
  <2>2. chat'[i].pc = "done" /\ chat'[i].event = "Done" /\ chat'[i].conv = c
        /\ chat'[i].shown = chat[i].shown
    BY <1>7 DEF NewTurn
  <2>3. new.n = i /\ new.answer = told
    OBVIOUS
  <2> HIDE DEF told, new, c, e
  <2> QED
    BY <2>1, <2>2, <2>3 DEF StoredAs
<1> HIDE DEF new, old, kept, full, c
<1>11. ConvInv'
  <2> SUFFICES ASSUME NEW d \in DOMAIN convs'
               PROVE  /\ DOMAIN convs'[d] = {"repo", "turns"}
                      /\ convs'[d].turns \in Seq(Transcript)
                      /\ \A k \in DOMAIN convs'[d].turns : StoredAs(chat', d, convs'[d].turns[k])
    BY DEF ConvInv
  <2>1. CASE d = c
    <3>1. convs'[d] = stored
      BY <1>2, <1>3, <2>1
    <3>2. ASSUME NEW k \in DOMAIN kept PROVE StoredAs(chat', c, kept[k])
      <4>1. ASSUME NEW m \in DOMAIN old, kept[k] = old[m] PROVE StoredAs(chat', c, kept[k])
        BY <1>5, <1>9, <4>1
      <4> QED
        BY <1>6, <1>10, <4>1
    <3> QED
      BY <1>6, <2>1, <3>1, <3>2
  <2>2. CASE d # c
    <3>1. d \in DOMAIN convs /\ convs'[d] = convs[d]
      BY <1>2, <1>3, <2>2
    <3>2. /\ DOMAIN convs[d] = {"repo", "turns"} /\ convs[d].turns \in Seq(Transcript)
          /\ \A k \in DOMAIN convs[d].turns : StoredAs(chat, d, convs[d].turns[k])
      BY <3>1 DEF ChatInv, ConvInv
    <3> QED
      BY <1>9, <3>1, <3>2
  <2> QED
    BY <2>1, <2>2
<1> QED
  BY <1>7, <1>8, <1>11 DEF ChatInv

\* The first turn of a dialog that was there before is over.
LEMMA ChatStarts == CInit => ChatInv
<1> SUFFICES ASSUME CInit PROVE ChatInv
  OBVIOUS
<1>1. DOMAIN chat = Turns /\ \A i \in Turns : TurnInv(chat[i])
  BY NewTurnInv DEF CInit
<1>2. OldTurn \in Transcript /\ OldTurn.n = 0
  BY ChatConstants DEF OldTurn, Transcript
<1>3. ConvInv
  <2>1. CASE convs = <<>>
    BY <2>1 DEF ConvInv
  <2>2. ASSUME NEW c0 \in ConvIds, NEW r \in ChatRepos,
               convs = [c \in {c0} |-> [repo |-> r, turns |-> <<OldTurn>>]]
        PROVE  ConvInv
    <3>1. /\ DOMAIN convs = {c0} /\ convs[c0] = [repo |-> r, turns |-> <<OldTurn>>]
          /\ DOMAIN <<OldTurn>> = {1} /\ <<OldTurn>>[1] = OldTurn
      BY <2>2
    <3>2. <<OldTurn>> \in Seq(Transcript)
      BY <1>2
    <3>3. StoredAs(chat, c0, OldTurn)
      BY <1>2 DEF StoredAs
    <3>4. /\ DOMAIN convs[c0] = {"repo", "turns"} /\ convs[c0].turns = <<OldTurn>>
      BY <3>1
    <3> QED
      BY <3>1, <3>2, <3>3, <3>4 DEF ConvInv
  <2> QED
    BY <2>1, <2>2 DEF CInit
<1> QED
  BY <1>1, <1>3 DEF ChatInv

LEMMA ChatStep == ChatInv /\ [CNext]_cvars => ChatInv'
<1> SUFFICES ASSUME ChatInv, [CNext]_cvars PROVE ChatInv'
  OBVIOUS
<1>1. ASSUME NEW i \in Turns,
             \/ post_repo_chat(i) \/ snapshot(i) \/ recent_tool_context(i)
             \/ Round(i) \/ RunCall(i) \/ FinalPass(i) \/ Store(i)
      PROVE  ChatInv'
  BY <1>1, PostStep, ReplayStep, RoundStep, CallStep, FinalStep, AppendStep
<1>2. ASSUME NEW i \in Turns, Disconnect(i) PROVE ChatInv'
  BY <1>2, EndsMoves DEF Disconnect
<1>3. ASSUME NEW c \in ConvIds, drop_conversation(c) PROVE ChatInv'
  <2>1. /\ chat' = chat /\ DOMAIN convs' \subseteq DOMAIN convs
        /\ \A x \in DOMAIN convs' : convs'[x] = convs[x]
    BY <1>3 DEF drop_conversation
  <2> QED
    BY <2>1 DEF ChatInv, ConvInv
<1>4. CASE UNCHANGED cvars
  <2>1. chat' = chat /\ convs' = convs
    BY <1>4 DEF cvars
  <2> QED
    BY <2>1 DEF ChatInv, ConvInv
<1> QED
  BY <1>1, <1>2, <1>3, <1>4 DEF CNext

(***************************************************************************)
(* Whatever the turns of the dialogs interleave to, whenever a client      *)
(* leaves or a dialog is dropped: on an endpoint that honours "required"   *)
(* an answer within the rounds comes after the searches that were asked    *)
(* for, and the transcript holds the turns that ended with Done, with the  *)
(* answer that was shown (run_chat_turn, ConversationStore::append_turn).  *)
(***************************************************************************)
THEOREM TurnsHonest == CSpec => []TurnHonest
<1>1. ChatInv => TurnHonest
  <2> SUFFICES ASSUME ChatInv PROVE TurnHonest
    OBVIOUS
  <2>1. SearchFloorMet
    <3> SUFFICES ASSUME NEW i \in Turns,
                        chat[i].pc = "store" /\ ~chat[i].final /\ chat[i].strict
                 PROVE  Cardinality({Canon[q] : q \in chat[i].queries}) >= chat[i].floor
      BY DEF SearchFloorMet
    <3>1. /\ chat[i].distinct = {Canon[q] : q \in chat[i].queries}
          /\ IsFiniteSet(chat[i].distinct) /\ chat[i].floor \in Nat
          /\ chat[i].floor <= Cardinality(chat[i].distinct)
      BY DEF ChatInv, TurnInv
    <3>2. Cardinality(chat[i].distinct) >= chat[i].floor
      BY <3>1, FS_CardinalityType
    <3> QED
      BY <3>1, <3>2
  <2>2. TranscriptHonest
    BY DEF TranscriptHonest, ChatInv, ConvInv, StoredAs
  <2> QED
    BY <2>1, <2>2 DEF TurnHonest
<1> QED
  BY <1>1, ChatStarts, ChatStep, PTL DEF CSpec

-----------------------------------------------------------------------------
(* WorkerRegistry                                                          *)

InflightAt(t) == {r \in Callers : req[r].pc = "inflight" /\ req[r].token = t}

\* The in-flight count of a worker covers the requests that are in it.
InflightCounted == \A t \in Tokens : Cardinality(InflightAt(t)) <= inflight[t]

TypeInv == TypeOK /\ InflightCounted

-----------------------------------------------------------------------------
(* Callers                                                                *)

\* A round more keeps the type and ends neither in a spawn nor in a worker.
LEMMA NextRoundType ==
  ASSUME NEW q \in Request
  PROVE  /\ NextRound(q) \in Request
         /\ NextRound(q).pc \notin Holding
<1>1. 0 \in 0..MaxSpawns /\ q.round + 1 \in Nat
  BY RegistryAssumption DEF Request
<1>2. CASE q.round + 1 < AcquireRounds
  BY <1>1, <1>2 DEF NextRound, Request, Holding, Driving, Places
<1>3. CASE ~(q.round + 1 < AcquireRounds)
  BY <1>1, <1>3 DEF NextRound, Request, Holding, Driving, Places, Ended
<1> QED
  BY <1>2, <1>3

\* A notification moves waiting requests only, and to no place that holds anything.
LEMMA NotifiedType ==
  ASSUME NEW t, NEW s \in [Callers -> Request]
  PROVE  /\ Notified(t, s) \in [Callers -> Request]
         /\ \A r \in Callers : Notified(t, s)[r].pc \in Holding =>
                                Notified(t, s)[r] = s[r]
BY NextRoundType DEF Notified

\* A request that moves leaves the others alone.
LEMMA GotoType ==
  ASSUME NEW r \in Callers, NEW pc \in Places, NEW t \in 0..MaxSpawns,
         req \in [Callers -> Request]
  PROVE  /\ Goto(r, pc, t) \in [Callers -> Request]
         /\ Goto(r, pc, t)[r].pc = pc
         /\ Goto(r, pc, t)[r].token = t
         /\ \A q \in Callers \ {r} : Goto(r, pc, t)[q] = req[q]
BY DEF Goto, Request

\* Of a set of requests that only shrinks the count stays high enough.
LEMMA CountKept ==
  ASSUME TypeInv, inflight' = inflight,
         \A r \in Callers : req'[r].pc = "inflight" => req'[r] = req[r]
  PROVE  InflightCounted'
<1> SUFFICES ASSUME NEW t \in Tokens
             PROVE  Cardinality(InflightAt(t)') <= inflight[t]
  BY DEF InflightCounted
<1>1. InflightAt(t)' \subseteq InflightAt(t)
  BY DEF InflightAt
<1>2. IsFiniteSet(InflightAt(t))
  BY RegistryAssumption, FS_Subset DEF InflightAt
<1>3. /\ Cardinality(InflightAt(t)') <= Cardinality(InflightAt(t))
      /\ IsFiniteSet(InflightAt(t)')
  BY <1>1, <1>2, FS_Subset
<1>4. Cardinality(InflightAt(t)) \in Nat /\ Cardinality(InflightAt(t)') \in Nat
  BY <1>2, <1>3, FS_CardinalityType
<1> QED
  BY <1>3, <1>4 DEF TypeInv, InflightCounted, TypeOK

\* The conjuncts of TypeInv about the requests.
RequestsOK ==
    /\ req \in [Callers -> Request]
    /\ \A r \in Callers : req[r].pc \in Holding => req[r].token \in Tokens
    /\ InflightCounted

\* Moves of requests that send nobody into a worker keep them.
LEMMA RequestsMove ==
  ASSUME TypeInv, inflight' = inflight, req' \in [Callers -> Request],
         \A r \in Callers : req'[r].pc \in Holding =>
            \/ req'[r] = req[r]
            \/ req'[r].token \in Tokens /\ req'[r].pc # "inflight"
  PROVE  RequestsOK'
<1>1. \A r \in Callers : req'[r].pc = "inflight" => req'[r] = req[r]
  BY DEF Holding
<1>2. InflightCounted'
  BY <1>1, CountKept
<1> QED
  BY <1>2 DEF RequestsOK, TypeInv, TypeOK

LEMMA MoveOne ==
  ASSUME TypeInv, inflight' = inflight, NEW r \in Callers,
         NEW pc \in Places \ {"inflight"}, NEW t \in 0..MaxSpawns,
         pc \in Holding => t \in Tokens, req' = Goto(r, pc, t)
  PROVE  RequestsOK'
<1>1. /\ req' \in [Callers -> Request] /\ req'[r].pc = pc /\ req'[r].token = t
      /\ \A q \in Callers \ {r} : req'[q] = req[q]
  BY GotoType DEF TypeInv, TypeOK
<1> QED
  BY <1>1, RequestsMove

\* The same with a notification of the waiters of u.
LEMMA MoveAndNotify ==
  ASSUME TypeInv, inflight' = inflight, NEW r \in Callers, NEW u,
         NEW pc \in Places \ {"inflight"}, NEW t \in 0..MaxSpawns,
         pc \in Holding => t \in Tokens, req' = Notified(u, Goto(r, pc, t))
  PROVE  RequestsOK'
<1> DEFINE s == Goto(r, pc, t)
<1>1. /\ s \in [Callers -> Request] /\ s[r].pc = pc /\ s[r].token = t
      /\ \A q \in Callers \ {r} : s[q] = req[q]
  BY GotoType DEF TypeInv, TypeOK
<1>2. /\ req' \in [Callers -> Request]
      /\ \A q \in Callers : req'[q].pc \in Holding => req'[q] = s[q]
  BY <1>1, NotifiedType
<1> HIDE DEF s
<1> QED
  BY <1>1, <1>2, RequestsMove

LEMMA TakeRound ==
  ASSUME TypeInv, inflight' = inflight, NEW r \in Callers,
         req' = [req EXCEPT ![r] = NextRound(@)]
  PROVE  RequestsOK'
<1>1. req[r] \in Request
  BY DEF TypeInv, TypeOK
<1>2. NextRound(req[r]) \in Request /\ NextRound(req[r]).pc \notin Holding
  BY <1>1, NextRoundType
<1>3. /\ req' \in [Callers -> Request]
      /\ \A q \in Callers : req'[q].pc \in Holding => req'[q] = req[q]
  BY <1>2 DEF TypeInv, TypeOK
<1> QED
  BY <1>3, RequestsMove

\* Nothing moves.
LEMMA NoMove ==
  ASSUME TypeInv, inflight' = inflight, req' = req
  PROVE  RequestsOK'
BY RequestsMove DEF TypeInv, TypeOK
\* The conjuncts of TypeOK about everything else.
RestOK ==
    /\ entry \in Entries
    /\ proc \in [Tokens -> ProcStates]
    /\ inflight \in [Tokens -> Nat]
    /\ killing \subseteq Tokens /\ fresh \subseteq Callers
    /\ detached \subseteq Tokens /\ unheld \subseteq Tokens
    /\ spawns \in 0..MaxSpawns /\ faults \in 0..MaxFaults

LEMMA Parts == TypeInv <=> RequestsOK /\ RestOK
BY DEF TypeInv, TypeOK, RequestsOK, RestOK

LEMMA NextParts == RequestsOK' /\ RestOK' => TypeInv'
BY DEF TypeInv, TypeOK, RequestsOK, RestOK

\* The token of an entry, and of an absent one.
LEMMA EntryToken ==
  ASSUME entry \in Entries
  PROVE  /\ entry.token \in 0..MaxSpawns
         /\ entry # Absent => entry.token \in Tokens
         /\ entry.st \in {"absent", "spawning", "ready"}
         /\ entry.st = "absent" <=> entry = Absent
         /\ entry.st = "spawning" <=> entry = Spawning(entry.token)
         /\ entry.st = "ready" <=> entry = Ready(entry.token)
BY RegistryAssumption DEF Entries, Absent, Spawning, Ready, Tokens

-----------------------------------------------------------------------------
(* Types                                                                   *)

\* Every step of a request keeps the types.
LEMMA RequestTypes ==
  ASSUME TypeInv, NEW r \in Callers,
         CallerStep(r) \/ Start(r) \/ LaunchFails(r) \/ Drop(r)
  PROVE  TypeInv'
<1> USE DEF RestOK
<1>0. RequestsOK /\ RestOK
  BY Parts
<1>1. /\ 0 \in 0..MaxSpawns /\ req[r] \in Request
      /\ req[r].pc \in Holding => req[r].token \in Tokens
      /\ \A t \in Tokens : t \in 0..MaxSpawns
  BY <1>0, RegistryAssumption DEF RequestsOK, Tokens
<1>2. Driving \subseteq Holding /\ Holding \subseteq Places /\ Ended \subseteq Places
  BY DEF Driving, Holding, Places, Ended
<1>3. CASE Start(r)
  <2>1. RequestsOK'
    BY <1>0, <1>1, <1>3, MoveOne DEF Start, Holding, Driving, Places, Ended
  <2> QED
    BY <1>0, <1>1, <1>3, <2>1, NextParts DEF Start, Holding, Driving, Places, Ended
<1>4. CASE AcquireFast(r)
  <2>1. CASE entry.st = "ready" /\ Alive(entry.token)
    BY <1>0, <1>1, <1>4, <2>1, MoveOne, EntryToken, NextParts
       DEF AcquireFast, Holding, Places, Absent
  <2>2. CASE entry.st = "spawning"
    BY <1>0, <1>1, <1>4, <2>2, MoveOne, EntryToken, NextParts
       DEF AcquireFast, Holding, Places, Absent
  <2>3. CASE ~(entry.st = "ready" /\ Alive(entry.token)) /\ entry.st # "spawning"
    BY <1>0, <1>1, <1>4, <2>3, MoveOne, NextParts
       DEF AcquireFast, Holding, Driving, Places
  <2> QED
    BY <2>1, <2>2, <2>3
<1>5. CASE Elect(r)
  <2>1. spawns + 1 \in Tokens
    BY <1>0, <1>5, RegistryAssumption DEF Elect, Tokens
  <2>2. RequestsOK'
    BY <1>1, <1>5, <2>1, MoveOne DEF Elect, Holding, Driving, Places
  <2> QED
    BY <1>0, <1>1, <1>5, <2>1, <2>2, NextParts DEF Elect, Entries
<1>6. CASE FindOther(r)
  <2>1. entry.token \in Tokens
    BY <1>0, <1>6, EntryToken DEF FindOther, MayElect
  <2>2. RequestsOK'
    BY <1>1, <1>6, <2>1, MoveOne DEF FindOther, Holding, Driving, Places
  <2> QED
    BY <1>0, <1>6, <2>2, NextParts DEF FindOther
<1>7. CASE Subscribe(r)
  <2>1. RequestsOK'
    BY <1>0, <1>1, <1>7, MoveOne DEF Subscribe, Holding, Driving, Places, Ended
  <2> QED
    BY <1>0, <1>1, <1>7, <2>1, NextParts DEF Subscribe, Holding, Driving, Places, Ended
<1>8. CASE WaitTimeout(r)
  BY <1>0, <1>8, TakeRound, NextParts DEF WaitTimeout
<1>9. CASE Launch(r)
  <2>1. RequestsOK'
    BY <1>0, <1>1, <1>9, MoveOne DEF Launch, Holding, Driving, Places, Ended, ProcStates
  <2> QED
    BY <1>0, <1>1, <1>9, <2>1, NextParts
       DEF Launch, Holding, Driving, Places, Ended, ProcStates
<1>10. CASE LaunchFails(r)
  <2>1. RequestsOK'
    BY <1>0, <1>1, <1>10, MoveOne, RegistryAssumption
       DEF LaunchFails, Holding, Driving, Places, Ended, Fault
  <2> QED
    BY <1>0, <1>1, <1>10, <2>1, NextParts, RegistryAssumption
       DEF LaunchFails, Holding, Driving, Places, Ended, Fault
<1>11. CASE HandshakeOk(r)
  <2>1. RequestsOK'
    BY <1>0, <1>1, <1>11, MoveOne DEF HandshakeOk, Holding, Driving, Places, Ended
  <2> QED
    BY <1>0, <1>1, <1>11, <2>1, NextParts DEF HandshakeOk, Holding, Driving, Places, Ended
<1>12. CASE HandshakeFails(r)
  <2>1. RequestsOK'
    BY <1>0, <1>1, <1>12, MoveOne
       DEF HandshakeFails, Holding, Driving, Places, Ended, ProcStates
  <2> QED
    BY <1>0, <1>1, <1>12, <2>1, NextParts
       DEF HandshakeFails, Holding, Driving, Places, Ended, ProcStates
<1>13. CASE publish_ready(r)
  <2>1. req[r].token \in Tokens
    BY <1>1, <1>13 DEF publish_ready, Holding, Driving
  <2>2. UnderWay \subseteq Callers
    BY DEF UnderWay
  <2>3. CASE Owns(req[r].token)
    <3>1. RequestsOK'
      BY <1>1, <1>13, <2>1, <2>3, MoveAndNotify DEF publish_ready, Holding, Places
    <3> QED
      BY <1>0, <1>13, <2>1, <2>2, <2>3, <3>1, NextParts DEF publish_ready, Entries
  <2>4. CASE ~Owns(req[r].token)
    <3>1. RequestsOK'
      BY <1>1, <1>13, <2>1, <2>4, MoveAndNotify
         DEF publish_ready, Holding, Driving, Places
    <3> QED
      BY <1>0, <1>13, <2>4, <3>1, NextParts DEF publish_ready
  <2> QED
    BY <2>3, <2>4
<1>14. CASE abandon_spawn(r)
  <2>1. RequestsOK'
    BY <1>1, <1>14, MoveAndNotify DEF abandon_spawn, Holding, Driving, Places, Ended
  <2> QED
    BY <1>0, <1>14, <2>1, NextParts DEF abandon_spawn, Entries
<1>15. CASE kill_and_wait(r)
  BY <1>0, <1>1, <1>15, TakeRound, NextParts
     DEF kill_and_wait, SupersededProc, ProcStates, Holding, Driving
<1>16. CASE Arrive(r)
  <2>1. PICK u \in Tokens : u = req[r].token
    BY <1>1, <1>16 DEF Arrive, Holding
  <2>2. /\ req' \in [Callers -> Request] /\ req'[r].pc = "inflight" /\ req'[r].token = u
        /\ \A q \in Callers \ {r} : req'[q] = req[q]
    BY <1>0, <1>1, <1>16, <2>1, GotoType DEF Arrive, Places, RequestsOK
  <2>3. \A t \in Tokens : Cardinality(InflightAt(t)') <= inflight'[t]
    <3> TAKE t \in Tokens
    <3>1. IsFiniteSet(InflightAt(t)) /\ Cardinality(InflightAt(t)) \in Nat
      BY RegistryAssumption, FS_Subset, FS_CardinalityType DEF InflightAt
    <3>2. CASE t = u
      <4>1. InflightAt(t)' = InflightAt(t) \cup {r} /\ r \notin InflightAt(t)
        BY <1>16, <2>1, <2>2, <3>2 DEF Arrive, InflightAt
      <4>2. Cardinality(InflightAt(t)') = Cardinality(InflightAt(t)) + 1
        BY <3>1, <4>1, FS_AddElement
      <4> QED
        BY <1>0, <1>16, <2>1, <3>1, <3>2, <4>2 DEF Arrive, RequestsOK, InflightCounted
    <3>3. CASE t # u
      <4>1. InflightAt(t)' = InflightAt(t)
        BY <1>16, <2>1, <2>2, <3>3 DEF Arrive, InflightAt
      <4> QED
        BY <1>0, <1>16, <2>1, <3>3, <4>1 DEF Arrive, RequestsOK, InflightCounted
    <3> QED
      BY <3>2, <3>3
  <2>4. RequestsOK'
    BY <1>0, <2>1, <2>2, <2>3 DEF RequestsOK, InflightCounted
  <2> QED
    BY <1>0, <1>16, <2>1, <2>4, NextParts DEF Arrive
<1>17. CASE Respond(r)
  <2>1. PICK u \in Tokens : u = req[r].token
    BY <1>1, <1>17 DEF Respond, Holding
  <2>2. /\ req' \in [Callers -> Request] /\ req'[r].pc = "answered"
        /\ \A q \in Callers \ {r} : req'[q] = req[q]
    BY <1>0, <1>1, <1>17, GotoType DEF Respond, Places, Ended, RequestsOK
  <2>3. IsFiniteSet(InflightAt(u)) /\ r \in InflightAt(u) /\ InflightAt(u)' = InflightAt(u) \ {r}
    BY <1>17, <2>1, <2>2, RegistryAssumption, FS_Subset DEF Respond, InflightAt
  <2>4. /\ Cardinality(InflightAt(u)') = Cardinality(InflightAt(u)) - 1
        /\ Cardinality(InflightAt(u)) \in Nat /\ Cardinality(InflightAt(u)') \in Nat
    BY <2>3, FS_RemoveElement, FS_CardinalityType
  <2>5. inflight'[u] = inflight[u] - 1 /\ Cardinality(InflightAt(u)) <= inflight[u]
    BY <1>0, <1>17, <2>1 DEF Respond, RequestsOK, InflightCounted
  <2>6. /\ inflight' \in [Tokens -> Nat]
        /\ Cardinality(InflightAt(u)') <= inflight'[u]
    BY <1>0, <1>17, <2>1, <2>4, <2>5 DEF Respond
  <2>7. \A t \in Tokens \ {u} : Cardinality(InflightAt(t)') <= inflight'[t]
    <3> TAKE t \in Tokens \ {u}
    <3>1. InflightAt(t)' = InflightAt(t)
      BY <1>17, <2>1, <2>2 DEF Respond, InflightAt
    <3> QED
      BY <1>0, <1>17, <2>1, <3>1 DEF Respond, RequestsOK, InflightCounted
  <2>8. \A q \in Callers : req'[q].pc \in Holding => req'[q] = req[q]
    BY <2>2 DEF Holding, Driving
  <2>9. RequestsOK'
    BY <1>0, <2>2, <2>6, <2>7, <2>8 DEF RequestsOK, InflightCounted
  <2> QED
    BY <1>0, <1>17, <2>6, <2>9, NextParts DEF Respond
<1>18. CASE WorkerLost(r)
  <2>1. CASE req[r].attempt < WORKER_LOST_RETRIES
    <3>1. req'[r] \in Request /\ req'[r].pc = "acquire"
      BY <1>0, <1>1, <1>18, <2>1 DEF WorkerLost, Request, Places, RequestsOK
    <3>2. /\ req' \in [Callers -> Request]
          /\ \A q \in Callers \ {r} : req'[q] = req[q]
      BY <1>0, <1>18, <2>1, <3>1 DEF WorkerLost, RequestsOK
    <3>3. RequestsOK'
      BY <1>18, <3>1, <3>2, RequestsMove DEF WorkerLost, Holding, Driving
    <3> QED
      BY <1>0, <1>18, <3>3, NextParts DEF WorkerLost
  <2>2. CASE ~(req[r].attempt < WORKER_LOST_RETRIES)
    BY <1>0, <1>1, <1>18, <2>2, MoveOne, NextParts
       DEF WorkerLost, Holding, Driving, Places, Ended
  <2> QED
    BY <2>1, <2>2
<1>19. CASE Drop(r)
  <2>1. RequestsOK'
    BY <1>1, <1>19, MoveOne DEF Drop, Holding, Driving, Places, Ended
  <2>2. faults' \in 0..MaxFaults
    BY <1>0, <1>19, RegistryAssumption DEF Drop, Fault
  <2>3. unheld' \subseteq Tokens
    BY <1>0, <1>1, <1>2, <1>19 DEF Drop
  <2> QED
    BY <1>0, <1>19, <2>1, <2>2, <2>3, NextParts DEF Drop
<1> QED
  BY <1>3, <1>4, <1>5, <1>6, <1>7, <1>8, <1>9, <1>10, <1>11, <1>12, <1>13, <1>14,
     <1>15, <1>16, <1>17, <1>18, <1>19 DEF CallerStep
\* So do the steps of the workers, of the reaper and of kill.
LEMMA EnvironmentTypes ==
  ASSUME TypeInv,
         \/ \E t \in Tokens :
               \/ Boot(t) \/ Wedge(t) \/ Crash(t) \/ IdleClose(t) \/ IdleExit(t)
               \/ ReapOrphan(t) \/ ReapSlow(t) \/ KillChild(t) \/ DropKill(t)
         \/ ReapReady \/ Kill
  PROVE  TypeInv'
<1> USE DEF RestOK
<1>0. RequestsOK /\ RestOK
  BY Parts
<1>1. ASSUME NEW t \in Tokens,
             Boot(t) \/ Wedge(t) \/ Crash(t) \/ IdleClose(t) \/ IdleExit(t)
      PROVE  TypeInv'
  BY <1>0, <1>1, NoMove, NextParts, RegistryAssumption
     DEF Boot, Wedge, Crash, IdleClose, IdleExit, ProcStates, Fault
<1>2. ASSUME NEW t \in Tokens, ReapOrphan(t) \/ ReapSlow(t)
      PROVE  TypeInv'
  <2>1. req \in [Callers -> Request] /\ req' = Notified(t, req) /\ inflight' = inflight
    BY <1>0, <1>2 DEF RequestsOK, ReapOrphan, ReapSlow, ReapSpawning
  <2>2. RequestsOK'
    BY <2>1, NotifiedType, RequestsMove
  <2>3. faults' \in 0..MaxFaults
    BY <1>0, <1>2, RegistryAssumption DEF ReapOrphan, ReapSlow, Fault
  <2> QED
    BY <1>0, <1>2, <2>2, <2>3, NextParts DEF ReapOrphan, ReapSlow, ReapSpawning, Entries
<1>3. ASSUME NEW t \in Tokens, KillChild(t) \/ DropKill(t)
      PROVE  TypeInv'
  BY <1>0, <1>3, NoMove, NextParts, RegistryAssumption
     DEF KillChild, DropKill, ProcStates, Fault
<1>4. CASE ReapReady
  BY <1>0, <1>4, NoMove, NextParts DEF ReapReady, Entries
<1>5. CASE Kill
  <2>1. entry.token \in Tokens
    BY <1>0, <1>5, EntryToken DEF Kill
  <2> QED
    BY <1>0, <1>5, <2>1, NoMove, NextParts, RegistryAssumption DEF Kill, Entries, Fault
<1> QED
  BY <1>1, <1>2, <1>3, <1>4, <1>5

LEMMA InitTypes == Init => TypeInv
<1> SUFFICES ASSUME Init PROVE TypeInv
  OBVIOUS
<1>1. TypeOK
  BY RegistryAssumption DEF Init, TypeOK, Entries, ProcStates, Request, NewCaller,
     Places, Holding, Driving, Tokens
<1>2. ASSUME NEW t \in Tokens PROVE Cardinality(InflightAt(t)) <= inflight[t]
  <2>1. InflightAt(t) = {}
    BY DEF InflightAt, Init, NewCaller
  <2> QED
    BY <2>1, FS_EmptySet DEF Init
<1> QED
  BY <1>1, <1>2 DEF TypeInv, InflightCounted

LEMMA NextTypes == TypeInv /\ [Next]_vars => TypeInv'
<1> SUFFICES ASSUME TypeInv, [Next]_vars PROVE TypeInv'
  OBVIOUS
<1>1. CASE UNCHANGED vars
  BY <1>1, Parts, NoMove, NextParts DEF vars, RestOK
<1>2. CASE Next
  BY <1>2, RequestTypes, EnvironmentTypes DEF Next
<1> QED
  BY <1>1, <1>2

\* Every behaviour of the registry, its requests and its workers is well typed; in
\* particular the in-flight count that the idle watchdog reads never underflows.
THEOREM TypeCorrect == Spec => []TypeOK
<1>1. Spec => []TypeInv
  BY InitTypes, NextTypes, PTL DEF Spec
<1>2. TypeInv => TypeOK
  BY DEF TypeInv
<1> QED
  BY <1>1, <1>2, PTL
-----------------------------------------------------------------------------
(* One owner of the database                                               *)

\* Each spawn has at most one driver, whose token has been handed out.
OneDriver ==
    /\ \A r \in Callers : req[r].pc \in Driving => req[r].token <= spawns
    /\ \A r, q \in Callers :
          /\ req[r].pc \in Driving /\ req[q].pc \in Driving
          /\ req[r].token = req[q].token
          => r = q

\* The entry of a driver that nobody deleted is its own.
DriverOwns ==
    \A r \in Callers :
        req[r].pc \in Driving /\ req[r].token \notin detached =>
            entry = Spawning(req[r].token)

\* A process starts with its launch, and is dead when its spawn is abandoned.
SpawnPhase ==
    /\ \A t \in Tokens : t > spawns => proc[t] = "none"
    /\ \A r \in Callers : req[r].pc = "launch" => proc[req[r].token] = "none"
    /\ \A r \in Callers : req[r].pc = "abandon" => ~Alive(req[r].token)
    /\ \A r \in Callers : req[r].pc \in {"publish", "kill"} => proc[req[r].token] # "none"
    /\ \A t \in Tokens : entry = Ready(t) \/ t \in killing => proc[t] # "none"

OwnerInv == ExclusiveOwner /\ OneDriver /\ DriverOwns /\ SpawnPhase

\* Who drives what after a step of request r: the others drive what they drove.
LEMMA DriveMove ==
  ASSUME TypeInv, NEW r \in Callers, NEW pc \in Places, NEW t \in 0..MaxSpawns,
         req' = Goto(r, pc, t) \/ \E u \in 0..MaxSpawns : req' = Notified(u, Goto(r, pc, t))
  PROVE  \A q \in Callers : req'[q].pc \in Driving =>
            IF q = r THEN req'[q].pc = pc /\ req'[q].token = t ELSE req'[q] = req[q]
<1> DEFINE s == Goto(r, pc, t)
<1>1. /\ s \in [Callers -> Request] /\ s[r].pc = pc /\ s[r].token = t
      /\ \A q \in Callers \ {r} : s[q] = req[q]
  BY GotoType DEF TypeInv, TypeOK
<1>2. \A q \in Callers : req'[q].pc \in Driving => req'[q] = s[q]
  BY <1>1, NotifiedType DEF Holding
<1> HIDE DEF s
<1> QED
  BY <1>1, <1>2

\* A request that stops driving, or never drove, disturbs nothing as long as the
\* entry and the processes stay.
LEMMA DriversRetire ==
  ASSUME OwnerInv, UNCHANGED <<entry, proc, detached, spawns>>, killing' \subseteq killing,
         \A q \in Callers : req'[q].pc \in Driving => req'[q] = req[q]
  PROVE  OwnerInv'
BY DEF OwnerInv, ExclusiveOwner, OneDriver, DriverOwns, SpawnPhase, Alive, Driving

\* The same for processes that die meanwhile.
LEMMA ProcessDies ==
  ASSUME OwnerInv, TypeInv, UNCHANGED <<entry, detached, spawns>>, killing' \subseteq killing,
         NEW t \in Tokens,
         proc[t] # "none", proc' = [proc EXCEPT ![t] = "dead"],
         \A q \in Callers : req'[q].pc \in Driving => req'[q] = req[q]
  PROVE  OwnerInv'
BY DEF OwnerInv, ExclusiveOwner, OneDriver, DriverOwns, SpawnPhase, Alive, Driving,
       TypeInv, TypeOK, ProcStates

\* A driver's spawn starts or dies, and the driver moves to where that is what it expects.
LEMMA SpawnMoves ==
  ASSUME TypeInv, SpawnPhase, NEW r \in Callers, NEW t \in Tokens, NEW pc, NEW s,
         s # "none", pc = "handshake" \/ (pc = "abandon" /\ s = "dead"), t <= spawns,
         UNCHANGED <<entry, killing, spawns>>, proc' = [proc EXCEPT ![t] = s],
         \A q \in Callers : req'[q].pc \in Driving =>
            IF q = r THEN req'[q].pc = pc /\ req'[q].token = t ELSE req'[q] = req[q],
         \A q \in Callers \ {r} : req[q].pc \in Driving => req[q].token # t
  PROVE  SpawnPhase'
<1>1. \A u \in Tokens : proc'[u] = IF u = t THEN s ELSE proc[u]
  BY DEF TypeInv, TypeOK
<1>2. ASSUME NEW q \in Callers, q # r, req'[q].pc \in Driving
      PROVE  req'[q] = req[q] /\ proc'[req[q].token] = proc[req[q].token]
  <2>1. req'[q] = req[q] /\ req[q].token # t
    BY <1>2
  <2>2. req[q].token \in Tokens
    BY <1>2, <2>1 DEF TypeInv, TypeOK, Holding
  <2> QED
    BY <1>1, <2>1, <2>2
<1>3. ASSUME req'[r].pc \in Driving
      PROVE  req'[r].pc = pc /\ req'[r].token = t /\ proc'[t] = s
  BY <1>1, <1>3
<1>4. \A u \in Tokens : u > spawns' => proc'[u] = "none"
  <2>1. spawns \in Nat /\ t \in Nat /\ \A u \in Tokens : u \in Nat
    BY RegistryAssumption DEF TypeInv, TypeOK, Tokens
  <2>2. \A u \in Tokens : u > spawns => u # t
    BY <2>1
  <2> QED
    BY <1>1, <2>2 DEF SpawnPhase
<1>5. ASSUME NEW q \in Callers, req'[q].pc = "launch" PROVE proc'[req'[q].token] = "none"
  <2>1. req'[q].pc \in Driving
    BY <1>5 DEF Driving
  <2>2. q # r
    BY <1>3, <1>5, <2>1
  <2> QED
    BY <1>2, <1>5, <2>1, <2>2 DEF SpawnPhase
<1>6. ASSUME NEW q \in Callers, req'[q].pc = "abandon"
      PROVE  proc'[req'[q].token] \notin {"booting", "wedged", "up", "closing"}
  <2>1. req'[q].pc \in Driving
    BY <1>6 DEF Driving
  <2>2. CASE q = r
    <3>1. proc'[req'[q].token] = s /\ s = "dead"
      BY <1>3, <1>6, <2>1, <2>2
    <3> QED
      BY <3>1
  <2>3. CASE q # r
    <3>1. req[q].pc = "abandon" /\ proc'[req'[q].token] = proc[req[q].token]
      BY <1>2, <1>6, <2>1, <2>3
    <3>2. proc[req[q].token] \notin {"booting", "wedged", "up", "closing"}
      BY <3>1 DEF SpawnPhase, Alive
    <3> QED
      BY <3>1, <3>2
  <2> QED
    BY <2>2, <2>3
<1>7. ASSUME NEW q \in Callers, req'[q].pc \in {"publish", "kill"} PROVE proc'[req'[q].token] # "none"
  <2>1. req'[q].pc \in Driving
    BY <1>7 DEF Driving
  <2>2. q # r
    BY <1>3, <1>7, <2>1
  <2> QED
    BY <1>2, <1>7, <2>1, <2>2 DEF SpawnPhase
<1>8. \A u \in Tokens : entry' = Ready(u) \/ u \in killing' => proc'[u] # "none"
  BY <1>1 DEF SpawnPhase
<1> QED
  BY <1>4, <1>5, <1>6, <1>7, <1>8 DEF SpawnPhase, Alive

\* Every step of a request keeps the invariant.
LEMMA RequestOwner ==
  ASSUME TypeInv, OwnerInv, NEW r \in Callers,
         CallerStep(r) \/ Start(r) \/ LaunchFails(r) \/ Drop(r)
  PROVE  OwnerInv'
<1>0. /\ 0 \in 0..MaxSpawns /\ req[r] \in Request
      /\ req[r].pc \in Driving => req[r].token \in Tokens
      /\ \A t \in Tokens : t \in 0..MaxSpawns
      /\ entry.token \in 0..MaxSpawns
  BY RegistryAssumption, EntryToken DEF TypeInv, TypeOK, Tokens, Holding
<1>p. {"launch", "handshake", "publish", "abandon", "kill"} \subseteq Places
  BY DEF Places, Driving
<1>1. ASSUME NEW pc \in Places \ Driving, NEW t \in 0..MaxSpawns,
             req' = Goto(r, pc, t) \/ \E u \in 0..MaxSpawns : req' = Notified(u, Goto(r, pc, t))
      PROVE  \A q \in Callers : req'[q].pc \in Driving => req'[q] = req[q] /\ q # r
  BY <1>1, DriveMove
<1>2. ASSUME req' = [req EXCEPT ![r] = NextRound(@)]
      PROVE  \A q \in Callers : req'[q].pc \in Driving => req'[q] = req[q]
  BY <1>0, <1>2, NextRoundType DEF TypeInv, TypeOK, Holding
<1>3. CASE Start(r) \/ Subscribe(r) \/ Arrive(r) \/ Respond(r) \/ Drop(r)
  <2>1. req[r].token \in 0..MaxSpawns
    BY <1>0 DEF Request
  <2>2. \A q \in Callers : req'[q].pc \in Driving => req'[q] = req[q]
    BY <1>0, <1>1, <1>3, <2>1
       DEF Start, Subscribe, Arrive, Respond, Drop, Places, Driving, Ended
  <2> QED
    BY <1>3, <2>2, DriversRetire DEF Start, Subscribe, Arrive, Respond, Drop
<1>4. CASE AcquireFast(r) \/ FindOther(r)
  <2>1. \E pc \in {"send", "await", "elect"}, t \in 0..MaxSpawns : req' = Goto(r, pc, t)
    BY <1>0, <1>4 DEF AcquireFast, FindOther
  <2>2. \A q \in Callers : req'[q].pc \in Driving => req'[q] = req[q]
    BY <1>1, <2>1 DEF Places, Driving
  <2> QED
    BY <1>4, <2>2, DriversRetire DEF AcquireFast, FindOther
<1>5. CASE WaitTimeout(r)
  BY <1>2, <1>5, DriversRetire DEF WaitTimeout
<1>6. CASE WorkerLost(r)
  <2>1. \A q \in Callers : req'[q].pc \in Driving => req'[q] = req[q]
    BY <1>0, <1>1, <1>6 DEF WorkerLost, Places, Driving, Ended, TypeInv, TypeOK
  <2> QED
    BY <1>6, <2>1, DriversRetire DEF WorkerLost
<1>7. CASE Elect(r)
  <2> DEFINE t == spawns + 1
  <2>1. t \in Tokens /\ spawns \in Nat /\ entry' = Spawning(t) /\ spawns' = t
    BY <1>7, RegistryAssumption DEF Elect, Tokens, TypeInv, TypeOK
  <2>2. \A q \in Callers : req'[q].pc \in Driving =>
           IF q = r THEN req'[q].pc = "launch" /\ req'[q].token = t ELSE req'[q] = req[q]
    BY <1>0, <1>p, <1>7, <2>1, DriveMove DEF Elect
  <2>3. \A u \in Tokens : Alive(u) => u \in detached
    BY <1>7 DEF Elect, MayElect, OwnerInv, ExclusiveOwner, Absent, Spawning, Ready
  <2>4. \A q \in Callers \ {r} : req[q].pc \in Driving =>
           req[q].token \in detached /\ req[q].token # t
    BY <1>7, <2>1 DEF Elect, MayElect, OwnerInv, OneDriver, DriverOwns, Absent, Spawning
  <2>5. proc[t] = "none"
    BY <2>1 DEF OwnerInv, SpawnPhase
  <2>6. ExclusiveOwner' /\ OneDriver' /\ DriverOwns'
    <3>1. detached' = detached /\ proc' = proc
      BY <1>7 DEF Elect
    <3>2. \A q \in Callers : req[q].token \in Nat
      BY RegistryAssumption DEF TypeInv, TypeOK, Request
    <3>3. ExclusiveOwner'
      BY <2>3, <3>1 DEF ExclusiveOwner, Alive
    <3>4. OneDriver'
      BY <2>1, <2>2, <2>4, <3>2 DEF OwnerInv, OneDriver
    <3>5. DriverOwns'
      BY <2>1, <2>2, <2>4, <3>1 DEF DriverOwns
    <3> QED
      BY <3>3, <3>4, <3>5
  <2>7. SpawnPhase'
    BY <1>7, <2>1, <2>2, <2>5
       DEF Elect, OwnerInv, SpawnPhase, Alive, Driving, Spawning, Ready, Tokens
  <2> QED
    BY <2>6, <2>7 DEF OwnerInv
<1>8. CASE Launch(r)
  <2>1. PICK t \in Tokens : t = req[r].token
    BY <1>0, <1>8 DEF Launch, Driving
  <2>2. \A q \in Callers : req'[q].pc \in Driving =>
           IF q = r THEN req'[q].pc = "handshake" /\ req'[q].token = t
           ELSE req'[q] = req[q]
    <3>1. req' = Goto(r, "handshake", t)
      BY <1>8, <2>1 DEF Launch
    <3> QED
      BY <1>0, <1>p, <2>1, <3>1, DriveMove
  <2>3. /\ \A q \in Callers \ {r} : req[q].pc \in Driving => req[q].token # t
        /\ t \notin detached => entry = Spawning(t)
        /\ t <= spawns
    BY <1>8, <2>1 DEF Launch, OwnerInv, OneDriver, DriverOwns, Driving
  <2>4. proc' = [proc EXCEPT ![t] = "booting"]
    BY <1>8, <2>1 DEF Launch
  <2>5. ExclusiveOwner'
    BY <1>8, <2>3, <2>4 DEF Launch, OwnerInv, ExclusiveOwner, Alive, TypeInv, TypeOK
  <2>6. OneDriver' /\ DriverOwns'
    BY <1>8, <2>2, <2>3 DEF Launch, OwnerInv, OneDriver, DriverOwns
  <2>7. SpawnPhase'
    <3>1. SpawnPhase /\ UNCHANGED <<entry, killing, spawns>>
      BY <1>8 DEF Launch, OwnerInv
    <3> QED
      BY <2>2, <2>3, <2>4, <3>1, SpawnMoves
  <2> QED
    BY <2>5, <2>6, <2>7 DEF OwnerInv
<1>9. CASE LaunchFails(r) \/ HandshakeOk(r)
  <2>1. PICK t \in Tokens : t = req[r].token
    BY <1>0, <1>9 DEF LaunchFails, HandshakeOk, Driving
  <2>2. \A q \in Callers : req'[q].pc \in Driving =>
           IF q = r
           THEN /\ req'[q].pc \in {"abandon", "publish"} /\ req'[q].token = t
                /\ req'[q].pc = "abandon" => ~Alive(t)
                /\ req'[q].pc = "publish" => proc[t] # "none"
           ELSE req'[q] = req[q]
    <3>1. CASE LaunchFails(r)
      <4>1. ~Alive(t) /\ req' = Goto(r, "abandon", t)
        BY <2>1, <3>1 DEF LaunchFails, OwnerInv, SpawnPhase, Alive
      <4>2. \A q \in Callers : req'[q].pc \in Driving =>
               IF q = r THEN req'[q].pc = "abandon" /\ req'[q].token = t
               ELSE req'[q] = req[q]
        BY <1>0, <1>p, <2>1, <4>1, DriveMove
      <4> QED
        BY <4>1, <4>2
    <3>2. CASE HandshakeOk(r)
      <4>1. proc[t] # "none" /\ req' = Goto(r, "publish", t)
        BY <2>1, <3>2 DEF HandshakeOk, Serving
      <4>2. \A q \in Callers : req'[q].pc \in Driving =>
               IF q = r THEN req'[q].pc = "publish" /\ req'[q].token = t
               ELSE req'[q] = req[q]
        BY <1>0, <1>p, <2>1, <4>1, DriveMove
      <4> QED
        BY <4>1, <4>2
    <3> QED
      BY <1>9, <3>1, <3>2
  <2>3. /\ \A q \in Callers \ {r} : req[q].pc \in Driving => req[q].token # t
        /\ t \notin detached => entry = Spawning(t)
        /\ t <= spawns
    BY <1>9, <2>1 DEF LaunchFails, HandshakeOk, OwnerInv, OneDriver, DriverOwns, Driving
  <2>4. UNCHANGED <<entry, proc, killing, detached, spawns>>
    BY <1>9 DEF LaunchFails, HandshakeOk
  <2>5. ExclusiveOwner' /\ OneDriver' /\ DriverOwns'
    BY <2>2, <2>3, <2>4 DEF OwnerInv, ExclusiveOwner, OneDriver, DriverOwns, Alive
  <2>6. SpawnPhase'
    BY <2>2, <2>4 DEF OwnerInv, SpawnPhase, Alive, Driving
  <2> QED
    BY <2>5, <2>6 DEF OwnerInv
<1>10. CASE HandshakeFails(r)
  <2>1. PICK t \in Tokens : t = req[r].token
    BY <1>0, <1>10 DEF HandshakeFails, Driving
  <2>2. \A q \in Callers : req'[q].pc \in Driving =>
           IF q = r THEN req'[q].pc = "abandon" /\ req'[q].token = t
           ELSE req'[q] = req[q]
    <3>1. req' = Goto(r, "abandon", t)
      BY <1>10, <2>1 DEF HandshakeFails
    <3> QED
      BY <1>0, <1>p, <2>1, <3>1, DriveMove
  <2>3. /\ \A q \in Callers \ {r} : req[q].pc \in Driving => req[q].token # t
        /\ t \notin detached => entry = Spawning(t)
        /\ t <= spawns /\ proc[t] # "none"
    BY <1>10, <2>1 DEF HandshakeFails, OwnerInv, OneDriver, DriverOwns, Driving
  <2>4. proc' = [proc EXCEPT ![t] = "dead"]
    BY <1>10, <2>1 DEF HandshakeFails
  <2>5. ExclusiveOwner' /\ OneDriver' /\ DriverOwns'
    BY <1>10, <2>2, <2>3, <2>4 DEF HandshakeFails, OwnerInv, ExclusiveOwner, OneDriver,
       DriverOwns, Alive, TypeInv, TypeOK
  <2>6. SpawnPhase'
    <3>1. SpawnPhase /\ UNCHANGED <<entry, killing, spawns>>
      BY <1>10 DEF HandshakeFails, OwnerInv
    <3> QED
      BY <2>2, <2>3, <2>4, <3>1, SpawnMoves
  <2> QED
    BY <2>5, <2>6 DEF OwnerInv
<1>11. CASE publish_ready(r)
  <2>1. PICK t \in Tokens : t = req[r].token
    BY <1>0, <1>11 DEF publish_ready, Driving
  <2>2. /\ \A q \in Callers \ {r} : req[q].pc \in Driving => req[q].token # t
        /\ proc[t] # "none" /\ t <= spawns
        /\ t \notin detached => entry = Spawning(t)
    BY <1>11, <2>1 DEF publish_ready, OwnerInv, OneDriver, DriverOwns, SpawnPhase, Driving
  <2>3. CASE Owns(t)
    <3>1. \A q \in Callers : req'[q].pc \in Driving => req'[q] = req[q] /\ q # r
      BY <1>0, <1>1, <1>11, <2>1, <2>3 DEF publish_ready, Places, Driving
    <3>2. /\ entry = Spawning(t) /\ entry' = Ready(t)
          /\ UNCHANGED <<proc, killing, detached, spawns>>
      BY <1>11, <2>1, <2>3 DEF publish_ready, Owns
    <3>3. ExclusiveOwner'
      BY <3>2 DEF OwnerInv, ExclusiveOwner, Alive, Spawning, Ready
    <3>4. OneDriver' /\ DriverOwns'
      BY <2>2, <3>1, <3>2 DEF OwnerInv, OneDriver, DriverOwns, Spawning, Ready
    <3>5. SpawnPhase'
      BY <2>2, <3>1, <3>2 DEF OwnerInv, SpawnPhase, Alive, Driving, Ready
    <3> QED
      BY <3>3, <3>4, <3>5 DEF OwnerInv
  <2>4. CASE ~Owns(t)
    <3>1. \A q \in Callers : req'[q].pc \in Driving =>
             IF q = r THEN req'[q].pc = "kill" /\ req'[q].token = t ELSE req'[q] = req[q]
      <4>1. req' = Notified(t, Goto(r, "kill", t))
        BY <1>11, <2>1, <2>4 DEF publish_ready
      <4> QED
        BY <1>0, <1>p, <2>1, <4>1, DriveMove
    <3>2. UNCHANGED <<entry, proc, killing, detached, spawns>>
      BY <1>11, <2>1, <2>4 DEF publish_ready
    <3>3. ExclusiveOwner' /\ OneDriver' /\ DriverOwns'
      BY <2>2, <3>1, <3>2 DEF OwnerInv, ExclusiveOwner, OneDriver, DriverOwns, Alive
    <3>4. SpawnPhase'
      BY <2>2, <3>1, <3>2 DEF OwnerInv, SpawnPhase, Alive, Driving
    <3> QED
      BY <3>3, <3>4 DEF OwnerInv
  <2> QED
    BY <2>3, <2>4
<1>12. CASE abandon_spawn(r)
  <2>1. PICK t \in Tokens : t = req[r].token
    BY <1>0, <1>12 DEF abandon_spawn, Driving
  <2>2. /\ \A q \in Callers \ {r} : req[q].pc \in Driving => req[q].token # t
        /\ ~Alive(t)
    BY <1>12, <2>1 DEF abandon_spawn, OwnerInv, OneDriver, SpawnPhase, Driving
  <2>3. \A q \in Callers : req'[q].pc \in Driving => req'[q] = req[q] /\ q # r
    BY <1>0, <1>1, <1>12, <2>1 DEF abandon_spawn, Places, Driving, Ended
  <2>4. /\ entry' = IF entry = Spawning(t) THEN Absent ELSE entry
        /\ UNCHANGED <<proc, killing, detached, spawns>>
    BY <1>12, <2>1 DEF abandon_spawn, Owns
  <2>5. ExclusiveOwner'
    BY <2>2, <2>4 DEF OwnerInv, ExclusiveOwner, Alive, Spawning, Ready
  <2>6. OneDriver' /\ DriverOwns'
    BY <2>2, <2>3, <2>4 DEF OwnerInv, OneDriver, DriverOwns, Spawning
  <2>7. SpawnPhase'
    BY <2>3, <2>4 DEF OwnerInv, SpawnPhase, Alive, Driving, Absent, Ready
  <2> QED
    BY <2>5, <2>6, <2>7 DEF OwnerInv
<1>13. CASE kill_and_wait(r)
  <2>1. PICK t \in Tokens : t = req[r].token
    BY <1>0, <1>13 DEF kill_and_wait, Driving
  <2>2. proc[t] # "none" /\ proc' = [proc EXCEPT ![t] = "dead"]
    BY <1>13, <2>1 DEF kill_and_wait, SupersededProc, OwnerInv, SpawnPhase
  <2>3. /\ \A q \in Callers : req'[q].pc \in Driving => req'[q] = req[q]
        /\ UNCHANGED <<entry, killing, detached, spawns>>
    BY <1>2, <1>13 DEF kill_and_wait
  <2> QED
    BY <2>2, <2>3, ProcessDies
<1> QED
  BY <1>3, <1>4, <1>5, <1>6, <1>7, <1>8, <1>9, <1>10, <1>11, <1>12, <1>13
     DEF CallerStep
\* So do the workers, the reaper and kill.  A deleted entry leaves its spawn
\* detached, unless the child was seen dead.
LEMMA EnvironmentOwner ==
  ASSUME TypeInv, OwnerInv,
         \/ \E t \in Tokens :
               \/ Boot(t) \/ Wedge(t) \/ Crash(t) \/ IdleClose(t) \/ IdleExit(t)
               \/ ReapOrphan(t) \/ ReapSlow(t) \/ KillChild(t) \/ DropKill(t)
         \/ ReapReady \/ Kill
  PROVE  OwnerInv'
<1>1. ASSUME NEW t \in Tokens, Crash(t) \/ IdleExit(t) \/ KillChild(t)
      PROVE  OwnerInv'
  <2>1. proc[t] # "none"
    BY <1>1 DEF Crash, IdleExit, KillChild, Alive, OwnerInv, SpawnPhase
  <2> QED
    BY <1>1, <2>1, ProcessDies DEF Crash, IdleExit, KillChild
<1>2. ASSUME NEW t \in Tokens, Boot(t) \/ Wedge(t) \/ IdleClose(t)
      PROVE  OwnerInv'
  <2>1. /\ Alive(t) /\ UNCHANGED <<entry, req, killing, detached, spawns>>
        /\ \E v \in {"up", "dead", "wedged", "closing"} : proc' = [proc EXCEPT ![t] = v]
    BY <1>2 DEF Boot, Wedge, IdleClose, Alive
  <2>2. ExclusiveOwner' /\ OneDriver' /\ DriverOwns'
    BY <2>1 DEF OwnerInv, ExclusiveOwner, OneDriver, DriverOwns, Alive, TypeInv, TypeOK
  <2>3. SpawnPhase'
    BY <2>1 DEF OwnerInv, SpawnPhase, Alive, TypeInv, TypeOK, Holding, Driving
  <2> QED
    BY <2>2, <2>3 DEF OwnerInv
<1>3. ASSUME NEW t \in Tokens, ReapOrphan(t) \/ ReapSlow(t)
      PROVE  OwnerInv'
  <2>1. /\ entry = Spawning(t) /\ entry' = Absent /\ detached' = detached \cup {t}
        /\ req' = Notified(t, req) /\ UNCHANGED <<proc, killing, spawns>>
    BY <1>3 DEF ReapOrphan, ReapSlow, ReapSpawning
  <2>2. \A q \in Callers : req'[q].pc \in Driving => req'[q] = req[q]
    BY <2>1, NotifiedType DEF TypeInv, TypeOK, Holding
  <2>3. ExclusiveOwner' /\ OneDriver' /\ DriverOwns'
    BY <2>1, <2>2
       DEF OwnerInv, ExclusiveOwner, OneDriver, DriverOwns, Alive, Spawning, Ready
  <2>4. SpawnPhase'
    BY <2>1, <2>2 DEF OwnerInv, SpawnPhase, Alive, Driving, Absent, Ready
  <2> QED
    BY <2>3, <2>4 DEF OwnerInv
<1>4. ASSUME NEW t \in Tokens, DropKill(t)
      PROVE  OwnerInv'
  BY <1>4, DriversRetire DEF DropKill
<1>5. CASE ReapReady
  <2>1. /\ entry = Ready(entry.token) /\ ~Alive(entry.token) /\ entry' = Absent
        /\ UNCHANGED <<proc, req, killing, detached, spawns>>
    BY <1>5, EntryToken DEF ReapReady, TypeInv, TypeOK
  <2>2. ExclusiveOwner' /\ OneDriver' /\ DriverOwns'
    BY <2>1 DEF OwnerInv, ExclusiveOwner, OneDriver, DriverOwns, Alive, Spawning, Ready
  <2>3. SpawnPhase'
    BY <2>1 DEF OwnerInv, SpawnPhase, Alive, Absent, Ready
  <2> QED
    BY <2>2, <2>3 DEF OwnerInv
<1>6. CASE Kill
  <2>1. PICK t \in Tokens : t = entry.token
    BY <1>6, EntryToken DEF Kill, TypeInv, TypeOK
  <2>2. /\ entry = Spawning(t) \/ entry = Ready(t)
        /\ entry' = Absent /\ detached' = detached \cup {t}
        /\ killing' \subseteq killing \cup {t}
        /\ entry # Ready(t) => killing' = killing
        /\ UNCHANGED <<proc, req, spawns>>
    BY <1>6, <2>1, EntryToken DEF Kill, TypeInv, TypeOK
  <2>3. ExclusiveOwner' /\ OneDriver' /\ DriverOwns'
    BY <2>2 DEF OwnerInv, ExclusiveOwner, OneDriver, DriverOwns, Alive, Spawning, Ready
  <2>4. SpawnPhase'
    BY <2>2 DEF OwnerInv, SpawnPhase, Alive, Absent, Ready
  <2> QED
    BY <2>3, <2>4 DEF OwnerInv
<1> QED
  BY <1>1, <1>2, <1>3, <1>4, <1>5, <1>6

RegistryInv == TypeInv /\ OwnerInv

LEMMA RegistryInvariant == Spec => []RegistryInv
<1>1. Init => RegistryInv
  <2> SUFFICES ASSUME Init PROVE OwnerInv
    BY InitTypes DEF RegistryInv
  <2> QED
    BY DEF Init, OwnerInv, ExclusiveOwner, OneDriver, DriverOwns, SpawnPhase, Alive,
           NewCaller, Driving, Absent, Ready
<1>2. RegistryInv /\ [Next]_vars => RegistryInv'
  <2> SUFFICES ASSUME RegistryInv, [Next]_vars PROVE OwnerInv'
    BY NextTypes DEF RegistryInv
  <2>1. CASE UNCHANGED vars
    BY <2>1, DriversRetire DEF vars, RegistryInv
  <2>2. CASE Next
    BY <2>2, RequestOwner, EnvironmentOwner DEF Next, RegistryInv
  <2> QED
    BY <2>1, <2>2
<1> QED
  BY <1>1, <1>2, PTL DEF Spec

\* At most one process is attached to a repository: whatever runs and was not given
\* up by the router is named by the registry's entry, for any number of concurrent
\* requests, failed spawns, lost notifications, crashes, kills and drops.
THEOREM SingleOwner == Spec => []ExclusiveOwner
<1>1. RegistryInv => ExclusiveOwner
  BY DEF RegistryInv, OwnerInv
<1> QED
  BY <1>1, RegistryInvariant, PTL

-----------------------------------------------------------------------------
(* The registry implements DatabaseOwner                                   *)

\* A step after which process t is dead and all else is as before.
LEMMA ExitStep ==
  ASSUME TypeInv, NEW t \in Tokens, proc' = [proc EXCEPT ![t] = "dead"],
         detached' = detached
  PROVE  [Owner!Next]_(Owner!vars)
<1> DEFINE L == {u \in Tokens : Alive(u)}
<1>1. L' = L \ {t}
  BY DEF Alive, TypeInv, TypeOK
<1>2. CASE t \in L
  BY <1>1, <1>2 DEF Owner!Next, Owner!Exit
<1>3. CASE t \notin L
  BY <1>1, <1>3 DEF Owner!vars
<1> QED
  BY <1>2, <1>3

LEMMA QuietStep ==
  ASSUME proc' = proc, detached' = detached
  PROVE  [Owner!Next]_(Owner!vars)
BY DEF Owner!vars, Alive

\* A process that is alive and stays alive.
LEMMA AliveStep ==
  ASSUME TypeInv, NEW t \in Tokens, Alive(t), NEW v \in {"up", "wedged", "closing"},
         proc' = [proc EXCEPT ![t] = v], detached' = detached
  PROVE  [Owner!Next]_(Owner!vars)
<1>1. {u \in Tokens : Alive(u)}' = {u \in Tokens : Alive(u)}
  BY DEF Alive, TypeInv, TypeOK
<1> QED
  BY <1>1 DEF Owner!vars

LEMMA DetachStep ==
  ASSUME proc' = proc, NEW t \in Tokens, detached' = detached \cup {t}
  PROVE  [Owner!Next]_(Owner!vars)
<1>1. {u \in Tokens : Alive(u)}' = {u \in Tokens : Alive(u)}
  BY DEF Alive
<1>2. CASE t \in detached
  BY <1>1, <1>2 DEF Owner!vars
<1>3. CASE t \notin detached
  BY <1>1, <1>3 DEF Owner!Next, Owner!Detach
<1> QED
  BY <1>2, <1>3

\* Launching a process is starting an owner: nobody else is attached.
LEMMA LaunchStep ==
  ASSUME RegistryInv, NEW r \in Callers, Launch(r)
  PROVE  [Owner!Next]_(Owner!vars)
<1> DEFINE L == {u \in Tokens : Alive(u)}
<1>1. PICK t \in Tokens : t = req[r].token
  BY DEF Launch, RegistryInv, TypeInv, TypeOK, Holding, Driving
<1>2. proc[t] = "none" /\ proc' = [proc EXCEPT ![t] = "booting"] /\ detached' = detached
  BY <1>1 DEF Launch, RegistryInv, OwnerInv, SpawnPhase
<1>3. L' = L \cup {t} /\ t \notin L
  BY <1>2 DEF Alive, RegistryInv, TypeInv, TypeOK
<1>4. t \in detached \/ L \ detached = {}
  BY <1>1, <1>3 DEF Launch, RegistryInv, OwnerInv, ExclusiveOwner, DriverOwns, Driving,
     Spawning, Ready
<1> QED
  BY <1>2, <1>3, <1>4 DEF Owner!Next, Owner!Start

LEMMA OwnerStep == RegistryInv /\ [Next]_vars => [Owner!Next]_(Owner!vars)
<1> SUFFICES ASSUME RegistryInv, [Next]_vars PROVE [Owner!Next]_(Owner!vars)
  OBVIOUS
<1>0. TypeInv
  BY DEF RegistryInv
<1>1. CASE UNCHANGED vars
  BY <1>1, QuietStep DEF vars
<1>2. ASSUME NEW r \in Callers, CallerStep(r) \/ Start(r) \/ LaunchFails(r) \/ Drop(r)
      PROVE  [Owner!Next]_(Owner!vars)
  <2>1. CASE Launch(r)
    BY <2>1, LaunchStep
  <2>2. CASE HandshakeFails(r) \/ kill_and_wait(r)
    <3>1. req[r].token \in Tokens
      BY <1>0, <2>2 DEF HandshakeFails, kill_and_wait, TypeInv, TypeOK, Holding, Driving
    <3> QED
      BY <1>0, <2>2, <3>1, ExitStep DEF HandshakeFails, kill_and_wait, SupersededProc
  <2>3. CASE ~(Launch(r) \/ HandshakeFails(r) \/ kill_and_wait(r))
    <3>1. proc' = proc /\ detached' = detached
      BY <1>2, <2>3 DEF CallerStep, Start, LaunchFails, Drop, AcquireFast, Elect,
         FindOther, Subscribe, WaitTimeout, HandshakeOk, publish_ready, abandon_spawn,
         Arrive, Respond, WorkerLost
    <3> QED
      BY <3>1, QuietStep
  <2> QED
    BY <2>1, <2>2, <2>3
<1>3. ASSUME NEW t \in Tokens,
             \/ Boot(t) \/ Wedge(t) \/ Crash(t) \/ IdleClose(t) \/ IdleExit(t)
             \/ ReapOrphan(t) \/ ReapSlow(t) \/ KillChild(t) \/ DropKill(t)
      PROVE  [Owner!Next]_(Owner!vars)
  <2>1. CASE Crash(t) \/ IdleExit(t) \/ KillChild(t)
    BY <1>0, <2>1, ExitStep DEF Crash, IdleExit, KillChild
  <2>2. CASE Boot(t)
    <3>1. CASE Driven(t)
      BY <1>0, <2>2, <3>1, AliveStep DEF Boot, Alive
    <3>2. CASE ~Driven(t)
      BY <1>0, <2>2, <3>2, ExitStep DEF Boot
    <3> QED
      BY <3>1, <3>2
  <2>3. CASE Wedge(t) \/ IdleClose(t)
    BY <1>0, <2>3, AliveStep DEF Wedge, IdleClose, Alive
  <2>4. CASE ReapOrphan(t) \/ ReapSlow(t)
    BY <2>4, DetachStep DEF ReapOrphan, ReapSlow, ReapSpawning
  <2>5. CASE DropKill(t)
    BY <2>5, QuietStep DEF DropKill
  <2> QED
    BY <1>3, <2>1, <2>2, <2>3, <2>4, <2>5
<1>4. CASE ReapReady
  BY <1>4, QuietStep DEF ReapReady
<1>5. CASE Kill
  <2>1. entry.token \in Tokens
    BY <1>0, <1>5, EntryToken DEF Kill, TypeInv, TypeOK
  <2> QED
    BY <1>5, <2>1, DetachStep DEF Kill
<1> QED
  BY <1>1, <1>2, <1>3, <1>4, <1>5 DEF Next

\* Refinement: with the processes that run as live and the deleted spawns as
\* detached, every behaviour of the registry is one of the abstract owner: a process
\* starts only when no other one is attached.
THEOREM ImplementsOwner == Spec => OwnerSpec
<1>1. Init => Owner!Init
  BY DEF Init, Owner!Init, Alive
<1> QED
  BY <1>1, OwnerStep, RegistryInvariant, PTL DEF Spec, OwnerSpec, Owner!Spec

-----------------------------------------------------------------------------
(* Strays                                                                  *)

\* A spawn that was detached never gets back into the entry, and a process that
\* runs has a driver, a killer or the entry, or its holder was dropped.
NoReturn ==
    /\ \A t \in Tokens : t \in detached \/ entry \in {Spawning(t), Ready(t)} => t <= spawns
    /\ \A t \in detached : entry \notin {Spawning(t), Ready(t)}
Attended ==
    \A t \in Tokens \ unheld :
        Alive(t) => Driven(t) \/ t \in killing \/ entry = Ready(t)
StrayInv == NoReturn /\ Attended

\* A step of request r, with or without a notification, leaves the other drivers be.
LEMMA DriversStay ==
  ASSUME TypeInv, NEW r \in Callers,
         \E f \in [Callers -> Request] :
            /\ \A q \in Callers \ {r} : f[q] = req[q]
            /\ req' = f \/ \E u \in 0..MaxSpawns : req' = Notified(u, f)
  PROVE  \A q \in Callers \ {r} : req[q].pc \in Driving => req'[q] = req[q]
<1>1. PICK f \in [Callers -> Request] :
         /\ \A q \in Callers \ {r} : f[q] = req[q]
         /\ req' = f \/ \E u \in 0..MaxSpawns : req' = Notified(u, f)
  OBVIOUS
<1> QED
  BY <1>1 DEF Notified, Driving

\* The registry's invariant is needed for what a driver knows of its process; the
\* steps of a request keep every running process attended.
LEMMA RequestStray ==
  ASSUME RegistryInv, StrayInv, NEW r \in Callers,
         CallerStep(r) \/ Start(r) \/ LaunchFails(r) \/ Drop(r)
  PROVE  StrayInv'
<1>0. /\ TypeInv /\ OwnerInv /\ 0 \in 0..MaxSpawns /\ req[r] \in Request
      /\ req[r].token \in 0..MaxSpawns /\ entry.token \in 0..MaxSpawns
      /\ req[r].pc \in Driving => req[r].token \in Tokens
      /\ \A t \in Tokens : t \in 0..MaxSpawns
      /\ req \in [Callers -> Request]
  BY RegistryAssumption, EntryToken
     DEF RegistryInv, TypeInv, TypeOK, Tokens, Holding, Request
<1>p. {"launch", "handshake", "publish", "abandon", "kill"} \subseteq Places
  BY DEF Places, Driving
<1>1. ASSUME NEW pc \in Places, NEW t \in 0..MaxSpawns,
             req' = Goto(r, pc, t) \/ \E u \in 0..MaxSpawns : req' = Notified(u, Goto(r, pc, t))
      PROVE  /\ \A q \in Callers \ {r} : req[q].pc \in Driving => req'[q] = req[q]
             /\ pc \in Driving => req'[r].pc = pc /\ req'[r].token = t
  <2>1. /\ Goto(r, pc, t) \in [Callers -> Request]
        /\ Goto(r, pc, t)[r].pc = pc /\ Goto(r, pc, t)[r].token = t
        /\ \A q \in Callers \ {r} : Goto(r, pc, t)[q] = req[q]
    BY <1>0, GotoType
  <2>2. pc \in Driving => req'[r].pc = pc /\ req'[r].token = t
    BY <1>1, <2>1 DEF Notified, Driving
  <2> QED
    BY <1>0, <1>1, <2>1, <2>2, DriversStay
<1>2. ASSUME req[r].pc \notin Driving, UNCHANGED <<proc, killing, detached, unheld>>,
             \A q \in Callers \ {r} : req[q].pc \in Driving => req'[q] = req[q],
             UNCHANGED <<entry, spawns>>
      PROVE  StrayInv'
  BY <1>2 DEF StrayInv, NoReturn, Attended, Alive, Driven, Drives
<1>3. CASE Start(r) \/ Subscribe(r) \/ Arrive(r) \/ Respond(r)
  <2>1. \E pc \in Places, t \in 0..MaxSpawns : req' = Goto(r, pc, t)
    BY <1>0, <1>3 DEF Start, Subscribe, Arrive, Respond, Places, Ended
  <2> QED
    BY <1>1, <1>2, <1>3, <2>1 DEF Start, Subscribe, Arrive, Respond, Driving
<1>4. CASE AcquireFast(r) \/ FindOther(r)
  <2>1. \E pc \in {"send", "await", "elect"}, t \in 0..MaxSpawns : req' = Goto(r, pc, t)
    BY <1>0, <1>4 DEF AcquireFast, FindOther
  <2>2. \E pc \in Places, t \in 0..MaxSpawns : req' = Goto(r, pc, t)
    BY <2>1 DEF Places
  <2> QED
    BY <1>1, <1>2, <1>4, <2>2 DEF AcquireFast, FindOther, Driving
<1>5. CASE WaitTimeout(r)
  BY <1>0, <1>2, <1>5 DEF WaitTimeout, Driving
<1>6. CASE WorkerLost(r)
  <2>1. \A q \in Callers \ {r} : req'[q] = req[q]
    BY <1>0, <1>6 DEF WorkerLost, Goto
  <2> QED
    BY <1>2, <1>6, <2>1 DEF WorkerLost, Driving
<1>7. CASE Elect(r)
  <2> DEFINE t == spawns + 1
  <2>1. t \in Tokens /\ spawns \in Nat /\ entry' = Spawning(t) /\ spawns' = t
        /\ UNCHANGED <<proc, killing, detached, unheld>> /\ req' = Goto(r, "launch", t)
    BY <1>0, <1>7, RegistryAssumption DEF Elect, Tokens, TypeInv, TypeOK
  <2>2. \A q \in Callers \ {r} : req[q].pc \in Driving => req'[q] = req[q]
    BY <1>0, <1>1, <1>p, <2>1
  <2>3. NoReturn'
    BY <1>0, <2>1 DEF StrayInv, NoReturn, Spawning, Ready, Tokens, TypeInv, TypeOK
  <2>4. \A u \in Tokens : Alive(u) => entry # Ready(u)
    BY <1>7 DEF Elect, MayElect, Absent, Ready
  <2>5. Attended'
    BY <1>7, <2>1, <2>2, <2>4 DEF Elect, StrayInv, Attended, Alive, Driven, Drives, Driving
  <2> QED
    BY <2>3, <2>5 DEF StrayInv
<1>8. CASE Launch(r) \/ HandshakeOk(r) \/ HandshakeFails(r) \/ LaunchFails(r)
  <2>1. PICK t \in Tokens : t = req[r].token
    BY <1>0, <1>8 DEF Launch, HandshakeOk, HandshakeFails, LaunchFails, Driving
  <2>2. /\ \E pc \in Driving : req' = Goto(r, pc, t)
        /\ \A u \in Tokens \ {t} : proc'[u] = proc[u]
        /\ UNCHANGED <<entry, killing, detached, unheld, spawns>>
    BY <1>0, <1>8, <2>1 DEF Launch, HandshakeOk, HandshakeFails, LaunchFails, Driving,
       TypeInv, TypeOK
  <2>3. /\ \A q \in Callers \ {r} : req[q].pc \in Driving => req'[q] = req[q]
        /\ Driven(t)'
    BY <1>0, <1>1, <1>p, <2>1, <2>2 DEF Driving, Driven, Drives
  <2>4. \A u \in Tokens \ {t} : (Driven(u) => Driven(u)') /\ (Alive(u)' => Alive(u))
    BY <2>1, <2>2, <2>3 DEF Driven, Drives, Alive
  <2> QED
    BY <2>2, <2>3, <2>4 DEF StrayInv, NoReturn, Attended
<1>9. CASE publish_ready(r)
  <2>1. PICK t \in Tokens : t = req[r].token
    BY <1>0, <1>9 DEF publish_ready, Driving
  <2>2. UNCHANGED <<proc, killing, detached, unheld, spawns>>
    BY <1>9 DEF publish_ready
  <2>3. CASE Owns(t)
    <3>1. /\ entry = Spawning(t) /\ entry' = Ready(t)
          /\ req' = Notified(t, Goto(r, "send", t))
      BY <1>9, <2>1, <2>3 DEF publish_ready, Owns
    <3>2. \A q \in Callers \ {r} : req[q].pc \in Driving => req'[q] = req[q]
      BY <1>0, <1>1, <2>1, <3>1 DEF Places
    <3>3. NoReturn'
      BY <2>2, <3>1 DEF StrayInv, NoReturn, Spawning, Ready
    <3>4. Attended'
      BY <2>1, <2>2, <3>1, <3>2
         DEF StrayInv, Attended, Alive, Driven, Drives, Spawning, Ready
    <3> QED
      BY <3>3, <3>4 DEF StrayInv
  <2>4. CASE ~Owns(t)
    <3>1. req' = Notified(t, Goto(r, "kill", t)) /\ entry' = entry
      BY <1>9, <2>1, <2>4 DEF publish_ready
    <3>2. /\ \A q \in Callers \ {r} : req[q].pc \in Driving => req'[q] = req[q]
          /\ req'[r].pc \in Driving /\ req'[r].token = t
      BY <1>0, <1>1, <1>p, <2>1, <3>1 DEF Driving
    <3> QED
      BY <2>1, <2>2, <3>1, <3>2 DEF StrayInv, NoReturn, Attended, Alive, Driven, Drives
  <2> QED
    BY <2>3, <2>4
<1>10. CASE abandon_spawn(r)
  <2>1. PICK t \in Tokens : t = req[r].token
    BY <1>0, <1>10 DEF abandon_spawn, Driving
  <2>2. /\ ~Alive(t) /\ UNCHANGED <<proc, killing, detached, unheld, spawns>>
        /\ entry' = entry \/ (entry = Spawning(t) /\ entry' = Absent)
        /\ req' = Notified(t, Goto(r, "degraded", 0))
    BY <1>0, <1>10, <2>1 DEF abandon_spawn, Owns, OwnerInv, SpawnPhase
  <2>3. \A q \in Callers \ {r} : req[q].pc \in Driving => req'[q] = req[q]
    BY <1>0, <1>1, <2>1, <2>2 DEF Places, Ended
  <2>4. NoReturn'
    BY <2>2 DEF StrayInv, NoReturn, Spawning, Ready, Absent
  <2>5. Attended'
    BY <2>1, <2>2, <2>3 DEF StrayInv, Attended, Alive, Driven, Drives, Spawning, Ready
  <2> QED
    BY <2>4, <2>5 DEF StrayInv
<1>11. CASE kill_and_wait(r)
  <2>1. PICK t \in Tokens : t = req[r].token
    BY <1>0, <1>11 DEF kill_and_wait, Driving
  <2>2. /\ proc' = [proc EXCEPT ![t] = "dead"]
        /\ UNCHANGED <<entry, killing, detached, unheld, spawns>>
        /\ \A q \in Callers \ {r} : req'[q] = req[q]
    BY <1>0, <1>11, <2>1 DEF kill_and_wait, SupersededProc
  <2> QED
    BY <1>0, <2>1, <2>2
       DEF StrayInv, NoReturn, Attended, Alive, Driven, Drives, TypeInv, TypeOK
<1>12. CASE Drop(r)
  <2>1. /\ UNCHANGED <<entry, proc, killing, detached, spawns>>
        /\ unheld \subseteq unheld' /\ req' = Goto(r, "dropped", 0)
        /\ req[r].pc \in Driving => req[r].token \in unheld'
    BY <1>12 DEF Drop
  <2>2. \A q \in Callers \ {r} : req[q].pc \in Driving => req'[q] = req[q]
    BY <1>0, <1>1, <2>1 DEF Places, Ended
  <2> QED
    BY <2>1, <2>2 DEF StrayInv, NoReturn, Attended, Alive, Driven, Drives
<1> QED
  BY <1>3, <1>4, <1>5, <1>6, <1>7, <1>8, <1>9, <1>10, <1>11, <1>12 DEF CallerStep

\* So do the workers, the reaper and kill: kill puts the child it took from the map
\* among those it has still to kill.
LEMMA EnvironmentStray ==
  ASSUME RegistryInv, StrayInv,
         \/ \E t \in Tokens :
               \/ Boot(t) \/ Wedge(t) \/ Crash(t) \/ IdleClose(t) \/ IdleExit(t)
               \/ ReapOrphan(t) \/ ReapSlow(t) \/ KillChild(t) \/ DropKill(t)
         \/ ReapReady \/ Kill
  PROVE  StrayInv'
<1>0. TypeInv /\ proc \in [Tokens -> ProcStates]
  BY DEF RegistryInv, TypeInv, TypeOK
<1>1. ASSUME NEW t \in Tokens,
             Boot(t) \/ Wedge(t) \/ Crash(t) \/ IdleClose(t) \/ IdleExit(t)
      PROVE  StrayInv'
  <2>1. /\ Alive(t) /\ UNCHANGED <<entry, req, killing, detached, unheld, spawns>>
        /\ \A u \in Tokens \ {t} : proc'[u] = proc[u]
    BY <1>0, <1>1 DEF Boot, Wedge, Crash, IdleClose, IdleExit, Alive
  <2>2. \A u \in Tokens : Alive(u)' => Alive(u)
    BY <2>1 DEF Alive
  <2> QED
    BY <2>1, <2>2 DEF StrayInv, NoReturn, Attended, Driven, Drives
<1>2. ASSUME NEW t \in Tokens, KillChild(t)
      PROVE  StrayInv'
  BY <1>0, <1>2 DEF KillChild, StrayInv, NoReturn, Attended, Driven, Drives, Alive
<1>3. ASSUME NEW t \in Tokens, ReapOrphan(t) \/ ReapSlow(t)
      PROVE  StrayInv'
  <2>1. /\ entry = Spawning(t) /\ entry' = Absent /\ detached' = detached \cup {t}
        /\ req' = Notified(t, req) /\ UNCHANGED <<proc, killing, unheld, spawns>>
    BY <1>3 DEF ReapOrphan, ReapSlow, ReapSpawning
  <2>2. \A q \in Callers : req[q].pc \in Driving => req'[q] = req[q]
    BY <2>1 DEF Notified, Driving
  <2>3. NoReturn'
    BY <2>1 DEF StrayInv, NoReturn, Absent, Spawning, Ready
  <2>4. Attended'
    BY <2>1, <2>2 DEF StrayInv, Attended, Alive, Driven, Drives, Spawning, Ready
  <2> QED
    BY <2>3, <2>4 DEF StrayInv
<1>4. ASSUME NEW t \in Tokens, DropKill(t)
      PROVE  StrayInv'
  BY <1>4 DEF DropKill, StrayInv, NoReturn, Attended, Driven, Drives, Alive
<1>5. CASE ReapReady
  <2>1. /\ entry = Ready(entry.token) /\ ~Alive(entry.token) /\ entry' = Absent
        /\ UNCHANGED <<proc, req, killing, detached, unheld, spawns>>
    BY <1>5, EntryToken DEF ReapReady, RegistryInv, TypeInv, TypeOK
  <2>2. \A u \in Tokens : Alive(u) => entry # Ready(u)
    BY <2>1 DEF Ready
  <2> QED
    BY <2>1, <2>2 DEF StrayInv, NoReturn, Attended, Driven, Drives, Alive, Absent,
       Spawning, Ready
<1>6. CASE Kill
  <2>1. PICK t \in Tokens : t = entry.token
    BY <1>6, EntryToken DEF Kill, RegistryInv, TypeInv, TypeOK
  <2>2. /\ entry = Spawning(t) \/ (entry = Ready(t) /\ t \in killing')
        /\ killing \subseteq killing'
        /\ entry' = Absent /\ detached' = detached \cup {t}
        /\ UNCHANGED <<proc, req, unheld, spawns>>
    BY <1>6, <2>1, EntryToken DEF Kill, RegistryInv, TypeInv, TypeOK
  <2>3. NoReturn'
    BY <2>2 DEF StrayInv, NoReturn, Absent, Spawning, Ready
  <2>4. Attended'
    BY <2>2 DEF StrayInv, Attended, Alive, Driven, Drives, Spawning, Ready
  <2> QED
    BY <2>3, <2>4 DEF StrayInv
<1> QED
  BY <1>1, <1>2, <1>3, <1>4, <1>5, <1>6

\* A worker that was superseded, reaped in its spawn or killed does not live on
\* unattended: while it runs, its driver or its killer is there to end it, unless
\* that one was dropped.
THEOREM StraysAttended == Spec => []StraysAreKilled
<1>1. Init => StrayInv
  BY DEF Init, StrayInv, NoReturn, Attended, Alive, Absent, Spawning, Ready
<1>2. RegistryInv /\ StrayInv /\ [Next]_vars => StrayInv'
  <2> SUFFICES ASSUME RegistryInv, StrayInv, [Next]_vars PROVE StrayInv'
    OBVIOUS
  <2>1. CASE UNCHANGED vars
    BY <2>1 DEF vars, StrayInv, NoReturn, Attended, Alive, Driven, Drives
  <2>2. CASE Next
    BY <2>2, RequestStray, EnvironmentStray DEF Next
  <2> QED
    BY <2>1, <2>2
<1>3. RegistryInv /\ StrayInv => StraysAreKilled
  BY DEF RegistryInv, TypeInv, TypeOK, StrayInv, NoReturn, Attended, StraysAreKilled
<1> QED
  BY <1>1, <1>2, <1>3, RegistryInvariant, PTL DEF Spec

-----------------------------------------------------------------------------
(* Idle exits                                                              *)

\* obtain_worker has a round to spare, and a lost worker is replaced once.
RetriesSuffice == AcquireRounds >= 2 /\ WORKER_LOST_RETRIES >= 1

\* Request r came before the worker that serves, so that one does not go idle on it.
Settled(r, t) == entry = Ready(t) /\ r \in fresh
NotOld(r) == \A t \in Tokens : entry = Ready(t) /\ Alive(t) => r \in fresh

\* How far a request may have got when nothing fails: it takes a second round only
\* into a worker it is settled with, and loses a worker only once, one that was up
\* before the request began.
CourseOf(r) ==
    LET q == req[r] IN
    /\ q.pc = "idle" => q.round = 0 /\ q.attempt = 0
    /\ q.pc \in {"acquire", "elect"} =>
          /\ q.round = 0 \/ \E t \in Tokens : Settled(r, t)
          /\ q.attempt = 0 \/ NotOld(r)
    /\ q.pc \in {"await", "waiting"} =>
          q.round = 0 /\ (entry = Spawning(q.token) \/ Settled(r, q.token))
    /\ q.pc \in {"send", "inflight"} =>
          /\ proc[q.token] \in {"up", "closing", "dead"}
          /\ \/ Settled(r, q.token)
             \/ /\ q.attempt = 0
                /\ \A t \in Tokens : entry = Ready(t) /\ Alive(t) => t = q.token \/ r \in fresh

\* When nothing fails, a spawn runs through: its driver is there, its process does
\* not die before it is published, and afterwards not while a settled request lasts.
SpawnsCalm ==
    /\ detached = {} /\ killing = {}
    /\ \A r \in Callers : req[r].pc \notin {"abandon", "kill", "degraded"}
    /\ \A t \in Tokens : entry = Spawning(t) => Driven(t)
    /\ \A r \in Callers : req[r].pc = "handshake" => proc[req[r].token] \in {"booting", "up"}
    /\ \A r \in Callers : req[r].pc = "publish" => proc[req[r].token] = "up"
    /\ \A t \in Tokens : entry = Ready(t) => proc[t] \in {"up", "closing", "dead"}
    /\ \A r \in fresh : req[r].pc # "idle"
    /\ \A r \in fresh \cap UnderWay, t \in Tokens : entry = Ready(t) => proc[t] = "up"

Calm == SpawnsCalm /\ \A r \in Callers : CourseOf(r)
CalmInv == RetriesSuffice /\ faults = 0 => Calm

\* What one request may count on, by its place.
LEMMA SettledUp ==
  ASSUME SpawnsCalm, NEW r \in Callers, NEW t \in Tokens, Settled(r, t),
         req[r].pc \notin {"idle"} \cup Ended
  PROVE  proc[t] = "up"
BY DEF SpawnsCalm, Settled, UnderWay

\* A step of one request that does not drive, with its own course right afterwards.
LEMMA CalmMove ==
  ASSUME Calm, NEW r \in Callers, fresh \subseteq Callers,
         UNCHANGED <<entry, proc, fresh, detached, killing>>,
         \A q \in Callers \ {r} : req'[q] = req[q],
         req[r].pc \notin Driving \cup Ended,
         req'[r].pc \notin Driving \cup {"idle", "degraded"},
         CourseOf(r)'
  PROVE  Calm'
<1>1. \A q \in Callers : CourseOf(q)'
  <2> TAKE q \in Callers
  <2>1. CASE q = r
    BY <2>1
  <2>2. CASE q # r
    <3>1. req'[q] = req[q] /\ CourseOf(q)
      BY <2>2 DEF Calm
    <3> QED
      BY <3>1 DEF CourseOf, Settled, NotOld, Alive
  <2> QED
    BY <2>1, <2>2
<1>2. \A t \in Tokens : Driven(t)' <=> Driven(t)
  BY DEF Driven, Drives
<1>3. fresh' \cap UnderWay' \subseteq fresh \cap UnderWay
  BY DEF UnderWay, Calm, SpawnsCalm
<1>4. SpawnsCalm'
  BY <1>2, <1>3 DEF Calm, SpawnsCalm, Driving
<1> QED
  BY <1>1, <1>4 DEF Calm

\* The next round is there for a request that is settled.
LEMMA RoundToSpare ==
  ASSUME RetriesSuffice, NEW q \in Request, q.round = 0
  PROVE  /\ NextRound(q).pc = "acquire" /\ NextRound(q).round = 1
         /\ NextRound(q).token = 0 /\ NextRound(q).attempt = q.attempt
<1>1. q.round + 1 = 1 /\ q.round + 1 < AcquireRounds
  BY RegistryAssumption DEF RetriesSuffice
<1> QED
  BY <1>1 DEF NextRound, Request

LEMMA RequestCalm ==
  ASSUME RetriesSuffice, RegistryInv, Calm, faults' = 0, faults = 0, NEW r \in Callers,
         CallerStep(r) \/ Start(r) \/ LaunchFails(r) \/ Drop(r)
  PROVE  Calm'
<1>0. /\ 0 \in 0..MaxSpawns /\ req \in [Callers -> Request] /\ req[r] \in Request
      /\ req[r].token \in 0..MaxSpawns /\ entry.token \in 0..MaxSpawns
      /\ req[r].pc \in Holding => req[r].token \in Tokens
      /\ \A t \in Tokens : t \in 0..MaxSpawns
      /\ entry \in Entries /\ proc \in [Tokens -> ProcStates] /\ fresh \subseteq Callers
      /\ CourseOf(r) /\ SpawnsCalm /\ OwnerInv
  BY RegistryAssumption, EntryToken
     DEF RegistryInv, TypeInv, TypeOK, Tokens, Holding, Request, Calm
<1>g. ASSUME NEW pc \in Places, NEW t \in 0..MaxSpawns, req' = Goto(r, pc, t)
      PROVE  /\ req'[r].pc = pc /\ req'[r].token = t
             /\ req'[r].round = req[r].round /\ req'[r].attempt = req[r].attempt
             /\ \A q \in Callers \ {r} : req'[q] = req[q]
  BY <1>0, <1>g DEF Goto, Request
<1>1. CASE Start(r)
  <2>1. /\ req'[r].pc = "acquire" /\ req'[r].round = 0 /\ req'[r].attempt = 0
        /\ \A q \in Callers \ {r} : req'[q] = req[q]
    BY <1>0, <1>1, <1>g DEF Start, Places, CourseOf
  <2>2. CourseOf(r)'
    BY <2>1 DEF CourseOf
  <2> QED
    BY <1>1, <2>1, <2>2, <1>0, CalmMove DEF Start, Driving, Ended
<1>2. CASE AcquireFast(r) \/ FindOther(r)
  <2>1. UNCHANGED <<entry, proc, fresh, detached, killing>> /\ req[r].pc \in {"acquire", "elect"}
    BY <1>2 DEF AcquireFast, FindOther
  <2>2. \/ /\ entry = Ready(entry.token) /\ Alive(entry.token) /\ entry.token \in Tokens
           /\ req' = Goto(r, "send", entry.token)
        \/ /\ entry = Spawning(entry.token) /\ entry.token \in Tokens
           /\ req' = Goto(r, "await", entry.token)
        \/ /\ req[r].pc = "acquire" /\ req' = Goto(r, "elect", 0)
    BY <1>0, <1>2, EntryToken DEF AcquireFast, FindOther, MayElect, Absent
  <2>3. CASE /\ entry = Ready(entry.token) /\ Alive(entry.token) /\ entry.token \in Tokens
             /\ req' = Goto(r, "send", entry.token)
    <3>1. /\ req'[r].pc = "send" /\ req'[r].token = entry.token
          /\ req'[r].attempt = req[r].attempt
          /\ \A q \in Callers \ {r} : req'[q] = req[q]
      BY <1>0, <1>g, <2>3 DEF Places
    <3>2. proc[entry.token] \in {"up", "closing", "dead"}
      BY <1>0, <2>3 DEF SpawnsCalm
    <3>3. req[r].attempt = 0 \/ r \in fresh
      BY <1>0, <2>1, <2>3 DEF CourseOf, NotOld
    <3>4. \A t \in Tokens : entry = Ready(t) => t = entry.token
      BY DEF Ready
    <3>5. CourseOf(r)'
      BY <2>1, <2>3, <3>1, <3>2, <3>3, <3>4 DEF CourseOf, Settled, Alive
    <3> QED
      BY <2>1, <3>1, <3>5, <1>0, CalmMove DEF Driving, Ended
  <2>4. CASE /\ entry = Spawning(entry.token) /\ entry.token \in Tokens
             /\ req' = Goto(r, "await", entry.token)
    <3>1. /\ req'[r].pc = "await" /\ req'[r].token = entry.token
          /\ req'[r].round = req[r].round
          /\ \A q \in Callers \ {r} : req'[q] = req[q]
      BY <1>0, <1>g, <2>4 DEF Places
    <3>2. req[r].round = 0
      BY <1>0, <2>1, <2>4 DEF CourseOf, Settled, Spawning, Ready
    <3>3. CourseOf(r)'
      BY <2>1, <2>4, <3>1, <3>2 DEF CourseOf
    <3> QED
      BY <2>1, <3>1, <3>3, <1>0, CalmMove DEF Driving, Ended
  <2>5. CASE req[r].pc = "acquire" /\ req' = Goto(r, "elect", 0)
    <3>1. /\ req'[r].pc = "elect" /\ req'[r].attempt = req[r].attempt
          /\ req'[r].round = req[r].round
          /\ \A q \in Callers \ {r} : req'[q] = req[q]
      BY <1>0, <1>g, <2>5 DEF Places
    <3>2. CourseOf(r)'
      BY <1>0, <2>1, <2>5, <3>1 DEF CourseOf, Settled, NotOld, Alive
    <3> QED
      BY <2>1, <3>1, <3>2, <1>0, CalmMove DEF Driving, Ended
  <2> QED
    BY <2>2, <2>3, <2>4, <2>5
<1>3. CASE Subscribe(r) \/ Arrive(r) \/ Respond(r)
  <2>1. UNCHANGED <<entry, proc, fresh, detached, killing>>
    BY <1>3 DEF Subscribe, Arrive, Respond
  <2>2. /\ \/ req[r].pc = "await" /\ req'[r].pc = "waiting"
           \/ req[r].pc = "send" /\ req'[r].pc = "inflight"
           \/ req[r].pc = "inflight" /\ req'[r].pc = "answered"
        /\ req'[r].pc # "answered" => req'[r].token = req[r].token
        /\ req'[r].round = req[r].round /\ req'[r].attempt = req[r].attempt
        /\ \A q \in Callers \ {r} : req'[q] = req[q]
    BY <1>0, <1>3, <1>g DEF Subscribe, Arrive, Respond, Places, Ended
  <2>3. CourseOf(r)'
    BY <1>0, <2>1, <2>2 DEF CourseOf, Settled, Alive
  <2> QED
    BY <2>1, <2>2, <2>3, <1>0, CalmMove DEF Driving, Ended
<1>4. CASE WaitTimeout(r)
  <2>1. PICK t \in Tokens : t = req[r].token
    BY <1>0, <1>4 DEF WaitTimeout, Holding
  <2>2. req[r].round = 0 /\ Settled(r, t)
    BY <1>0, <1>4, <2>1 DEF WaitTimeout, CourseOf, SpawnsCalm
  <2>3. /\ req'[r] = NextRound(req[r]) /\ \A q \in Callers \ {r} : req'[q] = req[q]
        /\ UNCHANGED <<entry, proc, fresh, detached, killing>>
    BY <1>0, <1>4 DEF WaitTimeout
  <2>4. req'[r].pc = "acquire"
    BY <1>0, <2>2, <2>3, RoundToSpare
  <2>5. CourseOf(r)'
    BY <2>2, <2>3, <2>4 DEF CourseOf, Settled, NotOld
  <2> QED
    BY <1>4, <2>3, <2>4, <2>5, <1>0, CalmMove DEF WaitTimeout, Driving, Ended
<1>5. CASE WorkerLost(r)
  <2>1. PICK t \in Tokens : t = req[r].token
    BY <1>0, <1>5 DEF WorkerLost, Holding
  <2>2. proc[t] = "dead"
    BY <1>0, <1>5, <2>1 DEF WorkerLost, CourseOf, Serving
  <2>3. ~Settled(r, t)
    BY <1>0, <1>5, <2>2, SettledUp DEF WorkerLost, Ended
  <2>4. /\ req[r].attempt = 0
        /\ \A u \in Tokens : entry = Ready(u) /\ Alive(u) => u = t \/ r \in fresh
    BY <1>0, <1>5, <2>1, <2>3 DEF WorkerLost, CourseOf
  <2>5. NotOld(r)
    BY <2>2, <2>4 DEF NotOld, Alive
  <2>6. req[r].attempt < WORKER_LOST_RETRIES
    BY <2>4, RegistryAssumption DEF RetriesSuffice
  <2>7. /\ req'[r].pc = "acquire" /\ req'[r].round = 0
        /\ \A q \in Callers \ {r} : req'[q] = req[q]
        /\ UNCHANGED <<entry, proc, fresh, detached, killing>>
    BY <1>0, <1>5, <2>6 DEF WorkerLost
  <2>8. CourseOf(r)'
    BY <2>5, <2>7 DEF CourseOf, NotOld, Alive
  <2> QED
    BY <1>5, <2>7, <2>8, <1>0, CalmMove DEF WorkerLost, Driving, Ended
<1>6. CASE Elect(r)
  <2> DEFINE t == spawns + 1
  <2>1. /\ t \in Tokens /\ entry' = Spawning(t) /\ UNCHANGED <<proc, killing, detached, fresh>>
        /\ req' = Goto(r, "launch", t) /\ req[r].pc = "elect" /\ MayElect
    BY <1>6, RegistryAssumption DEF Elect, Tokens, RegistryInv, TypeInv, TypeOK
  <2>2. /\ req'[r].pc = "launch" /\ req'[r].token = t
        /\ \A q \in Callers \ {r} : req'[q] = req[q]
    BY <1>0, <1>g, <2>1 DEF Places, Driving
  <2>3. /\ \A u \in Tokens : entry # Spawning(u)
        /\ \A u \in Tokens : entry = Ready(u) => ~Alive(u)
    BY <2>1 DEF MayElect, Absent, Spawning, Ready
  <2>4. \A q \in Callers, u \in Tokens :
           req[q].pc \notin {"idle"} \cup Ended => ~Settled(q, u)
    BY <1>0, <2>3, SettledUp DEF Settled, Alive
  <2>5. \A u \in Tokens : entry' # Ready(u)
    BY <2>1 DEF Spawning, Ready
  <2> HIDE DEF t
  <2>6. ASSUME NEW q \in Callers PROVE CourseOf(q)'
    <3>1. CASE q = r
      BY <2>2, <3>1 DEF CourseOf
    <3>2. CASE q # r
      <4>1. CourseOf(q) /\ req'[q] = req[q] /\ (req[q].pc \in Holding => req[q].token \in Tokens)
        BY <2>2, <3>2 DEF Calm, RegistryInv, TypeInv, TypeOK
      <4>2. req[q].pc \notin {"await", "waiting"}
        BY <2>3, <2>4, <4>1 DEF CourseOf, Holding, Ended
      <4>3. req[q].pc \in {"acquire", "elect"} => req[q].round = 0
        BY <2>4, <4>1 DEF CourseOf, Ended
      <4>4. req[q].pc \in {"send", "inflight"} =>
              proc[req[q].token] \in {"up", "closing", "dead"} /\ req[q].attempt = 0
        BY <2>4, <4>1 DEF CourseOf, Ended, Holding
      <4> QED
        BY <2>1, <2>5, <4>1, <4>2, <4>3, <4>4 DEF CourseOf, NotOld
    <3> QED
      BY <3>1, <3>2
  <2>7. \A u \in Tokens : entry' = Spawning(u) => Driven(u)'
    BY <2>1, <2>2 DEF Driven, Drives, Driving, Spawning
  <2>8. SpawnsCalm'
    BY <1>0, <2>1, <2>2, <2>5, <2>7 DEF SpawnsCalm
  <2> QED
    BY <2>6, <2>8 DEF Calm
<1>7. CASE Launch(r)
  <2>1. PICK t \in Tokens : t = req[r].token
    BY <1>0, <1>7 DEF Launch, Holding, Driving
  <2>2. /\ proc[t] = "none" /\ proc' = [proc EXCEPT ![t] = "booting"]
        /\ UNCHANGED <<entry, fresh, detached, killing>> /\ req[r].pc = "launch"
    BY <1>0, <1>7, <2>1 DEF Launch, OwnerInv, SpawnPhase
  <2>3. /\ req'[r].pc = "handshake" /\ req'[r].token = t
        /\ \A q \in Callers \ {r} : req'[q] = req[q]
    BY <1>0, <1>7, <1>g, <2>1 DEF Launch, Places, Driving
  <2>4. /\ proc'[t] = "booting" /\ \A u \in Tokens \ {t} : proc'[u] = proc[u]
        /\ entry # Ready(t)
    BY <1>0, <2>2 DEF SpawnsCalm
  <2>5. \A u \in Tokens \ {t} : Alive(u)' <=> Alive(u)
    BY <2>4 DEF Alive
  <2>6. ASSUME NEW q \in Callers PROVE CourseOf(q)'
    <3>1. CASE q = r
      BY <2>3, <3>1 DEF CourseOf
    <3>2. CASE q # r
      <4>1. CourseOf(q) /\ req'[q] = req[q] /\ (req[q].pc \in Holding => req[q].token \in Tokens)
        BY <2>3, <3>2 DEF Calm, RegistryInv, TypeInv, TypeOK
      <4>2. req[q].pc \in {"send", "inflight"} =>
               req[q].token # t /\ req[q].token \in Tokens
        BY <2>2, <4>1 DEF CourseOf, Holding
      <4>3. NotOld(q) => NotOld(q)'
        BY <2>2, <2>4, <2>5 DEF NotOld
      <4> QED
        BY <2>2, <2>4, <2>5, <4>1, <4>2, <4>3 DEF CourseOf, Settled
    <3> QED
      BY <3>1, <3>2
  <2>7. \A u \in Tokens : Driven(u) => Driven(u)'
    BY <2>1, <2>3 DEF Driven, Drives, Driving
  <2>8. fresh' \cap UnderWay' = fresh \cap UnderWay
    BY <2>2, <2>3 DEF UnderWay, Ended
  <2>9. \A q \in Callers \ {r} : req[q].pc \in Driving => req[q].token # t /\ req[q].token \in Tokens
    BY <1>0, <2>1, <2>2 DEF OwnerInv, OneDriver, Driving, RegistryInv, TypeInv, TypeOK, Holding
  <2>10. SpawnsCalm'
    BY <1>0, <2>2, <2>3, <2>4, <2>7, <2>8, <2>9 DEF SpawnsCalm, Driving
  <2> QED
    BY <2>6, <2>10 DEF Calm
<1>8. CASE HandshakeOk(r)
  <2>1. PICK t \in Tokens : t = req[r].token
    BY <1>0, <1>8 DEF HandshakeOk, Holding, Driving
  <2>2. proc[t] = "up" /\ UNCHANGED <<entry, proc, fresh, detached, killing>>
    BY <1>0, <1>8, <2>1 DEF HandshakeOk, SpawnsCalm, Serving
  <2>3. /\ req'[r].pc = "publish" /\ req'[r].token = t /\ req[r].pc = "handshake"
        /\ \A q \in Callers \ {r} : req'[q] = req[q]
    BY <1>0, <1>8, <1>g, <2>1 DEF HandshakeOk, Places, Driving
  <2>4. ASSUME NEW q \in Callers PROVE CourseOf(q)'
    BY <2>2, <2>3 DEF Calm, CourseOf, Settled, NotOld, Alive
  <2>5. \A u \in Tokens : Driven(u) => Driven(u)'
    BY <2>1, <2>3 DEF Driven, Drives, Driving
  <2>6. fresh' \cap UnderWay' = fresh \cap UnderWay
    BY <2>2, <2>3 DEF UnderWay, Ended
  <2>7. SpawnsCalm'
    BY <1>0, <2>2, <2>3, <2>5, <2>6 DEF SpawnsCalm
  <2> QED
    BY <2>4, <2>7 DEF Calm
<1>9. CASE publish_ready(r)
  <2>1. PICK t \in Tokens : t = req[r].token
    BY <1>0, <1>9 DEF publish_ready, Holding, Driving
  <2>2. req[r].pc = "publish" /\ entry = Spawning(t) /\ proc[t] = "up" /\ detached = {}
    BY <1>0, <1>9, <2>1 DEF publish_ready, SpawnsCalm, OwnerInv, DriverOwns, Driving
  <2>3. /\ entry' = Ready(t) /\ fresh' = UnderWay /\ UNCHANGED <<proc, detached, killing>>
        /\ req' = Notified(t, Goto(r, "send", t))
    BY <1>9, <2>1, <2>2 DEF publish_ready, Owns
  <2>4. /\ req'[r].pc = "send" /\ req'[r].token = t
        /\ \A q \in Callers \ {r} :
              req'[q] = IF req[q].pc = "waiting" /\ req[q].token = t
                        THEN NextRound(req[q]) ELSE req[q]
    <3> DEFINE s == Goto(r, "send", t)
    <3>1. /\ s[r].pc = "send" /\ s[r].token = t
          /\ \A q \in Callers \ {r} : s[q] = req[q]
      BY <1>0, GotoType DEF Places
    <3> HIDE DEF s
    <3>2. req' = Notified(t, s)
      BY <2>3 DEF s
    <3> QED
      BY <3>1, <3>2 DEF Notified
  <2>5. /\ \A u \in Tokens : entry' # Spawning(u)
        /\ \A u \in Tokens : entry' = Ready(u) => u = t
        /\ \A u \in Tokens : entry # Ready(u)
        /\ \A u \in Tokens : entry = Spawning(u) => u = t
    BY <2>2, <2>3 DEF Spawning, Ready
  <2>6. \A q \in Callers \ {r} : req[q].pc = "waiting" => 
           /\ req[q].token = t /\ req'[q].pc = "acquire"
    <3> TAKE q \in Callers \ {r}
    <3> HAVE req[q].pc = "waiting"
    <3>1. req[q] \in Request /\ req[q].token \in Tokens /\ CourseOf(q)
      BY <1>0 DEF Calm, RegistryInv, TypeInv, TypeOK, Holding
    <3>2. req[q].token = t /\ req[q].round = 0
      BY <2>5, <3>1 DEF CourseOf, Settled
    <3> QED
      BY <2>4, <3>1, <3>2, RoundToSpare
  <2>7. \A q \in Callers \ {r} : req[q].pc # "waiting" => req'[q] = req[q]
    BY <2>4
  <2>8. ASSUME NEW q \in Callers PROVE CourseOf(q)'
    <3>1. CASE q = r
      <4>1. r \in fresh'
        BY <2>2, <2>3 DEF UnderWay, Ended
      <4> QED
        BY <2>2, <2>3, <2>4, <3>1, <4>1 DEF CourseOf, Settled
    <3>2. CASE q # r /\ req[q].pc = "waiting"
      <4>1. q \in fresh' /\ req'[q].pc = "acquire"
        BY <2>3, <2>6, <3>2 DEF UnderWay, Ended
      <4> QED
        BY <2>3, <4>1 DEF CourseOf, Settled, NotOld
    <3>3. CASE q # r /\ req[q].pc # "waiting"
      <4>1. req'[q] = req[q] /\ CourseOf(q) /\ (req[q].pc \in Holding => req[q].token \in Tokens)
        BY <2>7, <3>3 DEF Calm, RegistryInv, TypeInv, TypeOK
      <4>2. req[q].pc \notin {"idle"} \cup Ended => q \in fresh'
        BY <2>3 DEF UnderWay
      <4>3. CASE req[q].pc \in {"acquire", "elect"}
        BY <2>5, <4>1, <4>2, <4>3 DEF CourseOf, Settled, NotOld, Ended
      <4>4. CASE req[q].pc = "await"
        <5>1. req[q].token = t /\ req[q].round = 0
          BY <2>5, <4>1, <4>4 DEF CourseOf, Settled, Holding
        <5> QED
          BY <2>3, <4>1, <4>2, <4>4, <5>1 DEF CourseOf, Settled, Ended
      <4>5. CASE req[q].pc \in {"send", "inflight"}
        <5>1. /\ req[q].attempt = 0 /\ proc[req[q].token] \in {"up", "closing", "dead"}
              /\ req[q].token \in Tokens
          BY <2>5, <4>1, <4>5 DEF CourseOf, Settled, Holding
        <5> QED
          BY <2>3, <4>1, <4>2, <4>5, <5>1 DEF CourseOf, Settled, Ended
      <4>6. CASE req[q].pc \notin {"acquire", "elect", "await", "send", "inflight"}
        BY <3>3, <4>1, <4>6 DEF CourseOf
      <4> QED
        BY <4>3, <4>4, <4>5, <4>6
    <3> QED
      BY <3>1, <3>2, <3>3
  <2>9. /\ \A q \in Callers : req'[q].pc \notin {"abandon", "kill", "degraded"}
        /\ \A q \in fresh' : req'[q].pc # "idle"
    BY <1>0, <2>3, <2>4, <2>6, <2>7 DEF SpawnsCalm, UnderWay
  <2>10. /\ \A q \in Callers : req'[q].pc = "handshake" => proc'[req'[q].token] \in {"booting", "up"}
         /\ \A q \in Callers : req'[q].pc = "publish" => proc'[req'[q].token] = "up"
    BY <1>0, <2>3, <2>4, <2>6, <2>7 DEF SpawnsCalm
  <2>11. SpawnsCalm'
    BY <1>0, <2>2, <2>3, <2>5, <2>9, <2>10 DEF SpawnsCalm
  <2> QED
    BY <2>8, <2>11 DEF Calm
<1>10. CASE HandshakeFails(r) \/ abandon_spawn(r) \/ kill_and_wait(r)
  BY <1>0, <1>10 DEF HandshakeFails, abandon_spawn, kill_and_wait, SpawnsCalm
<1>11. CASE LaunchFails(r) \/ Drop(r)
  BY <1>11 DEF LaunchFails, Drop, Fault
<1> QED
  BY <1>1, <1>2, <1>3, <1>4, <1>5, <1>6, <1>7, <1>8, <1>9, <1>10, <1>11 DEF CallerStep

\* The other steps that are no fault: a worker boots or goes idle, its entry is
\* reaped.  An idle worker has no settled request left.
LEMMA EnvironmentCalm ==
  ASSUME RetriesSuffice, RegistryInv, Calm, faults' = 0, faults = 0,
         \/ \E t \in Tokens :
               \/ Boot(t) \/ Wedge(t) \/ Crash(t) \/ IdleClose(t) \/ IdleExit(t)
               \/ ReapOrphan(t) \/ ReapSlow(t) \/ KillChild(t) \/ DropKill(t)
         \/ ReapReady \/ Kill
  PROVE  Calm'
<1>0. /\ proc \in [Tokens -> ProcStates] /\ entry \in Entries /\ SpawnsCalm
      /\ \A q \in Callers : req[q].pc \in Holding => req[q].token \in Tokens
      /\ \A q \in Callers : CourseOf(q)
  BY DEF RegistryInv, TypeInv, TypeOK, Calm
<1>1. ASSUME NEW t \in Tokens, NEW v \in {"up", "closing", "dead"},
             proc' = [proc EXCEPT ![t] = v],
             UNCHANGED <<entry, req, fresh, detached, killing>>,
             v = "up" => proc[t] = "booting",
             v # "up" => ~Driven(t),
             v = "closing" => proc[t] = "up",
             entry = Ready(t) /\ v # "up" => fresh \cap UnderWay = {},
             Alive(t)
      PROVE  Calm'
  <2>1. proc'[t] = v /\ \A u \in Tokens \ {t} : proc'[u] = proc[u]
    BY <1>0, <1>1
  <2>2. \A u \in Tokens : Alive(u)' => Alive(u)
    BY <1>1, <2>1 DEF Alive
  <2>3. ASSUME NEW q \in Callers PROVE CourseOf(q)'
    <3>1. NotOld(q) => NotOld(q)'
      BY <1>1, <2>2 DEF NotOld
    <3> QED
      BY <1>0, <1>1, <2>1, <2>2, <3>1 DEF CourseOf, Settled, Holding
  <2>4. \A q \in Callers : req[q].pc \in {"handshake", "publish"} =>
           req[q].token \in Tokens /\ Driven(req[q].token)
    BY <1>0 DEF Holding, Driving, Driven, Drives
  <2>5. /\ \A q \in Callers : req'[q].pc = "handshake" => proc'[req'[q].token] \in {"booting", "up"}
        /\ \A q \in Callers : req'[q].pc = "publish" => proc'[req'[q].token] = "up"
    BY <1>0, <1>1, <2>1, <2>4 DEF SpawnsCalm
  <2>6. /\ \A u \in Tokens : entry' = Ready(u) => proc'[u] \in {"up", "closing", "dead"}
        /\ \A q \in fresh' \cap UnderWay', u \in Tokens : entry' = Ready(u) => proc'[u] = "up"
    BY <1>0, <1>1, <2>1 DEF SpawnsCalm, UnderWay
  <2>7. \A u \in Tokens : Driven(u)' <=> Driven(u)
    BY <1>1 DEF Driven, Drives
  <2>8. SpawnsCalm'
    BY <1>0, <1>1, <2>5, <2>6, <2>7 DEF SpawnsCalm
  <2> QED
    BY <2>3, <2>8 DEF Calm
<1>2. ASSUME NEW t \in Tokens, Boot(t) PROVE Calm'
  <2>1. entry # Ready(t)
    BY <1>0, <1>2 DEF Boot, SpawnsCalm
  <2>2. CASE Driven(t)
    BY <1>1, <1>2, <2>1, <2>2 DEF Boot, Alive
  <2>3. CASE ~Driven(t)
    BY <1>1, <1>2, <2>1, <2>3 DEF Boot, Alive
  <2> QED
    BY <2>2, <2>3
<1>3. ASSUME NEW t \in Tokens, IdleClose(t) PROVE Calm'
  BY <1>1, <1>3 DEF IdleClose, Alive
<1>4. ASSUME NEW t \in Tokens, IdleExit(t) PROVE Calm'
  <2>1. ~Driven(t)
    <3> SUFFICES ASSUME NEW q \in Callers, Drives(q, t) PROVE FALSE
      BY DEF Driven
    <3>1. proc[t] = "closing" /\ req[q].pc \in {"launch", "handshake", "publish"}
      BY <1>0, <1>4 DEF IdleExit, Drives, Driving, SpawnsCalm
    <3> QED
      BY <1>0, <3>1 DEF Drives, SpawnsCalm, RegistryInv, OwnerInv, SpawnPhase
  <2>2. entry = Ready(t) => fresh \cap UnderWay = {}
    BY <1>0, <1>4 DEF IdleExit, SpawnsCalm
  <2> QED
    BY <1>1, <1>4, <2>1, <2>2 DEF IdleExit, Alive
<1>5. CASE ReapReady
  <2>1. PICK t \in Tokens : entry = Ready(t) /\ ~Alive(t)
    BY <1>0, <1>5, EntryToken DEF ReapReady, Absent
  <2>2. entry' = Absent /\ UNCHANGED <<proc, req, fresh, detached, killing>>
    BY <1>5 DEF ReapReady
  <2>3. /\ \A u \in Tokens : entry' # Ready(u) /\ entry' # Spawning(u) /\ entry # Spawning(u)
        /\ \A u \in Tokens : entry = Ready(u) => u = t
    BY <2>1, <2>2 DEF Absent, Ready, Spawning
  <2>4. \A q \in Callers, u \in Tokens :
           req[q].pc \notin {"idle"} \cup Ended => ~Settled(q, u)
    BY <1>0, <2>1, <2>3, SettledUp DEF Settled, Alive
  <2>5. ASSUME NEW q \in Callers PROVE CourseOf(q)'
    <3>1. req[q].pc \notin {"await", "waiting"}
      BY <1>0, <2>3, <2>4 DEF CourseOf, Holding, Ended
    <3>2. req[q].pc \in {"acquire", "elect"} => req[q].round = 0
      BY <1>0, <2>4 DEF CourseOf, Ended
    <3>3. req[q].pc \in {"send", "inflight"} =>
            proc[req[q].token] \in {"up", "closing", "dead"} /\ req[q].attempt = 0
      BY <1>0, <2>4 DEF CourseOf, Ended, Holding
    <3> QED
      BY <1>0, <2>2, <2>3, <3>1, <3>2, <3>3 DEF CourseOf, NotOld
  <2>6. SpawnsCalm'
    BY <1>0, <2>2, <2>3 DEF SpawnsCalm
  <2> QED
    BY <2>5, <2>6 DEF Calm
<1>6. ASSUME NEW t \in Tokens, ReapOrphan(t) \/ KillChild(t) PROVE Calm'
  BY <1>0, <1>6 DEF ReapOrphan, Orphaned, ReapSpawning, KillChild, SpawnsCalm
<1>7. ASSUME NEW t \in Tokens, Wedge(t) \/ Crash(t) \/ ReapSlow(t) \/ DropKill(t) PROVE Calm'
  BY <1>7 DEF Wedge, Crash, ReapSlow, DropKill, Fault
<1>8. CASE Kill
  BY <1>8 DEF Kill, Fault
<1> QED
  BY <1>2, <1>3, <1>4, <1>5, <1>6, <1>7, <1>8

\* An idle exit is invisible: with one retry after a lost worker and two rounds of
\* obtain_worker, no request is degraded as long as nothing fails, however the
\* requests interleave with workers that close and come up again.
THEOREM IdleExitsInvisible == Spec => [](RetriesSuffice => IdleExitInvisible)
<1>1. Init => CalmInv
  BY DEF Init, CalmInv, Calm, SpawnsCalm, CourseOf, NewCaller, UnderWay, Absent,
         Spawning, Ready
<1>2. RegistryInv /\ CalmInv /\ [Next]_vars => CalmInv'
  <2> SUFFICES ASSUME RegistryInv, CalmInv, [Next]_vars, RetriesSuffice, faults' = 0
               PROVE  Calm'
    BY DEF CalmInv, RetriesSuffice
  <2>1. faults' = faults \/ faults' = faults + 1
    BY DEF Next, vars, CallerStep, Start, LaunchFails, Drop, AcquireFast, Elect,
       FindOther, Subscribe, WaitTimeout, HandshakeOk, HandshakeFails, Launch,
       publish_ready, abandon_spawn, kill_and_wait, Arrive, Respond, WorkerLost, Boot,
       Wedge, Crash, IdleClose, IdleExit, ReapOrphan, ReapSlow, ReapSpawning, KillChild,
       DropKill, ReapReady, Kill, Fault
  <2>2. faults = 0
    BY <2>1, RegistryAssumption DEF RegistryInv, TypeInv, TypeOK
  <2>3. Calm
    BY <2>2 DEF CalmInv
  <2>4. CASE UNCHANGED vars
    <3>1. UNCHANGED <<entry, proc, req, fresh, detached, killing>>
      BY <2>4 DEF vars
    <3> QED
      BY <2>3, <3>1 DEF Calm, SpawnsCalm, CourseOf, Settled, NotOld, Alive, Driven,
         Drives, UnderWay
  <2>5. CASE Next
    BY <2>2, <2>3, <2>5, RequestCalm, EnvironmentCalm DEF Next
  <2> QED
    BY <2>4, <2>5
<1>3. CalmInv => (RetriesSuffice => IdleExitInvisible)
  BY DEF CalmInv, Calm, SpawnsCalm, IdleExitInvisible
<1> QED
  BY <1>1, <1>2, <1>3, RegistryInvariant, PTL DEF Spec

-----------------------------------------------------------------------------
(* QueryEngine: the elements at some positions                             *)

\* Each position has a rank of its own, and each rank is that of a position.
LEMMA Ranks ==
    ASSUME NEW I \in SUBSET Nat, IsFiniteSet(I)
    PROVE  /\ \A i \in I : Cardinality({j \in I : j < i}) + 1 \in 1 .. Cardinality(I)
           /\ \A x, y \in I :
                Cardinality({j \in I : j < x}) + 1 = Cardinality({j \in I : j < y}) + 1 => x = y
           /\ \A k \in 1 .. Cardinality(I) :
                \E i \in I : Cardinality({j \in I : j < i}) + 1 = k
<1> DEFINE n == Cardinality(I)
           below(x) == {y \in I : y < x}
           rank == [x \in I |-> Cardinality(below(x)) + 1]
<1>1. n \in Nat /\ IsFiniteSet(1 .. n) /\ Cardinality(1 .. n) = n
  BY FS_CardinalityType, FS_Interval
<1>2. ASSUME NEW x \in I
      PROVE  IsFiniteSet(below(x)) /\ Cardinality(below(x)) \in Nat /\ rank[x] \in 1 .. n
  <2>1. below(x) \in SUBSET (I \ {x})
    OBVIOUS
  <2>2. IsFiniteSet(I \ {x}) /\ Cardinality(I \ {x}) = n - 1
    BY FS_RemoveElement
  <2>3. IsFiniteSet(below(x)) /\ Cardinality(below(x)) <= n - 1
    BY <2>1, <2>2, FS_Subset
  <2>4. Cardinality(below(x)) \in Nat
    BY <2>3, FS_CardinalityType
  <2> HIDE DEF below
  <2> QED
    BY <1>1, <2>3, <2>4
<1>3. ASSUME NEW x \in I, NEW y \in I, x < y PROVE rank[x] # rank[y]
  <2>0. x \in Nat /\ y \in Nat /\ \A z \in I : z \in Nat /\ (z < x => z < y) /\ ~(x < x)
    BY <1>3
  <2>1. below(x) \in SUBSET below(y) /\ x \in below(y) /\ x \notin below(x)
    BY <1>3, <2>0, Zenon
  <2> DEFINE lower == below(x)
             upper == below(y)
  <2>2. IsFiniteSet(upper) /\ lower \in SUBSET upper /\ x \in upper /\ x \notin lower
    BY <1>2, <2>1
  <2>3. Cardinality(lower) \in Nat /\ Cardinality(upper) \in Nat
    BY <1>2
  <2>4. rank[x] = Cardinality(lower) + 1 /\ rank[y] = Cardinality(upper) + 1
    OBVIOUS
  <2> HIDE DEF lower, upper
  <2>5. Cardinality(lower) # Cardinality(upper)
    BY <2>2, FS_Subset
  <2> QED
    BY <2>3, <2>4, <2>5
<1>4. rank \in [I -> 1 .. n]
  BY <1>2
<1>5. \A x \in I : rank[x] = Cardinality({j \in I : j < x}) + 1
  OBVIOUS
<1> HIDE DEF rank, n
<1>6. \A x, y \in I : rank[x] = rank[y] => x = y
  <2>1. ASSUME NEW x \in I, NEW y \in I, rank[x] = rank[y] PROVE x = y
    <3>1. ~(x < y) /\ ~(y < x)
      BY <1>3, <2>1
    <3>2. x \in Nat /\ y \in Nat
      OBVIOUS
    <3> QED
      BY <3>1, <3>2
  <2> QED
    BY <2>1
<1>7. rank \in Surjection(I, 1 .. n)
  <2>1. rank \in Injection(I, 1 .. n)
    BY <1>4, <1>6 DEF Injection, IsInjective
  <2> QED
    BY <1>1, <2>1, FS_Injection DEF n
<1>8. \A k \in 1 .. n : \E i \in I : rank[i] = k
  BY <1>7 DEF Surjection
<1>9. \A x \in I : rank[x] \in 1 .. n
  BY <1>4
<1> QED
  BY <1>5, <1>6, <1>8, <1>9 DEF n

LEMMA PositionAt ==
    ASSUME NEW I \in SUBSET Nat, IsFiniteSet(I), NEW k \in 1 .. Cardinality(I)
    PROVE  \E i \in I : Cardinality({j \in I : j < i}) + 1 = k
BY Ranks

\* What Picked returns: one element for each position, all of them at the positions.
LEMMA PickedIs ==
    ASSUME NEW s, NEW N \in Nat, DOMAIN s = 1 .. N, NEW I \in SUBSET DOMAIN s
    PROVE  /\ Cardinality(I) \in Nat /\ IsFiniteSet(I)
           /\ DOMAIN Picked(s, I) = 1 .. Cardinality(I)
           /\ Picked(s, I) = [k \in 1 .. Cardinality(I) |-> Picked(s, I)[k]]
           /\ \A k \in DOMAIN Picked(s, I) : \E i \in I : Picked(s, I)[k] = s[i]
<1>1. IsFiniteSet(I) /\ Cardinality(I) \in Nat /\ I \in SUBSET Nat
  <2>1. IsFiniteSet(1 .. N) /\ I \in SUBSET (1 .. N)
    BY FS_Interval
  <2> QED
    BY <2>1, FS_Subset, FS_CardinalityType
<1> DEFINE at(k) == CHOOSE i \in I : Cardinality({j \in I : j < i}) + 1 = k
<1>2. \A k \in 1 .. Cardinality(I) : at(k) \in I
  <2>1. ASSUME NEW k \in 1 .. Cardinality(I)
        PROVE  \E i \in I : Cardinality({j \in I : j < i}) + 1 = k
    BY <1>1, PositionAt
  <2> QED
    BY <2>1
<1>3. Picked(s, I) = [k \in 1 .. Cardinality(I) |-> s[at(k)]]
  BY DEF Picked
<1> HIDE DEF at
<1> QED
  BY <1>1, <1>2, <1>3

\* The same for a sequence whose elements are of a set.
LEMMA PickedSeq ==
    ASSUME NEW S, NEW s \in Seq(S), NEW I \in SUBSET DOMAIN s
    PROVE  /\ Picked(s, I) \in Seq(S)
           /\ Cardinality(I) \in Nat /\ Len(Picked(s, I)) = Cardinality(I)
           /\ Picked(s, I) = <<>> <=> I = {}
           /\ \A k \in DOMAIN Picked(s, I) : \E i \in I : Picked(s, I)[k] = s[i]
<1> DEFINE p == Picked(s, I)
           n == Cardinality(I)
<1>1. DOMAIN s = 1 .. Len(s) /\ Len(s) \in Nat /\ \A i \in DOMAIN s : s[i] \in S
  OBVIOUS
<1>2. /\ n \in Nat /\ IsFiniteSet(I) /\ DOMAIN p = 1 .. n /\ p = [k \in 1 .. n |-> p[k]]
      /\ \A k \in DOMAIN p : \E i \in I : p[k] = s[i]
  BY <1>1, PickedIs
<1>3. n = 0 <=> I = {}
  BY <1>2, FS_EmptySet
<1> HIDE DEF p, n
<1>4. \A k \in 1 .. n : p[k] \in S
  BY <1>1, <1>2
<1>5. p \in Seq(S) /\ Len(p) = n
  BY <1>2, <1>4
<1>6. p = <<>> <=> n = 0
  BY <1>2, <1>5
<1> QED
  BY <1>2, <1>3, <1>5, <1>6 DEF p, n

-----------------------------------------------------------------------------
(* QueryEngine: the course of a query                                      *)

RequestScopes == Scopes \cup {"none"}
Hits == QChunks \X {"row", "disk", "call"}
Retried == fell \/ qpass = 2
Found == {"expand", "read", "rerank"}

QueryTypes ==
    /\ row \subseteq QChunks /\ shard \subseteq QChunks
    /\ request.scope \in RequestScopes
    /\ qstep \in {"embed", "search", "hydrate", "answered"} \cup Found
    /\ qpass \in {1, 2} /\ fell \in BOOLEAN /\ warming \in BOOLEAN /\ dropped \in Nat
    /\ cands \in Seq(QChunks) /\ base \in Seq(Hits) /\ merged \in Seq(Hits)
    /\ qstep = "expand" => base # <<>>
    /\ qstep \in {"read", "rerank"} => merged # <<>>

\* The class scanned follows from the request and the fallbacks taken; the answer
\* kept for the retry is an empty one of the requested class.
Course ==
    /\ qscope = IF Retried THEN opposite(request.scope) ELSE request.scope
    /\ request.scope = "none" => ~Retried
    /\ qpass = 2 => ~fell /\ first.results = <<>> /\ first.scope = request.scope
                       /\ ~first.fallback

\* The scans so far.
Scanned ==
    /\ qstep \in {"embed", "search"} =>
          scans = IF Retried THEN <<request.scope>> ELSE <<>>
    /\ qstep \in {"hydrate"} \cup Found =>
          scans = IF Retried THEN <<request.scope, opposite(request.scope)>>
                  ELSE <<request.scope>>
    /\ qstep = "answered" =>
          scans \in {<<>>, <<request.scope>>, <<request.scope, opposite(request.scope)>>}

\* A candidate that was lost marks the answer, or is of the class of the retry.
Losses ==
    /\ qpass = 1 /\ lost # {} =>
          /\ qstep \notin {"embed", "search"}
          /\ qstep = "hydrate" => dropped > 0
          /\ qstep \in Found => warming
    /\ qpass = 2 => \A c \in lost : Class(c) = qscope
    /\ qstep = "hydrate" => \A k \in DOMAIN cands : InScope(cands[k])

QueryInv == QueryTypes /\ Course /\ Scanned /\ Losses /\ EmptyIsVerdict

\* What a pass may end with.
Outcome(r) ==
    /\ r \in [results : {r.results}, scope : RequestScopes, fallback : BOOLEAN,
              warming : BOOLEAN, rejected : BOOLEAN, graph_pending : {r.graph_pending}]
    /\ r.rejected => r.results = <<>> /\ r.scope = qscope /\ r.fallback = fell
    /\ qpass = 1 =>
          /\ r.fallback => fell
          /\ r.scope = IF r.fallback THEN opposite(request.scope) ELSE request.scope
          /\ ~r.warming => lost = {}
          /\ r.results = <<>> /\ ~r.warming /\ request.scope # "none" =>
                fell \/ RetryDue(r)

LEMMA ClassFacts ==
  /\ \A c : Class(c) \in Scopes
  /\ \A s \in Scopes : opposite(s) \in Scopes /\ opposite(s) # s /\ s # "none"
BY DEF Class, opposite, Scopes

\* The end of a pass: an answer, or the retry.
LEMMA PassEndsWith ==
  ASSUME QueryInv, NEW r, Outcome(r), PassEnds(r), qstep \in {"hydrate", "rerank"},
         UNCHANGED <<row, shard, cands, base, dropped, warming, merged, request, scans, lost>>
  PROVE  QueryInv'
<1> USE DEF RequestScopes, Retried, Found
<1>1. CASE RetryDue(r) /\ first' = r /\ qpass' = 2 /\ qscope' = opposite(r.scope)
           /\ fell' = FALSE /\ qstep' = "embed" /\ UNCHANGED qanswer
  <2>1. /\ qpass = 1 /\ ~r.fallback /\ ~r.warming /\ r.rejected /\ r.scope # "none"
        /\ r.results = <<>> /\ r.scope = request.scope /\ ~fell /\ lost = {}
    BY <1>1 DEF RetryDue, Outcome
  <2>2. QueryTypes'
    BY <1>1 DEF QueryInv, QueryTypes
  <2>3. Course'
    BY <1>1, <2>1 DEF Course
  <2>4. Scanned'
    BY <1>1, <2>1 DEF QueryInv, Scanned
  <2>5. Losses' /\ EmptyIsVerdict'
    BY <1>1, <2>1 DEF QueryInv, Losses, EmptyIsVerdict, Answered
  <2> QED
    BY <2>2, <2>3, <2>4, <2>5 DEF QueryInv
<1>2. CASE qpass = 1 /\ ~RetryDue(r) /\ Answer(r) /\ UNCHANGED <<first, qpass, qscope, fell>>
  <2>1. QueryTypes'
    BY <1>2 DEF QueryInv, QueryTypes, Answer
  <2>2. Course'
    BY <1>2 DEF QueryInv, Course
  <2>3. Scanned'
    BY <1>2 DEF QueryInv, Scanned, Answer
  <2>4. Losses'
    BY <1>2 DEF QueryInv, Losses, Answer
  <2>5. EmptyIsVerdict'
    BY <1>2 DEF QueryInv, EmptyIsVerdict, Answer, Outcome, Scanned
  <2> QED
    BY <2>1, <2>2, <2>3, <2>4, <2>5 DEF QueryInv
<1>3. CASE /\ qpass = 2 /\ UNCHANGED <<first, qpass, qscope, fell>>
           /\ Answer(IF r.results = <<>> THEN first
                     ELSE [r EXCEPT !.scope = qscope, !.fallback = TRUE])
  <2>1. QueryTypes'
    BY <1>3 DEF QueryInv, QueryTypes, Answer
  <2>2. Course'
    BY <1>3 DEF QueryInv, Course
  <2>3. Scanned'
    BY <1>3 DEF QueryInv, Scanned, Answer
  <2>4. Losses'
    BY <1>3 DEF QueryInv, Losses, Answer
  <2>5. EmptyIsVerdict'
    <3>1. CASE r.results = <<>>
      <4>1. qanswer' = first /\ first.scope = request.scope /\ request.scope \in Scopes
        BY <1>3, <3>1 DEF Answer, QueryInv, Course, QueryTypes
      <4>2. \A c \in lost : Class(c) # request.scope
        BY <1>3, <4>1, ClassFacts DEF QueryInv, Losses, Course
      <4> QED
        BY <1>3, <4>1, <4>2 DEF EmptyIsVerdict
    <3>2. CASE r.results # <<>>
      <4>1. qanswer'.results # <<>>
        BY <1>3, <3>2 DEF Answer, Outcome
      <4> QED
        BY <4>1 DEF EmptyIsVerdict
    <3> QED
      BY <3>1, <3>2
  <2> QED
    BY <2>1, <2>2, <2>3, <2>4, <2>5 DEF QueryInv
<1> QED
  BY <1>1, <1>2, <1>3 DEF PassEnds

\* A part of a sequence from its beginning.
LEMMA FrontOf ==
  ASSUME NEW S, NEW s \in Seq(S), NEW m \in Nat, m <= Len(s)
  PROVE  /\ SubSeq(s, 1, m) \in Seq(S) /\ Len(SubSeq(s, 1, m)) = m
         /\ \A k \in DOMAIN SubSeq(s, 1, m) : k \in DOMAIN s /\ SubSeq(s, 1, m)[k] = s[k]
OBVIOUS

LEMMA TopHitsAre ==
  /\ TopHits \in Seq(QChunks)
  /\ \A k \in DOMAIN TopHits : InScope(TopHits[k]) /\ TopHits[k] \in shard
<1> DEFINE at == {i \in DOMAIN Ranking : Ranking[i] \in shard /\ InScope(Ranking[i])}
           hits == Picked(Ranking, at)
           m == IF Len(hits) > 2 * top_k THEN 2 * top_k ELSE Len(hits)
<1>1. /\ hits \in Seq(QChunks) /\ Len(hits) \in Nat
      /\ \A k \in DOMAIN hits : \E i \in at : hits[k] = Ranking[i]
  <2>1. Ranking \in Seq(QChunks) /\ at \in SUBSET DOMAIN Ranking
    BY QueryConstants
  <2> HIDE DEF at
  <2>2. /\ hits \in Seq(QChunks) /\ Len(hits) = Cardinality(at) /\ Cardinality(at) \in Nat
        /\ \A k \in DOMAIN hits : \E i \in at : hits[k] = Ranking[i]
    BY <2>1, PickedSeq
  <2> QED
    BY <2>2
<1>2. m \in Nat /\ m <= Len(hits)
  BY <1>1, QueryConstants
<1>3. TopHits = SubSeq(hits, 1, m)
  BY DEF TopHits
<1>4. \A k \in DOMAIN hits : InScope(hits[k]) /\ hits[k] \in shard
  BY <1>1
<1> HIDE DEF hits, m
<1> QED
  BY <1>1, <1>2, <1>3, <1>4, FrontOf

\* The steps that leave the answer alone.
LEMMA QuietSteps ==
  ASSUME QueryInv,
         World \/ embed_query \/ EmbedFails \/ vector_search \/ hydrate_candidates
         \/ GatherFallsBack \/ read_lines_from_fs \/ fetch_caller_stats_batch \/ UNCHANGED qvars
  PROVE  QueryInv'
<1> USE DEF QueryInv, RequestScopes, Retried, Found
<1>1. CASE World
  <2>1. UNCHANGED <<passvars, request, qstep, qpass, first, scans, lost, qanswer>>
        /\ row' \subseteq QChunks /\ shard' \subseteq QChunks
    BY <1>1 DEF World, QueryTypes
  <2> QED
    BY <2>1 DEF passvars, QueryTypes, Course, Scanned, Losses, InScope, EmptyIsVerdict, Answered
<1>2. CASE embed_query
  BY <1>2 DEF embed_query, worldvars, passvars, QueryTypes, Course, Scanned, Losses,
              EmptyIsVerdict, Answered
<1>3. CASE EmbedFails
  <2>1. /\ UNCHANGED <<worldvars, passvars, request, qpass, first, scans, lost>>
        /\ qstep = "embed" /\ qstep' = "answered"
        /\ qanswer' = IF qpass = 2 THEN first ELSE [NoResult EXCEPT !.scope = "error"]
    BY <1>3 DEF EmbedFails, Answer
  <2>2. QueryTypes' /\ Course' /\ Scanned' /\ Losses'
    BY <2>1 DEF worldvars, passvars, QueryTypes, Course, Scanned, Losses
  <2>3. EmptyIsVerdict'
    <3>1. CASE qpass = 2
      <4>1. qanswer' = first /\ first.scope = request.scope /\ request.scope \in Scopes
        BY <2>1, <3>1 DEF Course, QueryTypes
      <4>2. \A c \in lost : Class(c) # request.scope
        BY <3>1, <4>1, ClassFacts DEF Losses, Course
      <4> QED
        BY <2>1, <3>1, <4>1, <4>2 DEF EmptyIsVerdict
    <3>2. CASE qpass # 2
      <4>1. qanswer'.scope = "error"
        BY <2>1, <3>2 DEF NoResult
      <4> QED
        BY <4>1 DEF EmptyIsVerdict, Answered
    <3> QED
      BY <3>1, <3>2
  <2> QED
    BY <2>2, <2>3
<1>4. CASE vector_search
  <2>1. /\ UNCHANGED <<row, shard, qscope, fell, merged, request, qpass, first, lost, qanswer>>
        /\ qstep = "search" /\ qstep' = "hydrate" /\ scans' = Append(scans, qscope)
        /\ warming' \in BOOLEAN /\ base' = <<>> /\ dropped' = 0
        /\ cands' \in Seq(QChunks) /\ \A k \in DOMAIN cands' : InScope(cands'[k])
    <3>1. /\ UNCHANGED <<row, shard, qscope, fell, merged, request, qpass, first, lost, qanswer>>
          /\ qstep = "search" /\ qstep' = "hydrate" /\ scans' = Append(scans, qscope)
          /\ base' = <<>> /\ dropped' = 0
          /\ \/ cands' = TopHits /\ warming' = FALSE
             \/ cands' = <<>> /\ warming' = TRUE
      BY <1>4 DEF vector_search
    <3>2. CASE cands' = <<>> /\ warming' = TRUE
      BY <3>1, <3>2
    <3>3. CASE cands' = TopHits /\ warming' = FALSE
      <4>1. \A k \in DOMAIN cands' : InScope(cands'[k])
        BY <3>3, TopHitsAre
      <4> QED
        BY <3>1, <3>3, <4>1, TopHitsAre
    <3> QED
      BY <3>1, <3>2, <3>3
  <2>2. QueryTypes' /\ Course'
    BY <2>1 DEF QueryTypes, Course
  <2>3. Scanned'
    BY SMTT(60), <2>1 DEF Scanned, Course
  <2>4. Losses' /\ EmptyIsVerdict'
    BY <2>1 DEF Losses, InScope, EmptyIsVerdict, Answered
  <2> QED
    BY <2>2, <2>3, <2>4
<1>5. CASE hydrate_candidates
  <2> DEFINE c == Head(cands)
  <2>1. /\ qstep = "hydrate" /\ cands # <<>> /\ cands' = Tail(cands)
        /\ ContentOf(c) = "" => base' = base /\ dropped' = dropped + 1 /\ lost' = lost \cup {c}
        /\ ContentOf(c) # "" => /\ base' = Append(base, <<c, ContentOf(c)>>)
                                /\ dropped' = dropped + 0 /\ lost' = lost
        /\ UNCHANGED <<row, shard, qscope, fell, warming, merged, request, qstep, qpass, first,
                       scans, qanswer>>
    BY <1>5 DEF hydrate_candidates, worldvars
  <2>2. c \in QChunks /\ c = cands[1] /\ 1 \in DOMAIN cands /\ cands' \in Seq(QChunks)
        /\ \A k \in DOMAIN cands' : k + 1 \in DOMAIN cands /\ cands'[k] = cands[k + 1]
    <3>1. cands \in Seq(QChunks) /\ cands # <<>> /\ cands' = Tail(cands)
      BY <2>1 DEF QueryTypes
    <3>2. c = cands[1] /\ 1 \in DOMAIN cands /\ cands[1] \in QChunks
      BY <3>1
    <3>3. cands' \in Seq(QChunks)
      BY <3>1
    <3>4. \A k \in DOMAIN cands' : k + 1 \in DOMAIN cands /\ cands'[k] = cands[k + 1]
      BY <3>1
    <3> QED
      BY <3>2, <3>3, <3>4
  <2>3. ContentOf(c) # "" => <<c, ContentOf(c)>> \in Hits
    BY <2>2 DEF ContentOf, Hits
  <2>4. InScope(c) /\ \A k \in DOMAIN cands' : InScope(cands'[k])
    BY <2>1, <2>2 DEF Losses
  <2> HIDE DEF c
  <2>5. QueryTypes' /\ Course' /\ Scanned'
    <3>0. dropped \in Nat /\ base \in Seq(Hits)
      BY DEF QueryTypes
    <3>1. base' \in Seq(Hits)
      <4>1. CASE ContentOf(c) = ""
        <5>1. base' = base
          BY <2>1, <4>1
        <5> QED BY <5>1, <3>0
      <4>2. CASE ContentOf(c) # ""
        <5>1. base' = Append(base, <<c, ContentOf(c)>>) /\ <<c, ContentOf(c)>> \in Hits
          BY <2>1, <2>3, <4>2
        <5> QED BY <5>1, <3>0
      <4> QED BY <4>1, <4>2
    <3>2. dropped' \in Nat
      <4>1. CASE ContentOf(c) = ""
        <5>1. dropped' = dropped + 1
          BY <2>1, <4>1
        <5> QED BY <5>1, <3>0
      <4>2. CASE ContentOf(c) # ""
        <5>1. dropped' = dropped + 0
          BY <2>1, <4>2
        <5> QED BY <5>1, <3>0
      <4> QED BY <4>1, <4>2
    <3> QED
      BY <2>1, <2>2, <3>1, <3>2 DEF QueryTypes, Course, Scanned
  <2>6. qpass = 2 => qscope # "none"
    BY ClassFacts DEF Course, QueryTypes
  <2>7. Losses'
    <3>1. lost' # {} /\ qpass = 1 => dropped' > 0
      <4>0. dropped \in Nat
        BY DEF QueryTypes
      <4>1. CASE ContentOf(c) = ""
        <5>1. dropped' = dropped + 1
          BY <2>1, <4>1
        <5> QED BY <5>1, <4>0
      <4>2. CASE ContentOf(c) # ""
        <5>1. dropped' = dropped + 0 /\ lost' = lost /\ qpass' = qpass
          BY <2>1, <4>2
        <5>2. lost # {} /\ qpass = 1 => dropped > 0
          BY <2>1 DEF Losses
        <5> QED BY <5>1, <5>2, <4>0
      <4> QED BY <4>1, <4>2
    <3>2. qpass = 2 => \A x \in lost' : Class(x) = qscope
      BY <2>1, <2>4, <2>6 DEF Losses, InScope
    <3>3. (\A k \in DOMAIN cands : InScope(cands[k]))'
      BY <2>1, <2>4 DEF InScope
    <3> QED
      BY <2>1, <3>1, <3>2, <3>3 DEF Losses
  <2>8. EmptyIsVerdict'
    BY <2>1 DEF EmptyIsVerdict, Answered
  <2> QED
    BY <2>5, <2>7, <2>8
<1>6. CASE GatherFallsBack
  <2>1. /\ qstep = "hydrate" /\ qscope # "none" /\ qpass = 1 /\ ~fell /\ ~(dropped > 0)
        /\ qstep' = "search" /\ qscope' = opposite(qscope) /\ fell' = TRUE
        /\ UNCHANGED <<row, shard, cands, base, dropped, warming, merged, request, qpass, first,
                       scans, lost, qanswer>>
    BY <1>6 DEF GatherFallsBack, ScanDone, FallbackDue, GatherWarms, worldvars
  <2>2. lost = {} /\ qscope = request.scope
    BY <2>1 DEF Losses, Course
  <2> QED
    BY <2>1, <2>2 DEF QueryTypes, Course, Scanned, Losses, EmptyIsVerdict, Answered
<1>7. CASE read_lines_from_fs
  BY <1>7 DEF read_lines_from_fs, worldvars, QueryTypes, Course, Scanned, Losses, EmptyIsVerdict,
              Answered
<1>8. CASE fetch_caller_stats_batch
  BY <1>8 DEF fetch_caller_stats_batch, worldvars, QueryTypes, Course, Scanned, Losses,
              EmptyIsVerdict, Answered
<1>9. CASE UNCHANGED qvars
  BY <1>9 DEF qvars, worldvars, passvars, QueryTypes, Course, Scanned, Losses, InScope,
              EmptyIsVerdict, Answered
<1> QED
  BY <1>1, <1>2, <1>3, <1>4, <1>5, <1>6, <1>7, <1>8, <1>9

\* An empty search: a class's verdict, or that of both classes.
Nothing == EmptyAnswer(IF fell THEN opposite(qscope) ELSE qscope, GatherWarms)

LEMMA NothingIs ==
  ASSUME QueryInv, GatherEmpty
  PROVE  PassEnds(Nothing) /\ Outcome(Nothing) /\ Nothing.results = <<>>
<1> USE DEF RequestScopes, Retried, Found
<1> DEFINE sc == IF fell THEN opposite(qscope) ELSE qscope
           r == EmptyAnswer(sc, GatherWarms)
<1>1. /\ qstep = "hydrate" /\ PassEnds(r)
      /\ UNCHANGED <<row, shard, cands, base, dropped, warming, merged, request, scans, lost>>
      /\ qscope = "none" \/ qpass # 1 \/ fell \/ GatherWarms
  BY DEF GatherEmpty, ScanDone, FallbackDue, worldvars
<1>2. r = [results |-> <<>>, scope |-> sc, fallback |-> FALSE, warming |-> GatherWarms,
           rejected |-> FALSE, graph_pending |-> ~request.full]
  BY DEF EmptyAnswer
<1>3. GatherWarms \in BOOLEAN
  BY DEF GatherWarms, QueryInv, QueryTypes
<1>4. sc \in RequestScopes /\ (qpass = 1 => sc = request.scope)
  <2>1. request.scope \in RequestScopes /\ fell \in BOOLEAN /\ qpass \in {1, 2}
    BY DEF QueryInv, QueryTypes
  <2>2. qscope = (IF Retried THEN opposite(request.scope) ELSE request.scope)
        /\ (request.scope = "none" => ~Retried)
    BY DEF QueryInv, Course
  <2> QED
    BY <2>1, <2>2, ClassFacts DEF opposite, Scopes
<1>5. qpass = 1 /\ lost # {} => GatherWarms
  BY <1>1 DEF GatherWarms, QueryInv, Losses
<1>6. qpass = 1 /\ ~GatherWarms /\ request.scope # "none" => fell
  BY <1>1 DEF QueryInv, Course
<1> HIDE DEF r, sc
<1>7. Outcome(r)
  BY <1>2, <1>3, <1>4, <1>5, <1>6 DEF Outcome
<1> QED
  BY <1>1, <1>2, <1>7 DEF Nothing, r, sc

LEMMA GatherEmptyStep ==
  ASSUME QueryInv, GatherEmpty
  PROVE  QueryInv'
BY NothingIs, PassEndsWith DEF GatherEmpty, ScanDone, worldvars

\* Hits that the filters let through are served.
LEMMA GatherServesStep ==
  ASSUME QueryInv, GatherServes
  PROVE  QueryInv'
<1> USE DEF RequestScopes, Retried, Found
<1>1. /\ qstep = "hydrate" /\ base' = apply_query_filters /\ base' # <<>>
      /\ warming' = GatherWarms /\ qstep' = "expand"
      /\ UNCHANGED <<row, shard, qscope, fell, cands, dropped, merged, request, qpass, first,
                     scans, lost, qanswer>>
  BY DEF GatherServes, ScanDone, worldvars
<1>2. base' \in Seq(Hits)
  <2> DEFINE I == {i \in DOMAIN base : base[i][1] \in Narrowed(Base)}
  <2>1. base \in Seq(Hits) /\ I \in SUBSET DOMAIN base /\ base' = Picked(base, I)
    BY <1>1 DEF QueryInv, QueryTypes, apply_query_filters
  <2> HIDE DEF I
  <2> QED
    BY <2>1, PickedSeq
<1>3. warming' \in BOOLEAN /\ (qpass = 1 /\ lost # {} => warming')
  BY <1>1 DEF GatherWarms, QueryInv, QueryTypes, Losses
<1>4. QueryTypes'
  BY <1>1, <1>2, <1>3 DEF QueryInv, QueryTypes
<1>5. Course' /\ Scanned' /\ EmptyIsVerdict'
  BY <1>1 DEF QueryInv, Course, Scanned, EmptyIsVerdict, Answered
<1>6. Losses'
  BY <1>1, <1>3 DEF QueryInv, Losses
<1> QED
  BY <1>4, <1>5, <1>6 DEF QueryInv

\* Expansion and merge: the hits, then what the call graph leads to, cut at top_k.
LEMMA MergedIs ==
  ASSUME base \in Seq(Hits), base # <<>>, graph_expand
  PROVE  /\ merged' \in Seq(Hits) /\ merged' # <<>>
         /\ \A k \in DOMAIN merged' :
              \/ k \in DOMAIN base /\ merged'[k] = base[k]
              \/ merged'[k][2] = "call" /\ request.full
<1>0. PICK found \in Expansions(Base) :
        LET rows == [i \in DOMAIN Ranking |-> <<Ranking[i], "call">>]
            all == base \o Picked(rows, {i \in DOMAIN Ranking : Ranking[i] \in found})
        IN  merged' = SubSeq(all, 1, IF Len(all) > top_k THEN top_k ELSE Len(all))
  BY DEF graph_expand
<1> DEFINE rows == [i \in DOMAIN Ranking |-> <<Ranking[i], "call">>]
           I == {i \in DOMAIN Ranking : Ranking[i] \in found}
           tail == Picked(rows, I)
           all == base \o tail
           m == IF Len(all) > top_k THEN top_k ELSE Len(all)
<1>1. merged' = SubSeq(all, 1, m)
  BY <1>0
<1>1a. found # {} => request.full
  BY DEF Expansions, Reachable
<1>2. /\ rows \in Seq(Hits) /\ I \in SUBSET DOMAIN rows
      /\ \A i \in I : rows[i][2] = "call" /\ request.full
  BY <1>1a, QueryConstants DEF Hits
<1>3. tail \in Seq(Hits) /\ \A k \in DOMAIN tail : tail[k][2] = "call" /\ request.full
  <2> HIDE DEF rows, I
  <2>1. tail \in Seq(Hits) /\ \A k \in DOMAIN tail : \E i \in I : tail[k] = rows[i]
    BY <1>2, PickedSeq
  <2> QED
    BY <1>2, <2>1
<1> HIDE DEF tail
<1>4. /\ all \in Seq(Hits) /\ Len(all) = Len(base) + Len(tail)
      /\ Len(base) \in Nat \ {0} /\ Len(tail) \in Nat
      /\ \A k \in DOMAIN all : \/ k \in DOMAIN base /\ all[k] = base[k]
                               \/ k - Len(base) \in DOMAIN tail /\ all[k] = tail[k - Len(base)]
  BY <1>3
<1>5. \A k \in DOMAIN all : \/ k \in DOMAIN base /\ all[k] = base[k]
                            \/ all[k][2] = "call" /\ request.full
  BY <1>3, <1>4
<1> HIDE DEF all
<1>6. m \in Nat \ {0} /\ m <= Len(all)
  BY <1>4, QueryConstants
<1> HIDE DEF m
<1>7. /\ merged' \in Seq(Hits) /\ Len(merged') = m
      /\ \A k \in DOMAIN merged' : k \in DOMAIN all /\ merged'[k] = all[k]
  BY <1>1, <1>4, <1>6, FrontOf
<1> QED
  BY <1>5, <1>6, <1>7

LEMMA GraphExpandStep ==
  ASSUME QueryInv, graph_expand
  PROVE  QueryInv'
<1> USE DEF RequestScopes, Retried, Found
<1>1. /\ qstep = "expand" /\ qstep' = "read"
      /\ UNCHANGED <<row, shard, qscope, fell, cands, base, dropped, warming, request, qpass,
                     first, scans, lost, qanswer>>
  BY DEF graph_expand, worldvars
<1>2. merged' \in Seq(Hits) /\ merged' # <<>>
  BY <1>1, MergedIs DEF QueryInv, QueryTypes
<1> QED
  BY <1>1, <1>2 DEF QueryInv, QueryTypes, Course, Scanned, Losses, EmptyIsVerdict, Answered

\* The pool a reranker orders: the merged candidates, then chunks of its sub-queries.
LEMMA PoolIs ==
  ASSUME merged \in Seq(Hits), row \subseteq QChunks, NEW p \in Pools
  PROVE  /\ p \in Seq(Hits) /\ DOMAIN merged \subseteq DOMAIN p
         /\ \A k \in DOMAIN merged : p[k] = merged[k]
         /\ \A k \in DOMAIN p : k \in DOMAIN merged \/ p[k] \in SubQuery
<1>1. SubQuery \subseteq Hits
  <2>1. ASSUME NEW set
        PROVE  Reachable(set) \subseteq QChunks
    BY DEF Reachable, Neighbours
  <2> DEFINE hits == Narrowed({c \in row \cap shard : InScope(c)})
  <2>3. hits \subseteq QChunks
    BY DEF Narrowed
  <2>4. SubQuery = {<<c, "row">> : c \in hits} \cup {<<c, "call">> : c \in Reachable(hits)}
    BY DEF SubQuery
  <2> HIDE DEF hits
  <2> QED
    BY <2>1, <2>3, <2>4 DEF Hits
<1>2. CASE p = merged
  BY <1>2
<1>3. CASE \E h \in SubQuery : p = Append(merged, h)
  <2>1. PICK h \in SubQuery : p = Append(merged, h)
    BY <1>3
  <2>3. h \in Hits
    BY <1>1, <2>1
  <2>4. p \in Seq(Hits) /\ Len(merged) \in Nat /\ DOMAIN p = 1 .. Len(merged) + 1
        /\ DOMAIN merged = 1 .. Len(merged)
        /\ (\A k \in DOMAIN merged : p[k] = merged[k]) /\ p[Len(merged) + 1] = h
    BY <2>1, <2>3
  <2> QED
    BY <2>1, <2>4
<1> QED
  BY <1>2, <1>3 DEF Pools

\* What a reranker returns: places of the pool; as many as candidates when it degrades.
LEMMA OrderIs ==
  ASSUME merged \in Seq(Hits), NEW p \in Seq(Hits), DOMAIN merged \subseteq DOMAIN p,
         NEW out \in RerankOutputs(p)
  PROVE  \E n \in Nat : /\ out.order \in [1 .. n -> DOMAIN p] /\ out.skip \in BOOLEAN
                        /\ out.skip => n = Len(merged)
<1>1. DOMAIN p = 1 .. Len(p) /\ Len(p) \in Nat
      /\ DOMAIN merged = 1 .. Len(merged) /\ Len(merged) \in Nat
  OBVIOUS
<1>2. CASE out = Degraded
  <2>1. out.order = InOrder(Len(merged)) /\ out.skip = TRUE
    BY <1>2 DEF Degraded
  <2>2. InOrder(Len(merged)) \in [1 .. Len(merged) -> DOMAIN p]
    BY <1>1 DEF InOrder
  <2> QED
    BY <1>1, <2>1, <2>2
<1>3. CASE out.order \in Orders(Len(p)) /\ out.skip = FALSE
  <2>1. PICK k \in 0 .. Len(p) : out.order \in [1 .. k -> 1 .. Len(p)]
    BY <1>3 DEF Orders
  <2>2. k \in Nat /\ out.order \in [1 .. k -> DOMAIN p]
    BY <1>1, <2>1
  <2> QED
    BY <1>3, <2>2
<1>4. out = Degraded \/ (out.order \in Orders(Len(p)) /\ out.skip = FALSE)
  <2>1. out \in {Degraded} \/ out \in parse_rerank_response(Len(p)) \/ out \in JevOutputs(Len(p))
    BY DEF RerankOutputs
  <2> QED
    BY <2>1 DEF parse_rerank_response, JevOutputs
<1> QED
  BY <1>2, <1>3, <1>4

\* A function on an initial segment is a sequence of its values.
LEMMA SequenceOf ==
  ASSUME NEW n \in Nat, NEW s, s = [k \in 1 .. n |-> s[k]]
  PROVE  s \in Seq({s[k] : k \in 1 .. n}) /\ Len(s) = n /\ DOMAIN s = 1 .. n
<1> DEFINE S == {s[k] : k \in 1 .. n}
<1>1. \A k \in 1 .. n : s[k] \in S
  OBVIOUS
<1> HIDE DEF S
<1>2. s \in Seq(S) /\ Len(s) = n /\ DOMAIN s = 1 .. n
  BY <1>1
<1> QED
  BY <1>2 DEF S

LEMMA EmptyIs ==
  ASSUME NEW S, NEW s \in Seq(S)
  PROVE  s = <<>> <=> Len(s) = 0
OBVIOUS

\* Picking every position.
LEMMA PickedAll ==
  ASSUME NEW S, NEW f \in Seq(S)
  PROVE  /\ Len(Picked(f, DOMAIN f)) = Len(f) /\ (Picked(f, DOMAIN f) = <<>> <=> Len(f) = 0)
         /\ \A k \in DOMAIN Picked(f, DOMAIN f) :
              \E j \in DOMAIN f : Picked(f, DOMAIN f)[k] = f[j]
<1>1. DOMAIN f = 1 .. Len(f) /\ Len(f) \in Nat /\ DOMAIN f \in SUBSET DOMAIN f
  OBVIOUS
<1>2. Cardinality(DOMAIN f) = Len(f)
  <2>1. Cardinality(1 .. Len(f)) = Len(f)
    BY SMTT(60), <1>1, FS_Interval
  <2> QED
    BY <1>1, <2>1
<1>3. DOMAIN f = {} <=> Len(f) = 0
  <2>1. \A m \in Nat : 1 .. m = {} <=> m = 0
    OBVIOUS
  <2> QED
    BY <1>1, <2>1, Zenon
<1> DEFINE I == DOMAIN f
<1>4. I \in SUBSET DOMAIN f
  BY <1>1
<1>5. Cardinality(I) = Len(f) /\ (I = {} <=> Len(f) = 0)
  BY <1>2, <1>3
<1> HIDE DEF I
<1>6. /\ Len(Picked(f, I)) = Cardinality(I) /\ (Picked(f, I) = <<>> <=> I = {})
      /\ \A k \in DOMAIN Picked(f, I) : \E i \in I : Picked(f, I)[k] = f[i]
  BY <1>4, PickedSeq
<1> QED
  BY <1>5, <1>6, Zenon DEF I

\* The statistics at a place.
StatsAt(i) == IF i \in DOMAIN stats THEN stats[i] ELSE "none"

\* Results, none of them empty, each with the chunk and statistics of a place of the pool.
ResultsOf(p, found, n) ==
    /\ found = [k \in 1 .. n |-> found[k]]
    /\ \A k \in 1 .. n :
         /\ found[k].content # ""
         /\ \E i \in DOMAIN p : /\ found[k].chunk = p[i][1] /\ found[k].stats = StatsAt(i)
                             /\ found[k].called = (p[i][2] = "call")

\* What the formatter puts into the results.
LEMMA FormattedIs ==
  ASSUME NEW p \in Seq(Hits), NEW out, NEW n \in Nat, out.order \in [1 .. n -> DOMAIN p]
  PROVE  ResultsOf(p, Formatted(p, out), n)
<1>1. \A i \in DOMAIN p : p[i][2] # ""
  <2>1. \A i \in DOMAIN p : p[i] \in Hits
    OBVIOUS
  <2>2. \A h \in Hits : h[2] # ""
    BY DEF Hits
  <2> QED
    BY <2>1, <2>2
<1> DEFINE order == out.order
           found == Formatted(p, out)
<1>2. order \in [1 .. n -> DOMAIN p]
  OBVIOUS
<1>3. found = [k \in 1 .. n |->
                 [chunk |-> p[order[k]][1], called |-> p[order[k]][2] = "call",
                  stats |-> StatsFor(out, k),
                  content |-> IF order[k] \in DOMAIN numbered /\ numbered[order[k]]
                              THEN "numbered" ELSE p[order[k]][2]]]
  BY <1>2 DEF Formatted
<1>4. \A k : StatsFor(out, k) = StatsAt(order[k])
  BY DEF StatsFor, StatsAt
<1> HIDE DEF order, found
<1>5. ASSUME NEW k \in 1 .. n
      PROVE  /\ found[k].content # ""
             /\ \E i \in DOMAIN p :
                  /\ found[k].chunk = p[i][1] /\ found[k].stats = StatsAt(i)
                  /\ found[k].called = (p[i][2] = "call")
  <2>1. order[k] \in DOMAIN p
    BY <1>2
  <2>2. /\ found[k].chunk = p[order[k]][1] /\ found[k].stats = StatsFor(out, k)
        /\ found[k].called = (p[order[k]][2] = "call")
        /\ found[k].content = IF order[k] \in DOMAIN numbered /\ numbered[order[k]]
                              THEN "numbered" ELSE p[order[k]][2]
    BY <1>3
  <2> QED
    BY <1>1, <1>4, <2>1, <2>2
<1>6. found = [k \in 1 .. n |-> found[k]]
  BY <1>3
<1> QED
  BY <1>5, <1>6, Zenon DEF found, ResultsOf

\* What is handed out: one result for each place returned, none of them empty.
Kept(found) == Picked(found, {k \in DOMAIN found : found[k].content # ""})

LEMMA KeptIs ==
  ASSUME merged \in Seq(Hits), row \subseteq QChunks, NEW p \in Pools,
         NEW out \in RerankOutputs(p)
  PROVE  LET found == Formatted(p, out) IN
         /\ Len(Kept(found)) = Len(found) /\ out.skip \in BOOLEAN
         /\ Kept(found) = <<>> /\ out.skip => merged = <<>>
         /\ \A k \in DOMAIN Kept(found) : \E i \in DOMAIN p :
              /\ Kept(found)[k].chunk = p[i][1] /\ Kept(found)[k].stats = StatsAt(i)
              /\ Kept(found)[k].called = (p[i][2] = "call")
<1> DEFINE found == Formatted(p, out)
<1>1. p \in Seq(Hits) /\ DOMAIN merged \subseteq DOMAIN p
  BY PoolIs
<1>2. PICK n \in Nat : /\ out.order \in [1 .. n -> DOMAIN p] /\ out.skip \in BOOLEAN
                       /\ out.skip => n = Len(merged)
  BY <1>1, OrderIs
<1>3a. ResultsOf(p, found, n)
  BY <1>1, <1>2, FormattedIs
<1>3. /\ found = [k \in 1 .. n |-> found[k]]
      /\ \A k \in 1 .. n :
           /\ found[k].content # ""
           /\ \E i \in DOMAIN p : /\ found[k].chunk = p[i][1] /\ found[k].stats = StatsAt(i)
                               /\ found[k].called = (p[i][2] = "call")
  BY <1>3a, Zenon DEF ResultsOf
<1> HIDE DEF found
<1> DEFINE S == {found[k] : k \in 1 .. n}
<1>4. found \in Seq(S) /\ Len(found) = n /\ DOMAIN found = 1 .. n
  BY <1>3, SequenceOf, Zenon
<1> HIDE DEF S
<1>5. Kept(found) = Picked(found, DOMAIN found)
  <2>1. {k \in DOMAIN found : found[k].content # ""} = DOMAIN found
    BY <1>3, <1>4
  <2> QED
    BY <2>1 DEF Kept
<1> DEFINE kept == Picked(found, DOMAIN found)
<1>6. /\ Len(kept) = Len(found) /\ (kept = <<>> <=> Len(found) = 0)
      /\ \A k \in DOMAIN kept : \E j \in DOMAIN found : kept[k] = found[j]
  BY <1>4, PickedAll
<1>7. Len(merged) = 0 => merged = <<>>
  BY EmptyIs
<1> HIDE DEF kept
<1>8. ASSUME NEW k \in DOMAIN kept
      PROVE  \E i \in DOMAIN p :
              /\ kept[k].chunk = p[i][1] /\ kept[k].stats = StatsAt(i)
              /\ kept[k].called = (p[i][2] = "call")
  <2>1. PICK j \in 1 .. n : kept[k] = found[j]
    BY <1>4, <1>6
  <2> QED
    BY <1>3, <2>1
<1>9. Len(kept) = Len(found) /\ (kept = <<>> /\ out.skip => merged = <<>>)
      /\ out.skip \in BOOLEAN
  BY <1>2, <1>4, <1>6, <1>7
<1>10. Kept(found) = kept
  BY <1>5 DEF kept
<1> QED
  BY <1>8, <1>9, <1>10, Zenon DEF found

\* What a reply makes of the pool.
RerankResult(p, out) ==
    [results |-> Kept(Formatted(p, out)), scope |-> qscope, fallback |-> fell,
     warming |-> warming \/ Len(Kept(Formatted(p, out))) # Len(Formatted(p, out)),
     rejected |-> Kept(Formatted(p, out)) = <<>> /\ ~out.skip,
     graph_pending |-> ~request.full]

LEMMA RerankedIs ==
  ASSUME QueryInv, qstep = "rerank", NEW p \in Pools, NEW out \in RerankOutputs(p)
  PROVE  Outcome(RerankResult(p, out))
<1> USE DEF RequestScopes, Retried, Found
<1>1. merged \in Seq(Hits) /\ merged # <<>> /\ row \subseteq QChunks
  BY DEF QueryInv, QueryTypes
<1> DEFINE found == Formatted(p, out)
           kept == Kept(found)
           r == RerankResult(p, out)
<1>4. Len(kept) = Len(found) /\ out.skip \in BOOLEAN /\ (kept = <<>> => ~out.skip)
  <2>1. Len(kept) = Len(found) /\ out.skip \in BOOLEAN
        /\ (kept = <<>> /\ out.skip => merged = <<>>)
    BY <1>1, KeptIs, Zenon
  <2> HIDE DEF found, kept
  <2> QED
    BY <1>1, <2>1
<1> HIDE DEF found, kept
<1>5. /\ r.results = kept /\ r.scope = qscope /\ r.fallback = fell
      /\ r.warming = warming /\ r.rejected = (kept = <<>>)
  BY <1>4 DEF QueryInv, QueryTypes, RerankResult, found, kept
<1>6. /\ qscope \in RequestScopes /\ fell \in BOOLEAN /\ warming \in BOOLEAN
      /\ qpass = 1 => qscope = IF fell THEN opposite(request.scope) ELSE request.scope
      /\ qpass = 1 /\ request.scope # "none" => qscope # "none"
  <2>1. request.scope \in RequestScopes /\ fell \in BOOLEAN /\ qpass \in {1, 2}
        /\ warming \in BOOLEAN
    BY DEF QueryInv, QueryTypes
  <2>2. qscope = (IF Retried THEN opposite(request.scope) ELSE request.scope)
        /\ (request.scope = "none" => ~Retried)
    BY DEF QueryInv, Course
  <2> QED
    BY <2>1, <2>2, ClassFacts
<1>7. qpass = 1 /\ ~warming => lost = {}
  BY <1>1 DEF QueryInv, Losses
<1>8. r \in [results : {r.results}, scope : RequestScopes, fallback : BOOLEAN,
            warming : BOOLEAN, rejected : BOOLEAN, graph_pending : {r.graph_pending}]
  BY <1>6, <1>4 DEF RerankResult, found, kept
<1> HIDE DEF r
<1> QED
  BY <1>5, <1>6, <1>7, <1>8 DEF Outcome, RetryDue, r

LEMMA RerankEnds ==
  ASSUME rerank
  PROVE  \E p \in Pools : \E out \in RerankOutputs(p) : PassEnds(RerankResult(p, out))
BY DEF rerank, RerankResult, Kept

LEMMA RerankStep ==
  ASSUME QueryInv, rerank
  PROVE  QueryInv'
<1>1. qstep = "rerank"
  BY DEF rerank
<1>2. PICK p \in Pools : \E out \in RerankOutputs(p) : PassEnds(RerankResult(p, out))
  BY RerankEnds
<1>3. PICK out \in RerankOutputs(p) : PassEnds(RerankResult(p, out))
  BY <1>2
<1>4. Outcome(RerankResult(p, out))
  BY <1>1, RerankedIs
<1> QED
  BY <1>1, <1>3, <1>4, PassEndsWith DEF rerank, worldvars

LEMMA QueryInvariant == QSpec => []QueryInv
<1>1. QInit => QueryInv
  <2> SUFFICES ASSUME QInit PROVE QueryInv
    OBVIOUS
  <2>1. request.scope \in RequestScopes
    <3>1. PICK typed \in BoundedSeq(Scopes, 2), external \in Scopes \cup {"none"} :
            request \in [scope : {parse_query(typed, external)}, filter : Filters,
                         full : BOOLEAN, reranker : Reranks]
      BY DEF QInit
    <3>2. request.scope = parse_query(typed, external)
      BY <3>1
    <3>3. typed \in Seq(Scopes)
      <4>1. PICK m \in 0 .. 2 : typed \in [1 .. m -> Scopes]
        BY DEF BoundedSeq, SeqOf
      <4>2. m \in Nat
        BY <4>1
      <4> QED
        BY <4>1, <4>2
    <3>4. parse_query_filters(typed) \in RequestScopes
      BY <3>3 DEF parse_query_filters, RequestScopes
    <3> QED
      BY <3>2, <3>4 DEF parse_query, RequestScopes
  <2>2. /\ row = QChunks /\ shard = QChunks /\ qstep = "embed" /\ qpass = 1
        /\ qscope = request.scope /\ fell = FALSE /\ cands = <<>> /\ base = <<>>
        /\ dropped = 0 /\ warming = FALSE /\ merged = <<>> /\ scans = <<>> /\ lost = {}
    BY DEF QInit
  <2>3. QueryTypes
    <3>1. cands \in Seq(QChunks) /\ base \in Seq(Hits) /\ merged \in Seq(Hits)
      BY <2>2
    <3> QED
      BY <2>1, <2>2, <3>1 DEF QueryTypes, Found
  <2>4. Course /\ Scanned /\ Losses /\ EmptyIsVerdict
    BY <2>2 DEF Course, Scanned, Losses, EmptyIsVerdict, Answered, Retried, Found
  <2> QED
    BY <2>3, <2>4 DEF QueryInv
<1>2. QueryInv /\ [QNext]_qvars => QueryInv'
  <2> SUFFICES ASSUME QueryInv, [QNext]_qvars PROVE QueryInv'
    OBVIOUS
  <2> QED
    BY QuietSteps, GatherEmptyStep, GatherServesStep, GraphExpandStep, RerankStep DEF QNext
<1> QED
  BY <1>1, <1>2, PTL DEF QSpec

(***************************************************************************)
(* run_query_with_filters and scope_fallback: "no results" that is not     *)
(* marked warming lost no candidate of its class to a running index, the   *)
(* other class of a scoped request was tried as well, and no class was     *)
(* scanned twice, whatever the index, the disk and the reranker do.        *)
(***************************************************************************)
THEOREM EmptySearchesSound == QSpec => []EmptySearchSound
<1>1. QueryInv => EmptySearchSound
  <2> SUFFICES ASSUME QueryInv PROVE NoPingPong
    BY DEF EmptySearchSound, QueryInv
  <2>1. scans \in {<<>>, <<request.scope>>, <<request.scope, opposite(request.scope)>>}
    BY DEF QueryInv, QueryTypes, Scanned, Found
  <2>2. opposite(request.scope) # request.scope
    BY DEF opposite
  <2> DEFINE a == request.scope
             b == opposite(request.scope)
  <2>3. scans \in {<<>>, <<a>>, <<a, b>>} /\ a # b
    BY <2>1, <2>2
  <2> HIDE DEF a, b
  <2>4. CASE scans = <<>>
    BY <2>4 DEF NoPingPong, IsInjective
  <2>5. CASE scans = <<a>>
    BY <2>5 DEF NoPingPong, IsInjective
  <2>6. CASE scans = <<a, b>>
    BY <2>3, <2>6 DEF NoPingPong, IsInjective
  <2> QED
    BY <2>3, <2>4, <2>5, <2>6
<1> QED
  BY <1>1, QueryInvariant, PTL

-----------------------------------------------------------------------------
(* QueryEngine: what the answer says of itself                             *)

\* A candidate that a scan found is of the class scanned; one that a call led to is
\* there only if the request uses the call graph.
Fits(h) == IF h[2] = "call" THEN request.full ELSE InScope(h[1])
Honest(p) == \A k \in DOMAIN p : Fits(p[k])

AnswerInv ==
    /\ qstep \in {"hydrate", "expand"} => Honest(base)
    /\ qstep \in {"read", "rerank"} => Honest(merged)
    /\ qstep = "rerank" =>
          /\ DOMAIN stats = DOMAIN merged
          /\ \A k \in DOMAIN merged : stats[k] \in {"none", merged[k][1]}
    /\ AnswerIsWhatItSays

\* The end of a pass whose results are what its scan and the call graph gave.
LEMMA PassEndsHonest ==
  ASSUME QueryInv, NEW r, PassEnds(r), Outcome(r), UNCHANGED request,
         r.results # <<>> => r.scope = qscope,
         \A k \in DOMAIN r.results : /\ ~r.results[k].called => InScope(r.results[k].chunk)
                                     /\ r.results[k].called => ~r.graph_pending
                                     /\ r.results[k].stats \in {"none", r.results[k].chunk}
  PROVE  AnswerIsWhatItSays' /\ qstep' \in {"embed", "answered"}
<1> USE DEF RequestScopes, Retried
<1>0. request.scope \in RequestScopes /\ qpass \in {1, 2}
  BY DEF QueryInv, QueryTypes
<1>1. CASE qstep' = "embed"
  BY <1>1 DEF AnswerIsWhatItSays, Answered
<1>2. CASE qpass = 1 /\ Answer(r)
  <2>1. /\ qanswer' = r /\ qstep' = "answered"
        /\ r.scope = IF r.fallback THEN opposite(request.scope) ELSE request.scope
        /\ r.fallback \in BOOLEAN
    BY <1>2 DEF Answer, Outcome
  <2>0. request.scope = "none" => ~r.fallback
    BY <1>2 DEF Outcome, QueryInv, Course
  <2>2. r.scope = "none" <=> request.scope = "none"
    BY <1>0, <2>0, <2>1, ClassFacts
  <2>3. r.scope # "none" => (r.fallback <=> r.scope # request.scope)
    BY <1>0, <2>1, <2>2, ClassFacts
  <2>4. ASSUME NEW k \in DOMAIN r.results
        PROVE  /\ r.scope # "none" /\ ~r.results[k].called => Class(r.results[k].chunk) = r.scope
               /\ r.results[k].called => ~r.graph_pending
               /\ r.results[k].stats \in {"none", r.results[k].chunk}
    <3>1. r.results # <<>>
      OBVIOUS
    <3> QED
      BY <3>1 DEF InScope
  <2> QED
    BY <2>1, <2>2, <2>3, <2>4 DEF AnswerIsWhatItSays
<1>3. CASE qpass = 2 /\ r.results = <<>> /\ Answer(first)
  <2>1. /\ first.results = <<>> /\ first.scope = request.scope /\ ~first.fallback
        /\ qanswer' = first /\ qstep' = "answered"
    BY <1>3 DEF Answer, QueryInv, Course
  <2> QED
    BY <2>1 DEF AnswerIsWhatItSays
<1>4. CASE qpass = 2 /\ r.results # <<>> /\ Answer([r EXCEPT !.scope = qscope, !.fallback = TRUE])
  <2>1. request.scope # "none" /\ qscope = opposite(request.scope)
    BY <1>4 DEF QueryInv, Course
  <2>2. qscope # "none" /\ qscope # request.scope
    BY <1>0, <2>1, ClassFacts
  <2>3. /\ qanswer'.scope = qscope /\ qanswer'.fallback = TRUE /\ qanswer'.results = r.results
        /\ qstep' = "answered" /\ qanswer'.graph_pending = r.graph_pending
    BY <1>4 DEF Answer
  <2>4. \A k \in DOMAIN r.results : ~r.results[k].called => Class(r.results[k].chunk) = qscope
    BY <2>2 DEF InScope
  <2> QED
    BY <2>1, <2>2, <2>3, <2>4 DEF AnswerIsWhatItSays
<1>5. \/ qstep' = "embed"
      \/ qpass = 1 /\ Answer(r)
      \/ qpass = 2 /\ r.results = <<>> /\ Answer(first)
      \/ qpass = 2 /\ r.results # <<>> /\ Answer([r EXCEPT !.scope = qscope, !.fallback = TRUE])
  BY <1>0 DEF PassEnds
<1> QED
  BY <1>1, <1>2, <1>3, <1>4, <1>5 DEF Answer

\* The hits that pass the filters, and what the expansion adds to them.
LEMMA ExpandHonest ==
  ASSUME QueryInv, AnswerInv, graph_expand
  PROVE  Honest(merged')
<1>1. base \in Seq(Hits) /\ base # <<>> /\ Honest(base) /\ UNCHANGED qscope
  BY DEF graph_expand, QueryInv, QueryTypes, AnswerInv
<1>2. \A k \in DOMAIN merged' : \/ k \in DOMAIN base /\ merged'[k] = base[k]
                                \/ merged'[k][2] = "call" /\ request.full
  BY <1>1, MergedIs
<1>3. \A k \in DOMAIN merged' : Fits(merged'[k])
  BY <1>1, <1>2 DEF Honest, Fits
<1> QED
  BY <1>3 DEF Honest

\* What a reranker hands out.
LEMMA RerankedHonest ==
  ASSUME QueryInv, AnswerInv, qstep = "rerank", NEW p \in Pools, NEW out \in RerankOutputs(p)
  PROVE  \A k \in DOMAIN RerankResult(p, out).results :
            LET found == RerankResult(p, out).results[k] IN
            /\ ~found.called => InScope(found.chunk)
            /\ found.called => request.full
            /\ found.stats \in {"none", found.chunk}
<1>1. /\ merged \in Seq(Hits) /\ row \subseteq QChunks /\ Honest(merged)
      /\ DOMAIN stats = DOMAIN merged
      /\ \A k \in DOMAIN merged : stats[k] \in {"none", merged[k][1]}
  BY DEF QueryInv, QueryTypes, AnswerInv
<1>2. \A h \in SubQuery : Fits(h)
  <2> DEFINE hits == Narrowed({c \in row \cap shard : InScope(c)})
  <2>1. \A c \in hits : InScope(c)
    BY DEF Narrowed
  <2> HIDE DEF hits
  <2>2. \A c \in Reachable(hits) : request.full
    BY DEF Reachable
  <2>3. SubQuery = {<<c, "row">> : c \in hits} \cup {<<c, "call">> : c \in Reachable(hits)}
    BY DEF SubQuery, hits
  <2>4. ASSUME NEW h \in SubQuery
        PROVE  \/ h[1] \in hits /\ h[2] = "row"
               \/ h[1] \in Reachable(hits) /\ h[2] = "call"
    BY <2>3
  <2> QED
    BY <2>1, <2>2, <2>4 DEF Fits
<1>3. /\ DOMAIN merged \subseteq DOMAIN p /\ \A k \in DOMAIN merged : p[k] = merged[k]
      /\ \A k \in DOMAIN p : k \in DOMAIN merged \/ p[k] \in SubQuery
  BY <1>1, PoolIs
<1>4. ASSUME NEW i \in DOMAIN p
      PROVE  Fits(p[i]) /\ StatsAt(i) \in {"none", p[i][1]}
  BY <1>1, <1>2, <1>3 DEF StatsAt, Honest
<1> DEFINE kept == Kept(Formatted(p, out))
<1>5. \A k \in DOMAIN kept : \E i \in DOMAIN p :
        kept[k].chunk = p[i][1] /\ kept[k].stats = StatsAt(i) /\ kept[k].called = (p[i][2] = "call")
  BY <1>1, KeptIs, Zenon
<1>6. RerankResult(p, out).results = kept
  BY DEF RerankResult
<1> HIDE DEF kept
<1>7. ASSUME NEW k \in DOMAIN kept
      PROVE  /\ ~kept[k].called => InScope(kept[k].chunk)
             /\ kept[k].called => request.full
             /\ kept[k].stats \in {"none", kept[k].chunk}
  <2>1. PICK i \in DOMAIN p :
          kept[k].chunk = p[i][1] /\ kept[k].stats = StatsAt(i) /\ kept[k].called = (p[i][2] = "call")
    BY <1>5
  <2> QED
    BY <1>4, <2>1 DEF Fits
<1> QED
  BY <1>6, <1>7

LEMMA AnswerStep ==
  ASSUME QueryInv, QueryInv', AnswerInv, [QNext]_qvars
  PROVE  AnswerInv'
<1>1. CASE UNCHANGED qvars
  BY <1>1 DEF qvars, worldvars, passvars, AnswerInv, AnswerIsWhatItSays, Answered, Honest, Fits, InScope
<1>2. CASE World
  BY <1>2 DEF World, passvars, AnswerInv, AnswerIsWhatItSays, Answered, Honest, Fits, InScope
<1>3. CASE embed_query
  BY <1>3 DEF embed_query, AnswerInv, AnswerIsWhatItSays, Answered
<1>4. CASE EmbedFails
  <2>1. qstep' = "answered" /\ UNCHANGED request
        /\ qanswer' = IF qpass = 2 THEN first ELSE [NoResult EXCEPT !.scope = "error"]
    BY <1>4 DEF EmbedFails, Answer
  <2>2. CASE qpass = 2
    <3>1. first.results = <<>> /\ first.scope = request.scope /\ ~first.fallback
      BY <2>2 DEF QueryInv, Course
    <3> QED
      BY <2>1, <2>2, <3>1 DEF AnswerInv, AnswerIsWhatItSays
  <2>3. CASE qpass # 2
    <3>1. qanswer'.scope = "error"
      BY <2>1, <2>3 DEF NoResult
    <3> QED
      BY <2>1, <3>1 DEF AnswerInv, AnswerIsWhatItSays, Answered
  <2> QED
    BY <2>2, <2>3
<1>5. CASE vector_search
  BY <1>5 DEF vector_search, AnswerInv, AnswerIsWhatItSays, Answered, Honest
<1>6. CASE hydrate_candidates
  <2> DEFINE c == Head(cands)
  <2>1. /\ qstep = "hydrate" /\ qstep' = "hydrate" /\ cands # <<>> /\ UNCHANGED <<qscope, request>>
        /\ \/ base' = base
           \/ base' = Append(base, <<c, ContentOf(c)>>)
    BY <1>6 DEF hydrate_candidates
  <2>2a. ContentOf(c) # "call"
    BY DEF ContentOf
  <2>2. base \in Seq(Hits) /\ InScope(c) /\ Honest(base)
    BY <2>1 DEF QueryInv, QueryTypes, Losses, AnswerInv
  <2> HIDE DEF c
  <2>3. Honest(base')
    <3>1. CASE base' = base
      BY <2>2, <3>1
    <3>2. CASE base' = Append(base, <<c, ContentOf(c)>>)
      <4> DEFINE h == <<c, ContentOf(c)>>
      <4>1. h[1] = c /\ h[2] # "call" /\ base' = Append(base, h)
        BY <2>2a, <3>2
      <4> HIDE DEF h
      <4>2. \A k \in DOMAIN base' : (k \in DOMAIN base /\ base'[k] = base[k]) \/ base'[k] = h
        BY <2>2, <4>1
      <4> QED
        BY <2>2, <4>1, <4>2 DEF Honest, Fits
    <3> QED
      BY <2>1, <3>1, <3>2
  <2>4. Honest(base)'
    BY <2>1, <2>3 DEF Honest, Fits, InScope
  <2> QED
    BY <2>1, <2>4 DEF AnswerInv, AnswerIsWhatItSays, Answered
<1>7. CASE GatherFallsBack
  BY <1>7 DEF GatherFallsBack, AnswerInv, AnswerIsWhatItSays, Answered
<1>8. CASE GatherEmpty
  <2>1. UNCHANGED request
    BY <1>8 DEF GatherEmpty
  <2>2. AnswerIsWhatItSays' /\ qstep' \in {"embed", "answered"}
    <3>1. Nothing.results = <<>> /\ PassEnds(Nothing) /\ Outcome(Nothing)
      BY <1>8, NothingIs
    <3>2. \A k \in DOMAIN Nothing.results : FALSE
      BY <3>1
    <3> QED
      BY <2>1, <3>1, <3>2, PassEndsHonest
  <2> QED
    BY <2>2 DEF AnswerInv
<1>9. CASE GatherServes
  <2>1. qstep = "hydrate" /\ qstep' = "expand" /\ base' = apply_query_filters
        /\ UNCHANGED <<qscope, request>>
    BY <1>9 DEF GatherServes, ScanDone
  <2>2. \A k \in DOMAIN base' : \E i \in DOMAIN base : base'[k] = base[i]
    <3> DEFINE I == {i \in DOMAIN base : base[i][1] \in Narrowed(Base)}
    <3>1. base \in Seq(Hits) /\ I \in SUBSET DOMAIN base /\ base' = Picked(base, I)
      BY <2>1 DEF QueryInv, QueryTypes, apply_query_filters
    <3> HIDE DEF I
    <3>2. \A k \in DOMAIN Picked(base, I) : \E i \in I : Picked(base, I)[k] = base[i]
      BY <3>1, PickedSeq
    <3> QED
      BY <3>1, <3>2
  <2>3. Honest(base)'
    BY <2>1, <2>2 DEF AnswerInv, Honest, Fits, InScope
  <2> QED
    BY <2>1, <2>3 DEF AnswerInv, AnswerIsWhatItSays, Answered
<1>10. CASE graph_expand
  <2>1. qstep' = "read" /\ UNCHANGED <<qscope, request>>
    BY <1>10 DEF graph_expand
  <2>2. Honest(merged)'
    BY <1>10, <2>1, ExpandHonest DEF Honest, Fits, InScope
  <2> QED
    BY <2>1, <2>2 DEF AnswerInv, AnswerIsWhatItSays, Answered
<1>11. CASE read_lines_from_fs
  BY <1>11 DEF read_lines_from_fs, AnswerInv, AnswerIsWhatItSays, Answered, Honest, Fits, InScope
<1>12. CASE fetch_caller_stats_batch
  <2>1. /\ qstep = "read" /\ qstep' = "rerank" /\ UNCHANGED <<qscope, merged, request>>
        /\ stats' = [i \in DOMAIN merged |->
                       IF request.full /\ merged[i][1] \in row THEN merged[i][1] ELSE "none"]
    BY <1>12 DEF fetch_caller_stats_batch
  <2>2. DOMAIN stats' = DOMAIN merged
        /\ \A k \in DOMAIN merged : stats'[k] \in {"none", merged[k][1]}
    BY <2>1
  <2> QED
    BY <2>1, <2>2 DEF AnswerInv, AnswerIsWhatItSays, Answered, Honest, Fits, InScope
<1>13. CASE rerank
  <2>1. qstep = "rerank" /\ UNCHANGED request
    BY <1>13 DEF rerank
  <2>2. PICK p \in Pools : \E out \in RerankOutputs(p) : PassEnds(RerankResult(p, out))
    BY <1>13, RerankEnds
  <2>3. PICK out \in RerankOutputs(p) : PassEnds(RerankResult(p, out))
    BY <2>2
  <2> DEFINE r == RerankResult(p, out)
  <2>4. Outcome(r) /\ r.scope = qscope
    BY <2>1, RerankedIs DEF RerankResult
  <2>5. \A k \in DOMAIN r.results : /\ ~r.results[k].called => InScope(r.results[k].chunk)
                                    /\ r.results[k].called => ~r.graph_pending
                                    /\ r.results[k].stats \in {"none", r.results[k].chunk}
    <3>1. r.graph_pending = ~request.full
      BY DEF RerankResult
    <3> QED
      BY <2>1, <3>1, RerankedHonest
  <2> HIDE DEF r
  <2>6. PassEnds(r)
    BY <2>3 DEF r
  <2>7. AnswerIsWhatItSays' /\ qstep' \in {"embed", "answered"}
    BY <2>1, <2>4, <2>5, <2>6, PassEndsHonest
  <2> QED
    BY <2>7 DEF AnswerInv
<1> QED
  BY <1>1, <1>2, <1>3, <1>4, <1>5, <1>6, <1>7, <1>8, <1>9, <1>10, <1>11, <1>12, <1>13 DEF QNext

(***************************************************************************)
(* What run_query_with_filters hands out is of the class it names, but for *)
(* what graph_expand added, which an answer with the call graph pending    *)
(* does not hold; it is flagged exactly when that class is not the one     *)
(* asked for, and each result has the statistics of its own chunk.         *)
(***************************************************************************)
THEOREM AnswersAreTrue == QSpec => []AnswerIsWhatItSays
<1>1. QInit => AnswerInv
  BY DEF QInit, AnswerInv, AnswerIsWhatItSays, Answered
<1>2. QueryInv /\ QueryInv' /\ AnswerInv /\ [QNext]_qvars => AnswerInv'
  BY AnswerStep
<1>3. AnswerInv => AnswerIsWhatItSays
  BY DEF AnswerInv
<1> QED
  BY <1>1, <1>2, <1>3, QueryInvariant, PTL DEF QSpec

-----------------------------------------------------------------------------
(* AgenticRerank                                                           *)

Selections == Nat \X {PrunedChars, WholeChars}

\* Commitments are added at the end.
LEMMA CharsAppend ==
  ASSUME NEW acc \in Seq(Selections), NEW item \in Selections
  PROVE  Chars(acc) \in Nat /\ Chars(Append(acc, item)) = Chars(acc) + item[2]
<1> DEFINE n == Len(acc) + 1
           new == Append(acc, item)
<1>1. /\ n \in Nat /\ DOMAIN acc = 1 .. n - 1 /\ DOMAIN new = 1 .. n /\ new[n] = item
      /\ n \notin DOMAIN acc /\ \A i \in DOMAIN acc : new[i] = acc[i]
  OBVIOUS
<1>2. ASSUME NEW w
      PROVE  /\ IsFiniteSet(OfSize(acc, w)) /\ Cardinality(OfSize(acc, w)) \in Nat
             /\ n \notin OfSize(acc, w)
             /\ OfSize(new, w) = IF item[2] = w THEN OfSize(acc, w) \cup {n} ELSE OfSize(acc, w)
  <2>1. /\ IsFiniteSet(1 .. n - 1) /\ OfSize(acc, w) \in SUBSET (1 .. n - 1)
        /\ n \notin OfSize(acc, w)
    <3>1. OfSize(acc, w) \in SUBSET DOMAIN acc
      BY DEF OfSize
    <3>2. IsFiniteSet(1 .. Len(acc))
      BY FS_Interval
    <3>3. n - 1 = Len(acc)
      OBVIOUS
    <3> HIDE DEF n
    <3> QED
      BY <1>1, <3>1, <3>2, <3>3
  <2>2. DOMAIN new = DOMAIN acc \cup {n}
    BY <1>1
  <2> HIDE DEF n, new
  <2>3. OfSize(new, w) = IF item[2] = w THEN OfSize(acc, w) \cup {n} ELSE OfSize(acc, w)
    BY <1>1, <2>2 DEF OfSize
  <2> QED
    BY <1>1, <2>1, <2>3, FS_Subset, FS_CardinalityType
<1> HIDE DEF n, new
<1>3. ASSUME NEW w
      PROVE  Cardinality(OfSize(new, w)) =
               Cardinality(OfSize(acc, w)) + (IF item[2] = w THEN 1 ELSE 0)
  <2>1. CASE item[2] = w
    BY <1>2, <2>1, FS_AddElement
  <2>2. CASE item[2] # w
    BY <1>2, <2>2
  <2> QED
    BY <2>1, <2>2
<1>4. item[2] \in {PrunedChars, WholeChars}
  BY DEF Selections
<1> DEFINE p == Cardinality(OfSize(acc, PrunedChars))
           q == Cardinality(OfSize(acc, WholeChars))
<1>5. /\ p \in Nat /\ q \in Nat
      /\ Cardinality(OfSize(new, PrunedChars)) = p + (IF item[2] = PrunedChars THEN 1 ELSE 0)
      /\ Cardinality(OfSize(new, WholeChars)) = q + (IF item[2] = WholeChars THEN 1 ELSE 0)
  BY <1>2, <1>3
<1>6. Chars(acc) = 1 * p + 2 * q
      /\ Chars(new) = 1 * (p + (IF item[2] = 1 THEN 1 ELSE 0)) + 2 * (q + (IF item[2] = 2 THEN 1 ELSE 0))
  BY <1>5 DEF Chars, PrunedChars, WholeChars
<1> HIDE DEF p, q
<1>7. Chars(acc) \in Nat /\ Chars(new) = Chars(acc) + item[2]
  BY <1>4, <1>5, <1>6 DEF PrunedChars, WholeChars
<1> QED
  BY <1>7 DEF new

\* Folding the additions of up to two entries.
Adding(items, g) ==
    [s \in SUBSET DOMAIN items |->
       IF s = {} THEN accumulated ELSE add_one_chunk(g[s \ {Max(s)}], items[Max(s)])]

LEMMA AddsUnfold ==
  ASSUME NEW items, \E g : g = Adding(items, g)
  PROVE  \E g : g = Adding(items, g) /\ handle_add_chunks(items) = g[DOMAIN items]
<1> DEFINE It == CHOOSE g : g = [s \in SUBSET DOMAIN items |->
                   IF s = {} THEN accumulated
                   ELSE LET x == Max(s) IN add_one_chunk(g[s \ {x}], items[x])]
<1>1. handle_add_chunks(items) = It[DOMAIN items]
  BY Zenon DEF handle_add_chunks, FoldLeft, MapThenFoldSet
<1>2. It = CHOOSE g : g = Adding(items, g)
  BY Zenon DEF Adding
<1> HIDE DEF It
<1>3. It = Adding(items, It)
  BY <1>2, Zenon
<1> QED
  BY <1>1, <1>3

\* The greatest of some numbers is the one that bounds them.
LEMMA MaxIs ==
  ASSUME NEW S \in SUBSET Nat, NEW m \in S, \A x \in S : m >= x
  PROVE  Max(S) = m
<1> DEFINE P(x) == x \in S /\ \A y \in S : x >= y
<1>0. m \in Nat /\ \A x \in S : x \in Nat
  OBVIOUS
<1>1. ASSUME NEW x, P(x) PROVE x = m
  <2>1. x \in Nat /\ x >= m /\ m >= x
    BY <1>0, <1>1
  <2> QED
    BY <1>0, <2>1
<1>2. P(m)
  OBVIOUS
<1>3. Max(S) = CHOOSE x : P(x)
  BY DEF Max
<1> HIDE DEF P
<1> QED
  BY <1>1, <1>2, <1>3

LEMMA MaxOf == /\ Max({1}) = 1 /\ Max({2}) = 2 /\ Max({1, 2}) = 2
BY MaxIs

LEMMA AddsAre ==
  /\ handle_add_chunks(<<>>) = accumulated
  /\ \A a : handle_add_chunks(<<a>>) = add_one_chunk(accumulated, a)
  /\ \A a, b : handle_add_chunks(<<a, b>>) = add_one_chunk(add_one_chunk(accumulated, a), b)
<1>1. handle_add_chunks(<<>>) = accumulated
  <2> DEFINE items == <<>>
             w == [s \in {{}} |-> accumulated]
  <2>1. DOMAIN items = {} /\ SUBSET DOMAIN items = {{}}
    OBVIOUS
  <2> HIDE DEF items
  <2>2. w = Adding(items, w)
    BY <2>1 DEF Adding
  <2>3. PICK g : g = Adding(items, g) /\ handle_add_chunks(items) = g[DOMAIN items]
    BY <2>2, AddsUnfold
  <2>4. g[{}] = accumulated
    BY <2>1, <2>3 DEF Adding
  <2> QED
    BY <2>1, <2>3, <2>4 DEF items
<1>2. ASSUME NEW a PROVE handle_add_chunks(<<a>>) = add_one_chunk(accumulated, a)
  <2> DEFINE items == <<a>>
             w == [s \in {{}, {1}} |->
                     IF s = {} THEN accumulated ELSE add_one_chunk(accumulated, a)]
  <2>1. DOMAIN items = {1} /\ SUBSET DOMAIN items = {{}, {1}} /\ items[1] = a
    OBVIOUS
  <2> HIDE DEF items
  <2>2. w = Adding(items, w)
    BY <2>1, MaxOf DEF Adding
  <2> HIDE DEF w
  <2>3. PICK g : g = Adding(items, g) /\ handle_add_chunks(items) = g[DOMAIN items]
    BY <2>2, AddsUnfold
  <2>4. g[{}] = accumulated
    BY <2>1, <2>3 DEF Adding
  <2>5. g[{1}] = add_one_chunk(g[{1} \ {1}], a)
    BY <2>1, <2>3, MaxOf DEF Adding
  <2>6. {1} \ {1} = {}
    OBVIOUS
  <2> QED
    BY <2>1, <2>3, <2>4, <2>5, <2>6 DEF items
<1>3. ASSUME NEW a, NEW b
      PROVE  handle_add_chunks(<<a, b>>) = add_one_chunk(add_one_chunk(accumulated, a), b)
  <2> DEFINE items == <<a, b>>
             w == [s \in {{}, {1}, {2}, {1, 2}} |->
                     IF s = {} THEN accumulated
                     ELSE IF s = {1} THEN add_one_chunk(accumulated, a)
                     ELSE IF s = {2} THEN add_one_chunk(accumulated, b)
                     ELSE add_one_chunk(add_one_chunk(accumulated, a), b)]
  <2>1. /\ DOMAIN items = {1, 2} /\ SUBSET DOMAIN items = {{}, {1}, {2}, {1, 2}}
        /\ items[1] = a /\ items[2] = b
    OBVIOUS
  <2> HIDE DEF items
  <2>2. /\ {1} \ {1} = {} /\ {2} \ {2} = {} /\ {1, 2} \ {2} = {1}
        /\ {1} # {} /\ {2} # {} /\ {1, 2} # {} /\ {1} # {2} /\ {1, 2} # {1} /\ {1, 2} # {2}
    OBVIOUS
  <2>3. w = Adding(items, w)
    <3>1. /\ w[{}] = accumulated /\ w[{1}] = add_one_chunk(accumulated, a)
          /\ w[{2}] = add_one_chunk(accumulated, b)
          /\ w[{1, 2}] = add_one_chunk(add_one_chunk(accumulated, a), b)
          /\ w = [s \in {{}, {1}, {2}, {1, 2}} |-> w[s]]
      BY <2>2
    <3> HIDE DEF w
    <3> DEFINE v == Adding(items, w)
    <3>2. v = [s \in {{}, {1}, {2}, {1, 2}} |->
                IF s = {} THEN accumulated ELSE add_one_chunk(w[s \ {Max(s)}], items[Max(s)])]
      BY <2>1 DEF Adding
    <3>2a. /\ v[{}] = accumulated
           /\ v[{1}] = add_one_chunk(w[{1} \ {1}], items[1])
           /\ v[{2}] = add_one_chunk(w[{2} \ {2}], items[2])
           /\ v[{1, 2}] = add_one_chunk(w[{1, 2} \ {2}], items[2])
           /\ v = [s \in {{}, {1}, {2}, {1, 2}} |-> v[s]]
      BY <2>2, <3>2, MaxOf
    <3>3. /\ v[{}] = accumulated /\ v[{1}] = add_one_chunk(accumulated, a)
          /\ v[{2}] = add_one_chunk(accumulated, b)
          /\ v[{1, 2}] = add_one_chunk(add_one_chunk(accumulated, a), b)
          /\ v = [s \in {{}, {1}, {2}, {1, 2}} |-> v[s]]
      <4>1. /\ w[{1} \ {1}] = accumulated /\ w[{2} \ {2}] = accumulated
            /\ w[{1, 2} \ {2}] = add_one_chunk(accumulated, a)
        BY <2>2, <3>1, Zenon
      <4> QED
        BY <2>1, <3>2a, <4>1, Zenon
    <3> HIDE DEF v
    <3>4. w = v
      BY <3>1, <3>3
    <3> QED
      BY <3>4 DEF v
  <2> HIDE DEF w
  <2>4. PICK g : g = Adding(items, g) /\ handle_add_chunks(items) = g[DOMAIN items]
    BY <2>3, AddsUnfold
  <2>5. g[{}] = accumulated /\ g[{1}] = add_one_chunk(g[{}], a)
    BY ZenonT(60), <2>1, <2>2, <2>4, MaxOf DEF Adding
  <2>6. g[{1, 2}] = add_one_chunk(g[{1}], b)
    BY ZenonT(60), <2>1, <2>2, <2>4, MaxOf DEF Adding
  <2> QED
    BY <2>1, <2>4, <2>5, <2>6 DEF items
<1> QED
  BY <1>1, <1>2, <1>3

\* What has been committed: chunks of the pool, once each.
Sound(acc) ==
    /\ acc \in Seq(Selections)
    /\ \A i \in DOMAIN acc : acc[i][1] < Len(pool)
    /\ \A i, j \in DOMAIN acc : acc[i][1] = acc[j][1] => i = j

LEMMA AddOne ==
  ASSUME Len(pool) \in Nat, NEW acc, Sound(acc),
         NEW item \in (0 .. Len(pool)) \X {PrunedChars, WholeChars}
  PROVE  /\ Sound(add_one_chunk(acc, item))
         /\ Chars(acc) \in Nat /\ Chars(add_one_chunk(acc, item)) \in Nat
         /\ Chars(add_one_chunk(acc, item)) <= Chars(acc) + WholeChars
<1>1. acc \in Seq(Selections) /\ item \in Selections /\ item[1] \in Nat /\ item[2] \in {1, 2}
  BY DEF Sound, Selections, PrunedChars, WholeChars
<1>2. Chars(acc) \in Nat /\ Chars(Append(acc, item)) = Chars(acc) + item[2]
  BY <1>1, CharsAppend
<1>3. CASE item[1] >= Len(pool) \/ item[1] \in Selected(acc)
  <2>1. add_one_chunk(acc, item) = acc
    BY <1>3 DEF add_one_chunk
  <2> QED
    BY <1>2, <2>1 DEF WholeChars
<1>4. CASE item[1] < Len(pool) /\ item[1] \notin Selected(acc)
  <2>1. add_one_chunk(acc, item) = Append(acc, item)
    BY <1>1, <1>4 DEF add_one_chunk
  <2> DEFINE new == Append(acc, item)
             n == Len(acc) + 1
  <2>2. /\ new \in Seq(Selections) /\ DOMAIN new = DOMAIN acc \cup {n} /\ new[n] = item
        /\ n \notin DOMAIN acc /\ \A i \in DOMAIN acc : new[i] = acc[i]
    BY <1>1
  <2> HIDE DEF new, n
  <2>3. \A i \in DOMAIN acc : acc[i][1] # item[1]
    BY <1>4 DEF Selected
  <2>4. \A i \in DOMAIN new : new[i][1] < Len(pool)
    BY <1>4, <2>2 DEF Sound
  <2>5. \A i, j \in DOMAIN new : new[i][1] = new[j][1] => i = j
    BY <2>2, <2>3 DEF Sound
  <2>6. Sound(new)
    BY <2>2, <2>4, <2>5 DEF Sound
  <2>7. Chars(new) \in Nat /\ Chars(new) <= Chars(acc) + 2
    BY <1>1, <1>2 DEF new
  <2> QED
    BY <1>2, <2>1, <2>6, <2>7 DEF new, WholeChars
<1>5. item[1] >= Len(pool) \/ item[1] < Len(pool)
  BY <1>1
<1> QED
  BY <1>3, <1>4, <1>5

LEMMA AddAll ==
  ASSUME Len(pool) \in Nat, Sound(accumulated), NEW items \in Items
  PROVE  /\ Sound(handle_add_chunks(items))
         /\ Chars(accumulated) \in Nat /\ Chars(handle_add_chunks(items)) \in Nat
         /\ Chars(handle_add_chunks(items)) <= Chars(accumulated) + 4
<1> DEFINE item == (0 .. Len(pool)) \X {PrunedChars, WholeChars}
<1>0. Chars(accumulated) \in Nat
  <2>1. <<0, PrunedChars>> \in item
    BY DEF PrunedChars
  <2> HIDE DEF item
  <2> QED
    BY <2>1, AddOne DEF item
<1>1. CASE items = <<>>
  BY <1>0, <1>1, AddsAre
<1>2. ASSUME NEW a \in item, items = <<a>>
      PROVE  /\ Sound(handle_add_chunks(items)) /\ Chars(handle_add_chunks(items)) \in Nat
             /\ Chars(handle_add_chunks(items)) <= Chars(accumulated) + 4
  <2> DEFINE one == add_one_chunk(accumulated, a)
  <2>1. Sound(one) /\ Chars(one) \in Nat /\ Chars(one) <= Chars(accumulated) + 2
    BY AddOne DEF WholeChars
  <2>2. handle_add_chunks(items) = one
    BY <1>2, AddsAre
  <2> HIDE DEF one
  <2> QED
    BY <1>0, <2>1, <2>2
<1>3. ASSUME NEW a \in item, NEW b \in item, items = <<a, b>>
      PROVE  /\ Sound(handle_add_chunks(items)) /\ Chars(handle_add_chunks(items)) \in Nat
             /\ Chars(handle_add_chunks(items)) <= Chars(accumulated) + 4
  <2> DEFINE one == add_one_chunk(accumulated, a)
             two == add_one_chunk(one, b)
  <2>1. Sound(one) /\ Chars(one) \in Nat /\ Chars(one) <= Chars(accumulated) + 2
    BY AddOne DEF WholeChars
  <2>2. handle_add_chunks(items) = two
    BY <1>3, AddsAre
  <2> HIDE DEF one
  <2>3. Sound(two) /\ Chars(two) \in Nat /\ Chars(two) <= Chars(one) + 2
    BY <2>1, AddOne DEF WholeChars
  <2> HIDE DEF two
  <2> QED
    BY <1>0, <2>1, <2>2, <2>3
<1>4. \/ items = <<>> \/ \E a \in item : items = <<a>>
      \/ \E a \in item, b \in item : items = <<a, b>>
  BY DEF Items
<1> QED
  BY <1>0, <1>1, <1>2, <1>3, <1>4

MidStops == {"ChunkCharBudget", "QueryBudget"}

\* Where the loop is, how many turns it asked for, and which calls are unanswered.
LoopInv ==
    /\ rstep \in {"turn", "calls", "harvest", "decide", "done"}
    /\ iteration \in Nat /\ turns \in Nat /\ left \in Nat /\ owed \in Nat
    /\ stop \in MidStops \cup {"none"} /\ exit \in Exits
    /\ rstep = "turn" => owed = 0 /\ turns = iteration /\ iteration <= max_iterations
    /\ rstep = "calls" => owed = left /\ turns = iteration + 1 /\ iteration < max_iterations
    /\ rstep = "harvest" => turns <= max_iterations /\ (owed = 0 \/ exit \in MidStops)
    /\ turns <= max_iterations + 1

\* Where more may be committed the budget is not used up.
MayCommit ==
    \/ rstep = "turn"
    \/ rstep = "calls" /\ stop # "ChunkCharBudget"
    \/ rstep = "harvest" /\ exit # "ChunkCharBudget"

CommitInv ==
    /\ pool \in Seq({"base", "query", "fs"}) /\ BaseChunks <= Len(pool)
    /\ Sound(accumulated)
    /\ max_chunk_chars > 0 =>
          /\ Chars(accumulated) < max_chunk_chars + 4
          /\ MayCommit => Chars(accumulated) < max_chunk_chars

\* What was decided at the end.
DecidedInv ==
    rstep = "done" =>
      answer = CASE accumulated # <<>> ->
                      [indices |-> [i \in DOMAIN accumulated |-> accumulated[i][1]],
                       fallback |-> FALSE, skip |-> FALSE]
                 [] accumulated = <<>> /\ exit = "AgentDone" -> NoAnswer
                 [] OTHER -> [indices |-> [i \in 1 .. BaseChunks |-> i - 1],
                              fallback |-> TRUE, skip |-> TRUE]

AgentInv == LoopInv /\ CommitInv /\ DecidedInv

LEMMA Numbers ==
  /\ BaseChunks \in Nat \ {0} /\ max_turns \in Nat /\ max_chunk_chars \in Nat
  /\ MinIterations \in Nat \ {0} /\ MaxCalls \in Nat
BY AgenticConstants, Zenon

LEMMA MaxIterations == max_iterations \in Nat \ {0}
BY Numbers DEF max_iterations, query_budget

LEMMA PoolGrows ==
  ASSUME CommitInv, UNCHANGED accumulated,
         pool' \in Seq({"base", "query", "fs"}), Len(pool) <= Len(pool'), MayCommit' => MayCommit
  PROVE  CommitInv'
<1>1. Len(pool) \in Nat /\ Len(pool') \in Nat /\ BaseChunks \in Nat
  BY Numbers DEF CommitInv
<1>2. \A i \in DOMAIN accumulated : accumulated[i][1] < Len(pool')
  <2>1. \A i \in DOMAIN accumulated : accumulated[i][1] \in Nat
    <3>1. \A i \in DOMAIN accumulated : accumulated[i] \in Selections
      BY DEF CommitInv, Sound
    <3> QED
      BY <3>1 DEF Selections
  <2> QED
    BY <1>1, <2>1 DEF CommitInv, Sound
<1>3. Sound(accumulated)'
  BY <1>2 DEF CommitInv, Sound
<1>4. BaseChunks <= Len(pool')
  BY <1>1 DEF CommitInv
<1>5. Chars(accumulated)' = Chars(accumulated)
  BY DEF Chars, OfSize
<1> QED
  BY <1>3, <1>4, <1>5 DEF CommitInv

LEMMA More ==
  ASSUME CommitInv, NEW n \in 0 .. 1, NEW o \in {"query", "fs"},
         NEW q, q = pool \o [i \in 1 .. n |-> o]
  PROVE  q \in Seq({"base", "query", "fs"}) /\ Len(pool) <= Len(q)
<1>1. pool \in Seq({"base", "query", "fs"}) /\ n \in Nat
  BY DEF CommitInv
<1> DEFINE t == [i \in 1 .. n |-> o]
<1>2. t \in Seq({"base", "query", "fs"}) /\ Len(t) = n
  BY <1>1
<1> HIDE DEF t
<1>3. pool \o t \in Seq({"base", "query", "fs"}) /\ Len(pool \o t) = Len(pool) + n
      /\ Len(pool) \in Nat
  BY <1>1, <1>2
<1> QED
  BY <1>1, <1>3 DEF t

\* A call that commits nothing.
LEMMA AgentCallStep ==
  ASSUME AgentInv, Dispatching, CallAnswered, UNCHANGED <<accumulated, stop>>,
         pool' \in Seq({"base", "query", "fs"}), Len(pool) <= Len(pool')
  PROVE  AgentInv'
<1>1. /\ rstep = "calls" /\ rstep' = "calls" /\ left > 0 /\ left' = left - 1 /\ owed' = owed - 1
      /\ UNCHANGED <<iteration, exit, turns, answer>>
  BY DEF Dispatching, CallAnswered
<1>2. LoopInv'
  BY <1>1, MaxIterations DEF AgentInv, LoopInv
<1>3. CommitInv'
  BY <1>1, PoolGrows DEF AgentInv, MayCommit
<1> QED
  BY <1>1, <1>2, <1>3 DEF AgentInv, DecidedInv

LEMMA AgentStep ==
  ASSUME AgentInv, [RNext]_rvars
  PROVE  AgentInv'
<1> USE MaxIterations
<1>1. CASE UNCHANGED rvars
  BY <1>1 DEF rvars, AgentInv, LoopInv, CommitInv, DecidedInv, MayCommit, Sound, Chars, OfSize
<1>2. CASE IterationCeiling \/ ByteCap
  <2>1. /\ rstep = "turn" /\ rstep' = "harvest" /\ exit' \in {"IterationCap", "ByteCap"}
        /\ UNCHANGED <<pool, accumulated, iteration, left, stop, owed, turns, answer>>
    BY <1>2 DEF IterationCeiling, ByteCap, LeaveLoop, loopvars
  <2>2. LoopInv'
    BY <2>1 DEF AgentInv, LoopInv, Exits
  <2>3. CommitInv'
    BY <2>1, PoolGrows DEF AgentInv, CommitInv, MayCommit
  <2> QED
    BY <2>1, <2>2, <2>3 DEF AgentInv, DecidedInv
<1>3. CASE next_turn
  <2>1. /\ rstep = "turn" /\ iteration < max_iterations /\ turns' = turns + 1 /\ stop' = "none"
        /\ UNCHANGED <<pool, accumulated, iteration, answer>>
        /\ \/ /\ rstep' = "calls" /\ left' \in Nat /\ owed' = owed + left' /\ exit' = exit
           \/ /\ rstep' = "harvest" /\ exit' \in {"AgentDone", "LlmError"}
              /\ UNCHANGED <<left, owed>>
    BY <1>3, Numbers DEF next_turn, LeaveLoop, loopvars
  <2>2. LoopInv'
    BY <2>1 DEF AgentInv, LoopInv, Exits
  <2>3. CommitInv'
    BY <2>1, PoolGrows DEF AgentInv, CommitInv, MayCommit
  <2> QED
    BY <2>1, <2>2, <2>3 DEF AgentInv, DecidedInv
<1>4. CASE RefusedAdd \/ MalformedAdd \/ RefusedQuery \/ UnknownTool
  <2>1. Dispatching /\ CallAnswered /\ UNCHANGED <<accumulated, stop, pool>>
    BY <1>4 DEF RefusedAdd, MalformedAdd, RefusedQuery, UnknownTool, loopvars
  <2> QED
    BY <2>1, AgentCallStep DEF AgentInv, CommitInv
<1>5. CASE run_query_tool \/ FsTool
  <2>1. Dispatching /\ CallAnswered /\ UNCHANGED <<accumulated, stop>>
    BY <1>5 DEF run_query_tool, FsTool
  <2>2. \/ pool' = pool
        \/ \E n \in 0 .. 1, o \in {"query", "fs"} : pool' = pool \o [i \in 1 .. n |-> o]
    BY <1>5 DEF run_query_tool, FsTool, QueryCostsNothing, FoundQuery
  <2>3. pool' \in Seq({"base", "query", "fs"}) /\ Len(pool) <= Len(pool')
    BY <2>2, More DEF AgentInv, CommitInv
  <2> QED
    BY <2>1, <2>3, AgentCallStep
<1>6. CASE AddChunks
  <2>1. /\ rstep = "calls" /\ rstep' = "calls" /\ stop = "none"
        /\ left > 0 /\ left' = left - 1 /\ owed' = owed - 1
        /\ UNCHANGED <<pool, iteration, exit, turns, answer>>
        /\ stop' = BudgetStop(accumulated')
    BY <1>6 DEF AddChunks, Dispatching, CallAnswered
  <2>2. PICK items \in Items : accumulated' = handle_add_chunks(items)
    BY <1>6 DEF AddChunks
  <2>3. Len(pool) \in Nat /\ Sound(accumulated)
    BY DEF AgentInv, CommitInv
  <2>4. /\ Sound(accumulated') /\ Chars(accumulated) \in Nat /\ Chars(accumulated') \in Nat
        /\ Chars(accumulated') <= Chars(accumulated) + 4
    BY <2>2, <2>3, AddAll
  <2>5. LoopInv'
    BY <2>1 DEF AgentInv, LoopInv, BudgetStop, MidStops
  <2>6. max_chunk_chars > 0 => Chars(accumulated) < max_chunk_chars
    BY <2>1 DEF AgentInv, CommitInv, MayCommit
  <2>7. max_chunk_chars > 0 /\ stop' # "ChunkCharBudget" => Chars(accumulated') < max_chunk_chars
    BY <2>1, <2>4, Numbers DEF BudgetStop
  <2>8. Sound(accumulated)'
    BY <2>1, <2>4 DEF Sound
  <2>9. Chars(accumulated)' = Chars(accumulated')
    BY DEF Chars, OfSize
  <2>10. max_chunk_chars > 0 => Chars(accumulated') < max_chunk_chars + 4
    BY <2>4, <2>6, Numbers
  <2>11. CommitInv'
    BY <2>1, <2>7, <2>8, <2>9, <2>10 DEF AgentInv, CommitInv, MayCommit
  <2> QED
    BY <2>1, <2>5, <2>11 DEF AgentInv, DecidedInv
<1>7. CASE AfterCalls
  <2>1. /\ rstep = "calls" /\ left' = 0 /\ (left = 0 \/ stop # "none")
        /\ UNCHANGED <<pool, accumulated, stop, owed, turns, answer>>
        /\ \/ stop # "none" /\ rstep' = "harvest" /\ exit' = stop /\ iteration' = iteration
           \/ /\ stop = "none" /\ rstep' = "harvest" /\ exit' = "QueryBudget"
              /\ iteration' = iteration
           \/ stop = "none" /\ rstep' = "turn" /\ iteration' = iteration + 1 /\ exit' = exit
    BY <1>7 DEF AfterCalls, LeaveLoop, loopvars
  <2>2. LoopInv'
    BY <2>1 DEF AgentInv, LoopInv, Exits, MidStops
  <2>3. CommitInv'
    BY <2>1, PoolGrows DEF AgentInv, CommitInv, MayCommit, LoopInv
  <2> QED
    BY <2>1, <2>2, <2>3 DEF AgentInv, DecidedInv
<1>8. CASE NoHarvest
  <2>1. /\ rstep = "harvest" /\ rstep' = "decide"
        /\ UNCHANGED <<pool, accumulated, iteration, left, stop, exit, owed, turns, answer>>
    BY <1>8 DEF NoHarvest, loopvars
  <2>2. LoopInv'
    BY <2>1 DEF AgentInv, LoopInv
  <2>3. CommitInv'
    BY <2>1, PoolGrows DEF AgentInv, CommitInv, MayCommit
  <2> QED
    BY <2>1, <2>2, <2>3 DEF AgentInv, DecidedInv
<1>9. CASE Harvest
  <2>1. /\ rstep = "harvest" /\ rstep' = "decide" /\ turns' = turns + 1
        /\ exit \in {"ByteCap", "IterationCap"}
        /\ UNCHANGED <<pool, iteration, left, stop, exit, owed, answer>>
    BY <1>9 DEF Harvest, HarvestDue
  <2>2. accumulated' = accumulated \/ \E items \in Items : accumulated' = handle_add_chunks(items)
    BY <1>9 DEF Harvest
  <2>3. Len(pool) \in Nat /\ Sound(accumulated)
    BY DEF AgentInv, CommitInv
  <2>4. Chars(accumulated) \in Nat
    <3>1. <<>> \in Items
      BY DEF Items
    <3> QED
      BY <2>3, <3>1, AddAll
  <2>5. /\ Sound(accumulated') /\ Chars(accumulated') \in Nat
        /\ Chars(accumulated') <= Chars(accumulated) + 4
    BY <2>2, <2>3, <2>4, AddAll
  <2>6. LoopInv'
    BY <2>1 DEF AgentInv, LoopInv
  <2>7. Sound(accumulated)'
    BY <2>1, <2>5 DEF Sound
  <2>8. Chars(accumulated)' = Chars(accumulated')
    BY DEF Chars, OfSize
  <2>9. max_chunk_chars > 0 => Chars(accumulated) < max_chunk_chars
    BY <2>1 DEF AgentInv, CommitInv, MayCommit
  <2>10. max_chunk_chars > 0 => Chars(accumulated') < max_chunk_chars + 4
    BY <2>4, <2>5, <2>9, Numbers
  <2>11. CommitInv'
    BY <2>1, <2>7, <2>8, <2>10 DEF AgentInv, CommitInv, MayCommit
  <2> QED
    BY <2>1, <2>6, <2>11 DEF AgentInv, DecidedInv
<1>10. CASE decide_final
  <2>1. /\ rstep = "decide" /\ rstep' = "done"
        /\ UNCHANGED <<pool, accumulated, iteration, left, stop, exit, owed, turns>>
    BY <1>10 DEF decide_final, loopvars
  <2>2. LoopInv'
    BY <2>1 DEF AgentInv, LoopInv
  <2>3. CommitInv'
    BY <2>1, PoolGrows DEF AgentInv, CommitInv, MayCommit
  <2>4. Len(accumulated) >= 1 <=> accumulated # <<>>
    <3>1. accumulated \in Seq(Selections)
      BY DEF AgentInv, CommitInv, Sound
    <3> QED
      BY <3>1
  <2>5. DecidedInv'
    <3>1. CASE accumulated # <<>>
      BY <1>10, <2>1, <2>4, <3>1 DEF decide_final, decide_final_action, DecidedInv
    <3>2. CASE accumulated = <<>> /\ exit = "AgentDone"
      BY <1>10, <2>1, <2>4, <3>2 DEF decide_final, decide_final_action, DecidedInv
    <3>3. CASE accumulated = <<>> /\ exit # "AgentDone"
      BY <1>10, <2>1, <2>4, <3>3 DEF decide_final, decide_final_action, DecidedInv
    <3> QED
      BY <3>1, <3>2, <3>3
  <2> QED
    BY <2>2, <2>3, <2>5 DEF AgentInv
<1> QED
  BY <1>1, <1>2, <1>3, <1>4, <1>5, <1>6, <1>7, <1>8, <1>9, <1>10 DEF RNext

LEMMA AgentInvariant == RSpec => []AgentInv
<1>1. RInit => AgentInv
  <2> SUFFICES ASSUME RInit PROVE AgentInv
    OBVIOUS
  <2>1. pool \in Seq({"base", "query", "fs"}) /\ Len(pool) = BaseChunks
    <3>1. pool = [i \in 1 .. BaseChunks |-> "base"] /\ BaseChunks \in Nat
      BY Numbers DEF RInit
    <3> QED
      BY <3>1
  <2>2. Sound(accumulated)
    BY DEF RInit, Sound
  <2>3. Chars(accumulated) = 0
    <3>1. \A w : OfSize(accumulated, w) = {}
      BY DEF OfSize, RInit
    <3>2. Cardinality({}) = 0
      BY FS_EmptySet
    <3>3. Chars(accumulated) = 1 * Cardinality({}) + 2 * Cardinality({})
      BY <3>1 DEF Chars, PrunedChars, WholeChars
    <3> QED
      BY <3>2, <3>3
  <2>4. LoopInv
    BY MaxIterations DEF RInit, LoopInv, Exits
  <2>5. CommitInv
    BY <2>1, <2>2, <2>3, Numbers DEF CommitInv
  <2> QED
    BY <2>4, <2>5 DEF AgentInv, DecidedInv, RInit
<1>2. AgentInv /\ [RNext]_rvars => AgentInv'
  BY AgentStep
<1> QED
  BY <1>1, <1>2, PTL DEF RSpec

\* Places of a sequence without repetitions are as many as its elements.
LEMMA OnceEach ==
  ASSUME NEW S, NEW s \in Seq(S), \A i, j \in DOMAIN s : s[i] = s[j] => i = j
  PROVE  Cardinality(ToSet(s)) = Len(s)
<1> DEFINE D == DOMAIN s
           T == ToSet(s)
<1>1. D = 1 .. Len(s) /\ Len(s) \in Nat
  OBVIOUS
<1>2. IsFiniteSet(D) /\ Cardinality(D) = Len(s)
  <2>1. IsFiniteSet(1 .. Len(s)) /\ Cardinality(1 .. Len(s)) = Len(s)
    BY SMTT(60), <1>1, FS_Interval
  <2> QED
    BY <1>1, <2>1, Zenon
<1>3. s \in [D -> T] /\ \A t \in T : \E i \in D : s[i] = t
  BY DEF ToSet
<1>4. s \in Bijection(D, T)
  <2>1. s \in Injection(D, T)
    BY <1>3 DEF Injection, IsInjective
  <2>2. s \in Surjection(D, T)
    BY <1>3 DEF Surjection
  <2> QED
    BY <2>1, <2>2 DEF Bijection
<1> HIDE DEF D, T
<1>5. ExistsBijection(D, T)
  BY <1>4 DEF ExistsBijection
<1>6. Cardinality(D) = Cardinality(T)
  BY <1>2, <1>5, FS_Bijection
<1> QED
  BY <1>2, <1>6 DEF T

LEMMA AgentInvEnough ==
  ASSUME AgentInv
  PROVE  AgentLoopSound
<1>1. NoDanglingToolCalls
  BY DEF NoDanglingToolCalls, HarvestDue, AgentInv, LoopInv, MidStops
<1>2. max_chunk_chars > 0 => accumulated_chars < max_chunk_chars + 2 * WholeChars
  BY DEF accumulated_chars, AgentInv, CommitInv, WholeChars
<1>3. turns <= max_iterations + 1
  BY DEF AgentInv, LoopInv
<1>4. ASSUME rstep = "done"
      PROVE  /\ accumulated # <<>> => /\ ToSet(answer.indices) = Selected(accumulated)
                                      /\ ~answer.fallback
             /\ answer.indices = <<>> => exit = "AgentDone"
             /\ Cardinality(ToSet(answer.indices)) = Len(answer.indices)
             /\ \A i \in ToSet(answer.indices) : i < Len(pool)
  <2>1. /\ accumulated \in Seq(Selections) /\ \A i \in DOMAIN accumulated : accumulated[i][1] < Len(pool)
        /\ \A i, j \in DOMAIN accumulated : accumulated[i][1] = accumulated[j][1] => i = j
        /\ Len(pool) \in Nat /\ BaseChunks <= Len(pool)
    BY DEF AgentInv, CommitInv, Sound
  <2>2. CASE accumulated # <<>>
    <3> DEFINE s == [i \in DOMAIN accumulated |-> accumulated[i][1]]
    <3>1. answer.indices = s /\ answer.fallback = FALSE
      BY <1>4, <2>2 DEF AgentInv, DecidedInv
    <3>2. s \in Seq(Nat)
      <4>1. \A i \in DOMAIN accumulated : accumulated[i][1] \in Nat
        BY <2>1 DEF Selections
      <4> QED
        BY <2>1, <4>1
    <3>3. DOMAIN s = DOMAIN accumulated /\ \A i \in DOMAIN s : s[i] = accumulated[i][1]
      OBVIOUS
    <3> HIDE DEF s
    <3>4. Cardinality(ToSet(s)) = Len(s)
      BY <2>1, <3>2, <3>3, OnceEach
    <3>5. ToSet(s) = Selected(accumulated)
      BY <3>3 DEF ToSet, Selected
    <3>6. \A i \in ToSet(s) : i < Len(pool)
      BY <2>1, <3>3 DEF ToSet
    <3>7. s # <<>>
      BY <2>1, <2>2, <3>3
    <3> QED
      BY <3>1, <3>4, <3>5, <3>6, <3>7
  <2>3. CASE accumulated = <<>> /\ exit = "AgentDone"
    <3>1. answer.indices = <<>>
      BY <1>4, <2>3 DEF AgentInv, DecidedInv, NoAnswer
    <3>2. ToSet(<<>>) = {} /\ Len(<<>>) = 0 /\ Cardinality({}) = 0
      BY FS_EmptySet DEF ToSet
    <3> QED
      BY <2>3, <3>1, <3>2
  <2>4. CASE accumulated = <<>> /\ exit # "AgentDone"
    <3> DEFINE s == [i \in 1 .. BaseChunks |-> i - 1]
    <3>1. answer.indices = s
      BY <1>4, <2>4 DEF AgentInv, DecidedInv
    <3>2. s \in Seq(Nat) /\ DOMAIN s = 1 .. BaseChunks /\ \A i \in DOMAIN s : s[i] = i - 1
      BY Numbers
    <3> HIDE DEF s
    <3>3. Cardinality(ToSet(s)) = Len(s)
      <4>1. \A i, j \in DOMAIN s : s[i] = s[j] => i = j
        BY <3>2, Numbers
      <4> QED
        BY <3>2, <4>1, OnceEach
    <3>4. \A i \in ToSet(s) : i < Len(pool)
      BY <2>1, <3>2, Numbers DEF ToSet
    <3>5. s # <<>>
      <4>1. 1 \in DOMAIN s
        BY <3>2, Numbers
      <4> QED
        BY <4>1
    <3> QED
      BY <2>4, <3>1, <3>3, <3>4, <3>5
  <2> QED
    BY <2>2, <2>3, <2>4
<1> QED
  BY <1>1, <1>2, <1>3, <1>4 DEF AgentLoopSound, CommittedSurvives

(***************************************************************************)
(* run_agentic_loop and decide_final_action, for any pool, budgets and     *)
(* number of calls in a response: no turn is asked for while a call is     *)
(* unanswered, and what was committed is the answer, once each and in      *)
(* order, whichever of the six exits ends the loop.                        *)
(***************************************************************************)
THEOREM AgentLoopsSound == RSpec => []AgentLoopSound
<1>1. AgentInv => AgentLoopSound
  BY AgentInvEnough
<1> QED
  BY <1>1, AgentInvariant, PTL

\* An element is found at the rank of its position.
LEMMA PickedAt ==
    ASSUME NEW s, NEW I \in SUBSET Nat, IsFiniteSet(I), NEW i \in I, NEW k \in 1 .. Cardinality(I),
           Cardinality({j \in I : j < i}) + 1 = k
    PROVE  Picked(s, I)[k] = s[i]
<1> DEFINE at == CHOOSE x \in I : Cardinality({j \in I : j < x}) + 1 = k
<1>1. Picked(s, I)[k] = s[at]
  BY DEF Picked
<1>2. at \in I /\ Cardinality({j \in I : j < at}) + 1 = k
  OBVIOUS
<1> HIDE DEF at
<1>3. at = i
  BY <1>2, Ranks
<1> QED
  BY <1>1, <1>3

\* A position that is not chosen adds nothing, one that is adds its element at the end.
LEMMA PickedGrows ==
    ASSUME NEW S, NEW s \in Seq(S), NEW I \in SUBSET DOMAIN s, NEW e \in S
    PROVE  /\ Picked(Append(s, e), I) = Picked(s, I)
           /\ Picked(Append(s, e), I \cup {Len(s) + 1}) = Append(Picked(s, I), e)
<1> DEFINE t == Append(s, e)
           n == Len(s) + 1
           J == I \cup {n}
           m == Cardinality(I)
<1>1. /\ n \in Nat /\ I \in SUBSET Nat /\ \A i \in I : i < n /\ t[i] = s[i]
      /\ t[n] = e /\ t \in Seq(S) /\ J \in SUBSET DOMAIN t /\ J \in SUBSET Nat
      /\ I \in SUBSET DOMAIN t /\ n \notin I
  OBVIOUS
<1>2. IsFiniteSet(I) /\ m \in Nat /\ IsFiniteSet(J) /\ Cardinality(J) = m + 1
  <2>1. IsFiniteSet(1 .. Len(s)) /\ I \in SUBSET (1 .. Len(s))
    BY FS_Interval
  <2>2. IsFiniteSet(I) /\ m \in Nat
    BY <2>1, FS_Subset, FS_CardinalityType
  <2> QED
    BY <1>1, <2>2, FS_AddElement
<1>3. /\ Picked(s, I) \in Seq(S) /\ Len(Picked(s, I)) = m
      /\ Picked(t, I) \in Seq(S) /\ Len(Picked(t, I)) = m
      /\ Picked(t, J) \in Seq(S) /\ Len(Picked(t, J)) = m + 1
  BY <1>1, <1>2, PickedSeq
<1> HIDE DEF t, n, J, m
<1>4. ASSUME NEW k \in 1 .. m
      PROVE  Picked(t, I)[k] = Picked(s, I)[k] /\ Picked(t, J)[k] = Picked(s, I)[k]
  <2>1. PICK i \in I : Cardinality({j \in I : j < i}) + 1 = k
    BY <1>1, <1>2, PositionAt DEF m
  <2>2. Picked(t, I)[k] = t[i] /\ Picked(s, I)[k] = s[i]
    BY <1>1, <1>2, <2>1, PickedAt DEF m
  <2>3. {j \in J : j < i} = {j \in I : j < i}
    BY <1>1 DEF J
  <2>4. i \in J /\ k \in 1 .. Cardinality(J)
    BY <1>2 DEF J
  <2>5. Picked(t, J)[k] = t[i]
    BY <1>1, <1>2, <2>1, <2>3, <2>4, PickedAt
  <2> QED
    BY <1>1, <2>2, <2>5
<1>5. Picked(t, J)[m + 1] = e
  <2>1. {j \in J : j < n} = I
    BY <1>1 DEF J
  <2>2. Cardinality({j \in J : j < n}) = m
    BY <2>1 DEF m
  <2>3. n \in J /\ m + 1 \in 1 .. Cardinality(J) /\ Cardinality({j \in J : j < n}) + 1 = m + 1
    BY <1>2, <2>2 DEF J
  <2> QED
    BY <1>1, <1>2, <2>3, PickedAt
<1>6. Picked(t, I) = Picked(s, I)
  BY <1>3, <1>4
<1>7. Picked(t, J) = Append(Picked(s, I), e)
  BY <1>2, <1>3, <1>4, <1>5
<1> QED
  BY <1>6, <1>7 DEF t, J, n

-----------------------------------------------------------------------------
(* ModelClients: the frames of an answer and the calls they make           *)

Frames == {[t |-> "text"], [t |-> "junk"]} \cup [t : {"call"}, sig : {"none", "sig"}]
            \cup [t : {"name", "args"}, ix : 1 .. 2]
Accs == [id : Nat, named : BOOLEAN, args : Seq(Nat), sig : {"none", "sig"}]
Bodies == [started : BOOLEAN, text : Seq(Nat), accs : Seq(Accs)]

\* The frames of one kind for one call, as PiecesOf has them.
FramesAt(s, ix, t) == {n \in DOMAIN s : s[n].t = t /\ s[n].ix = ix}
Pieces(s, ix, t) == Picked([n \in DOMAIN s |-> n], FramesAt(s, ix, t))

\* What the frames s have made of an answer.
WholeCalls(accs, s) ==
    \A i \in DOMAIN accs : /\ accs[i].id \in DOMAIN s
                           /\ s[accs[i].id] = [t |-> "call", sig |-> accs[i].sig]
CallOf(s, ix) ==
    [id |-> IF Pieces(s, ix, "name") = <<>> THEN 0 ELSE Last(Pieces(s, ix, "name")),
     named |-> Pieces(s, ix, "name") # <<>>, args |-> Pieces(s, ix, "args"), sig |-> "none"]
PieceCalls(accs, s) ==
    /\ Len(accs) <= 2
    /\ \A ix \in DOMAIN accs : accs[ix] = CallOf(s, ix)
    /\ \A ix \in (1 .. 2) \ DOMAIN accs : Pieces(s, ix, "name") = <<>> /\ Pieces(s, ix, "args") = <<>>
Assembled(b, s) ==
    /\ s \in Seq(Frames) /\ b \in Bodies
    /\ IF Gemini THEN WholeCalls(b.accs, s) ELSE PieceCalls(b.accs, s)
    /\ ~ask.tools => b.accs = <<>>

LEMMA NoPieces == \A ix, t : Pieces(<<>>, ix, t) = <<>>
<1> SUFFICES ASSUME NEW ix, NEW t PROVE Pieces(<<>>, ix, t) = <<>>
  OBVIOUS
<1> DEFINE ids == [n \in DOMAIN <<>> |-> n]
<1>1. FramesAt(<<>>, ix, t) = {} /\ ids \in Seq(Nat) /\ {} \in SUBSET DOMAIN ids
  BY DEF FramesAt
<1>2. Picked(ids, {}) = <<>>
  BY <1>1, PickedSeq, Zenon
<1> QED
  BY <1>1, <1>2 DEF Pieces

LEMMA GrowsBy ==
  ASSUME NEW w \in Seq(Nat), NEW n \in Nat, Len(w) + 1 = n, NEW I \in SUBSET DOMAIN w
  PROVE  /\ Picked(Append(w, n), I) = Picked(w, I)
         /\ Picked(Append(w, n), I \cup {n}) = Append(Picked(w, I), n)
<1>1. /\ Picked(Append(w, n), I) = Picked(w, I)
      /\ Picked(Append(w, n), I \cup {Len(w) + 1}) = Append(Picked(w, I), n)
  <2>1. \A S : \A u \in Seq(S) : \A J \in SUBSET DOMAIN u : \A e \in S :
          /\ Picked(Append(u, e), J) = Picked(u, J)
          /\ Picked(Append(u, e), J \cup {Len(u) + 1}) = Append(Picked(u, J), e)
    BY PickedGrows
  <2>2. \A u \in Seq(Nat) : \A J \in SUBSET DOMAIN u : \A e \in Nat :
          /\ Picked(Append(u, e), J) = Picked(u, J)
          /\ Picked(Append(u, e), J \cup {Len(u) + 1}) = Append(Picked(u, J), e)
    BY <2>1, ZenonT(60)
  <2> QED
    BY <2>2, Zenon
<1> QED
  BY <1>1

LEMMA PiecesGrow ==
  ASSUME NEW s \in Seq(Frames), NEW f \in Frames, NEW ix, NEW t
  PROVE  /\ Pieces(s, ix, t) \in Seq(Nat)
         /\ Pieces(Append(s, f), ix, t) =
              IF f.t = t /\ f.ix = ix THEN Append(Pieces(s, ix, t), Len(s) + 1) ELSE Pieces(s, ix, t)
<1> DEFINE ids(w) == [n \in DOMAIN w |-> n]
           n == Len(s) + 1
           new == Append(s, f)
<1>1. /\ ids(s) \in Seq(Nat) /\ Len(ids(s)) = Len(s) /\ n \in Nat
      /\ ids(new) = Append(ids(s), n)
  <2>1. n \in Nat /\ DOMAIN s = 1 .. Len(s) /\ Len(s) \in Nat /\ DOMAIN new = 1 .. n
    OBVIOUS
  <2>2. ids(s) \in Seq(Nat) /\ Len(ids(s)) = Len(s)
    BY <2>1
  <2>3. ids(new) \in Seq(Nat) /\ Len(ids(new)) = n /\ \A i \in 1 .. n : ids(new)[i] = i
    BY <2>1
  <2>4. \A i \in 1 .. Len(s) : ids(s)[i] = i
    BY <2>1
  <2> HIDE DEF new, n
  <2>5. n = Len(s) + 1
    BY DEF n
  <2> HIDE DEF ids
  <2> QED
    BY <2>1, <2>2, <2>3, <2>4, <2>5
<1>2. FramesAt(s, ix, t) \in SUBSET DOMAIN ids(s)
  BY DEF FramesAt
<1>3. FramesAt(new, ix, t) = IF f.t = t /\ f.ix = ix THEN FramesAt(s, ix, t) \cup {n} ELSE FramesAt(s, ix, t)
  <2>1. DOMAIN new = DOMAIN s \cup {n} /\ new[n] = f /\ n \notin DOMAIN s
        /\ \A i \in DOMAIN s : new[i] = s[i]
    OBVIOUS
  <2> HIDE DEF new, n
  <2> QED
    BY <2>1 DEF FramesAt
<1> DEFINE w == ids(s)
<1> HIDE DEF ids, new
<1>4. /\ Picked(Append(w, n), FramesAt(s, ix, t)) = Picked(w, FramesAt(s, ix, t))
      /\ Picked(Append(w, n), FramesAt(s, ix, t) \cup {n}) = Append(Picked(w, FramesAt(s, ix, t)), n)
  <2>1. w \in Seq(Nat) /\ Len(w) + 1 = n /\ FramesAt(s, ix, t) \in SUBSET DOMAIN w
    BY <1>1, <1>2
  <2>2. FramesAt(s, ix, t) \in SUBSET DOMAIN w /\ n \in Nat
    BY <1>1, <1>2
  <2> HIDE DEF w, n
  <2> QED
    BY <2>1, <2>2, GrowsBy
<1>5. Pieces(s, ix, t) = Picked(w, FramesAt(s, ix, t)) /\ Pieces(new, ix, t) = Picked(ids(new), FramesAt(new, ix, t))
  BY DEF Pieces, ids
<1>6. Pieces(s, ix, t) \in Seq(Nat)
  BY <1>1, <1>2, <1>5, PickedSeq
<1> QED
  BY <1>1, <1>3, <1>4, <1>5, <1>6 DEF new

LEMMA FrameFacts ==
  ASSUME NEW f \in FrameKinds
  PROVE  /\ f \in Frames /\ f.t \in {"text", "junk", "call", "name", "args"}
         /\ f.t \in {"name", "args"} => ~Gemini /\ ask.tools /\ f.ix \in 1 .. 2
         /\ f.t = "call" => /\ Gemini /\ ask.tools /\ f.sig \in {"none", "sig"}
                            /\ f = [t |-> "call", sig |-> f.sig]
<1>1. f \in {[t |-> "text"], [t |-> "junk"]} \/ (ask.tools /\ Gemini /\ f \in [t : {"call"}, sig : {"none", "sig"}])
        \/ (ask.tools /\ ~Gemini /\ f \in [t : {"name", "args"}, ix : 1 .. 2])
  BY Zenon DEF FrameKinds
<1>2. CASE f \in {[t |-> "text"], [t |-> "junk"]}
  BY <1>2 DEF Frames
<1>3. CASE ask.tools /\ Gemini /\ f \in [t : {"call"}, sig : {"none", "sig"}]
  BY <1>3 DEF Frames
<1>4. CASE ask.tools /\ ~Gemini /\ f \in [t : {"name", "args"}, ix : 1 .. 2]
  BY <1>4 DEF Frames
<1> QED
  BY <1>1, <1>2, <1>3, <1>4

\* A piece changes the call it belongs to, and makes room for it.
CallAt(accs, i) == IF i \in DOMAIN accs THEN accs[i] ELSE EmptyAcc
Accumulates(accs, f, n, new) ==
    /\ new \in Seq(Accs) /\ Len(new) <= 2
    /\ DOMAIN new = DOMAIN accs \cup 1 .. f.ix
    /\ \A i \in DOMAIN new : i # f.ix => new[i] = CallAt(accs, i)
    /\ f.ix \in DOMAIN new /\ CallAt(accs, f.ix) \in Accs
    /\ f.t = "name" => new[f.ix] = [CallAt(accs, f.ix) EXCEPT !.named = TRUE, !.id = n]
    /\ f.t = "args" => new[f.ix] = [CallAt(accs, f.ix) EXCEPT !.args = Append(@, n)]

LEMMA AccumulateIs ==
  ASSUME NEW accs \in Seq(Accs), Len(accs) <= 2, NEW f, f.ix \in 1 .. 2, f.t \in {"name", "args"},
         NEW n \in Nat
  PROVE  Accumulates(accs, f, n, Accumulate(accs, f, n))
<1> DEFINE m == Max({f.ix, Len(accs)})
           old(i) == CallAt(accs, i)
           grown == [i \in 1 .. m |-> old(i)]
           ix == f.ix
           one == IF f.t = "name" THEN [old(ix) EXCEPT !.named = TRUE, !.id = n]
                  ELSE [old(ix) EXCEPT !.args = Append(@, n)]
           new == Accumulate(accs, f, n)
<1>1. m \in 1 .. 2 /\ m >= f.ix /\ m >= Len(accs) /\ (m = f.ix \/ m = Len(accs))
  <2>1. Len(accs) \in Nat /\ f.ix \in Nat
    OBVIOUS
  <2>2. CASE f.ix >= Len(accs)
    <3>1. m = f.ix
      BY <2>1, <2>2, MaxIs
    <3> QED
      BY <2>1, <2>2, <3>1
  <2>3. CASE f.ix < Len(accs)
    <3>1. m = Len(accs)
      BY <2>1, <2>3, MaxIs
    <3> QED
      BY <2>1, <2>3, <3>1
  <2> QED
    BY <2>1, <2>2, <2>3
<1>2. EmptyAcc \in Accs
  BY DEF EmptyAcc, Accs
<1>3. \A i \in 1 .. m : old(i) \in Accs
  BY <1>2 DEF CallAt
<1>4. one \in Accs
  <2>1. ix \in 1 .. m
    BY <1>1
  <2> DEFINE o == old(ix)
  <2>2. o \in Accs
    <3> HIDE DEF m, old, ix
    <3> QED
      BY <2>1, <1>3
  <2>3. one = IF f.t = "name" THEN [o EXCEPT !.named = TRUE, !.id = n]
              ELSE [o EXCEPT !.args = Append(@, n)]
    OBVIOUS
  <2> HIDE DEF o, one
  <2>4. o.id \in Nat /\ o.named \in BOOLEAN /\ o.args \in Seq(Nat) /\ o.sig \in {"none", "sig"}
        /\ o = [id |-> o.id, named |-> o.named, args |-> o.args, sig |-> o.sig]
    BY <2>2 DEF Accs
  <2>5. Append(o.args, n) \in Seq(Nat)
    BY <2>4
  <2>6. CASE f.t = "name"
    <3>1. one = [id |-> n, named |-> TRUE, args |-> o.args, sig |-> o.sig]
      BY <2>3, <2>4, <2>6
    <3> QED
      BY <2>4, <3>1 DEF Accs
  <2>7. CASE f.t # "name"
    <3>1. one = [id |-> o.id, named |-> o.named, args |-> Append(o.args, n), sig |-> o.sig]
      BY <2>3, <2>4, <2>7
    <3> QED
      BY <2>4, <2>5, <3>1 DEF Accs
  <2> QED
    BY <2>6, <2>7
<1>5. new = IF f.t = "name" THEN [grown EXCEPT ![ix].named = TRUE, ![ix].id = n]
            ELSE [grown EXCEPT ![ix].args = Append(@, n)]
  BY DEF Accumulate, CallAt
<1>6. ix \in 1 .. m /\ ix \in DOMAIN grown /\ DOMAIN grown = 1 .. m /\ m \in Nat
  BY <1>1
<1>7. /\ DOMAIN new = 1 .. m /\ new[ix] = one
      /\ \A i \in 1 .. m : i # ix => new[i] = old(i)
      /\ new = [i \in 1 .. m |-> new[i]]
  <2>1. grown[ix] = old(ix) /\ \A i \in 1 .. m : grown[i] = old(i)
    BY <1>6
  <2> HIDE DEF m, ix, grown, new, old
  <2> QED
    BY <1>5, <1>6, <2>1 DEF one
<1>8. new \in Seq(Accs) /\ Len(new) = m
  <2> HIDE DEF m, ix, grown, new, old, one
  <2>1. \A i \in 1 .. m : new[i] \in Accs
    BY <1>3, <1>4, <1>7
  <2> QED
    BY <1>6, <1>7, <2>1
<1>9. 1 .. m = DOMAIN accs \cup 1 .. ix
  BY <1>1
<1>10. old(ix) \in Accs
  BY <1>3, <1>6
<1> HIDE DEF m, grown, new, old
<1>11. /\ new \in Seq(Accs) /\ Len(new) <= 2 /\ DOMAIN new = DOMAIN accs \cup 1 .. ix
       /\ \A i \in DOMAIN new : i # ix => new[i] = old(i)
       /\ ix \in DOMAIN new /\ old(ix) \in Accs
       /\ f.t = "name" => new[ix] = [old(ix) EXCEPT !.named = TRUE, !.id = n]
       /\ f.t = "args" => new[ix] = [old(ix) EXCEPT !.args = Append(@, n)]
  BY <1>1, <1>6, <1>7, <1>8, <1>9, <1>10
<1> QED
  BY <1>11 DEF new, old, Accumulates

\* What a frame does to what was read, by its kind.
LEMMA BodyFields ==
  ASSUME NEW b \in Bodies
  PROVE  /\ b.text \in Seq(Nat) /\ b.started \in BOOLEAN /\ b.accs \in Seq(Accs)
         /\ b = [started |-> b.started, text |-> b.text, accs |-> b.accs]
BY DEF Bodies

LEMMA ReadText ==
  ASSUME NEW b \in Bodies, NEW f, NEW n \in Nat, f.t \in {"text", "junk"}
  PROVE  /\ ReadPart(b, f, n) \in Bodies /\ ReadPart(b, f, n).accs = b.accs
         /\ ReadPart(b, f, n).text = IF f.t = "text" THEN Append(b.text, n) ELSE b.text
         /\ ReadPart(b, f, n).started = b.started
<1>1. CASE f.t = "text"
  <2>1. ReadPart(b, f, n) = [started |-> b.started, text |-> Append(b.text, n), accs |-> b.accs]
    <3>1. ReadPart(b, f, n) = [b EXCEPT !.text = Append(@, n)]
      BY <1>1 DEF ReadPart
    <3> QED
      BY <3>1, BodyFields
  <2>2. Append(b.text, n) \in Seq(Nat)
    BY BodyFields
  <2>3. ReadPart(b, f, n) \in Bodies
    BY <2>1, <2>2, BodyFields DEF Bodies
  <2> QED
    BY <1>1, <2>1, <2>3
<1>2. CASE f.t = "junk"
  BY <1>2 DEF ReadPart
<1> QED
  BY <1>1, <1>2

CallsAfter(b, f, n) ==
    IF f.t = "call" THEN Append(b.accs, [id |-> n, named |-> TRUE, args |-> <<n>>, sig |-> f.sig])
    ELSE Accumulate(b.accs, f, n)

LEMMA ReadCall ==
  ASSUME NEW b \in Bodies, NEW f, NEW n, f.t \in {"call", "name", "args"},
         CallsAfter(b, f, n) \in Seq(Accs)
  PROVE  /\ ReadPart(b, f, n) \in Bodies /\ ReadPart(b, f, n).accs = CallsAfter(b, f, n)
         /\ ReadPart(b, f, n).text = b.text /\ ReadPart(b, f, n).started = b.started
<1> DEFINE accs == CallsAfter(b, f, n)
<1>1. ReadPart(b, f, n) = [b EXCEPT !.accs = accs]
  <2>1. CASE f.t = "call"
    BY <2>1 DEF ReadPart, CallsAfter
  <2>2. CASE f.t \in {"name", "args"}
    BY <2>2 DEF ReadPart, CallsAfter
  <2> QED
    BY <2>1, <2>2
<1> HIDE DEF accs
<1>2. ReadPart(b, f, n) = [started |-> b.started, text |-> b.text, accs |-> accs]
  BY <1>1, BodyFields
<1>3. ReadPart(b, f, n) \in Bodies
  BY <1>2, BodyFields DEF Bodies, accs
<1> QED
  BY <1>2, <1>3 DEF accs

LEMMA ReadGrows ==
  ASSUME NEW b, NEW s, Assembled(b, s), NEW f \in FrameKinds
  PROVE  Assembled(ReadPart(b, f, Len(s) + 1), Append(s, f))
<1> DEFINE n == Len(s) + 1
           new == ReadPart(b, f, n)
           t == Append(s, f)
<1>1. /\ s \in Seq(Frames) /\ b \in Bodies /\ b.accs \in Seq(Accs) /\ f \in Frames
      /\ n \in Nat /\ t \in Seq(Frames) /\ DOMAIN t = DOMAIN s \cup {n} /\ t[n] = f
      /\ n \notin DOMAIN s /\ \A i \in DOMAIN s : t[i] = s[i]
  BY FrameFacts DEF Assembled, Bodies
<1>2. \A ix, k : /\ Pieces(s, ix, k) \in Seq(Nat)
                 /\ Pieces(t, ix, k) = IF f.t = k /\ f.ix = ix THEN Append(Pieces(s, ix, k), n)
                                       ELSE Pieces(s, ix, k)
  BY <1>1, PiecesGrow
<1> HIDE DEF n, new, t
<1>3. CASE f.t \in {"text", "junk"}
  <2>1. new \in Bodies /\ new.accs = b.accs
    BY <1>1, <1>3, ReadText DEF new
  <2>2. \A ix, k : k \in {"name", "args"} => Pieces(t, ix, k) = Pieces(s, ix, k)
    BY <1>2, <1>3
  <2>3. \A ix : CallOf(t, ix) = CallOf(s, ix)
    BY <2>2 DEF CallOf
  <2>4. PieceCalls(b.accs, s) => PieceCalls(new.accs, t)
    BY <2>1, <2>2, <2>3 DEF PieceCalls
  <2>5. WholeCalls(b.accs, s) => WholeCalls(new.accs, t)
    BY <1>1, <2>1 DEF WholeCalls
  <2> QED
    BY <1>1, <2>1, <2>4, <2>5 DEF Assembled, new, t, n
<1>4. CASE f.t = "call"
  <2> DEFINE c == [id |-> n, named |-> TRUE, args |-> <<n>>, sig |-> f.sig]
  <2>1. /\ Gemini /\ ask.tools /\ f.sig \in {"none", "sig"} /\ f = [t |-> "call", sig |-> f.sig]
    BY <1>4, FrameFacts
  <2>3. c \in Accs /\ c.id = n /\ c.sig = f.sig
    <3>1. <<n>> \in Seq(Nat)
      BY <1>1
    <3> QED
      BY <1>1, <2>1, <3>1 DEF Accs
  <2> HIDE DEF c
  <2>4. Append(b.accs, c) \in Seq(Accs)
    BY <1>1, <2>3
  <2>5. new \in Bodies /\ new.accs = Append(b.accs, c)
    <3>1. CallsAfter(b, f, n) = Append(b.accs, c)
      BY <1>4 DEF c, CallsAfter
    <3>2. b \in Bodies /\ f.t \in {"call", "name", "args"} /\ CallsAfter(b, f, n) \in Seq(Accs)
      BY <1>1, <1>4, <2>4, <3>1
    <3>3. new \in Bodies /\ new.accs = CallsAfter(b, f, n)
      BY <3>2, ReadCall DEF new
    <3> QED
      BY <3>1, <3>3
  <2>6. WholeCalls(b.accs, s)
    BY <2>1 DEF Assembled
  <2>7. WholeCalls(new.accs, t)
    <3>1. ASSUME NEW i \in DOMAIN new.accs
          PROVE  new.accs[i].id \in DOMAIN t /\ t[new.accs[i].id] = [t |-> "call", sig |-> new.accs[i].sig]
      <4>1. CASE i \in DOMAIN b.accs
        <5>1. new.accs[i] = b.accs[i]
          BY <1>1, <2>3, <2>5, <4>1
        <5> QED
          BY <1>1, <2>6, <4>1, <5>1 DEF WholeCalls
      <4>2. CASE i \notin DOMAIN b.accs
        <5>1. new.accs[i] = c
          BY <1>1, <2>3, <2>5, <4>2
        <5> QED
          BY <1>1, <2>1, <2>3, <5>1
      <4> QED
        BY <4>1, <4>2
    <3> QED
      BY <3>1 DEF WholeCalls
  <2> QED
    BY <1>1, <2>1, <2>5, <2>7 DEF Assembled, new, t, n
<1>5. CASE f.t \in {"name", "args"}
  <2> DEFINE accs == b.accs
             a == Accumulate(accs, f, n)
             old(i) == CallAt(accs, i)
  <2>1. ~Gemini /\ ask.tools /\ f.ix \in 1 .. 2 /\ PieceCalls(accs, s) /\ Len(accs) <= 2
    BY <1>5, FrameFacts DEF Assembled, PieceCalls
  <2>2. /\ a \in Seq(Accs) /\ Len(a) <= 2
        /\ DOMAIN a = DOMAIN accs \cup 1 .. f.ix
        /\ \A i \in DOMAIN a : i # f.ix => a[i] = old(i)
        /\ f.ix \in DOMAIN a /\ old(f.ix) \in Accs
        /\ f.t = "name" => a[f.ix] = [old(f.ix) EXCEPT !.named = TRUE, !.id = n]
        /\ f.t = "args" => a[f.ix] = [old(f.ix) EXCEPT !.args = Append(@, n)]
    <3>1. accs \in Seq(Accs) /\ n \in Nat
      BY <1>1
    <3> HIDE DEF accs
    <3>2. Accumulates(accs, f, n, Accumulate(accs, f, n))
      BY <1>5, <2>1, <3>1, AccumulateIs
    <3> QED
      BY <3>2 DEF Accumulates
  <2>3. new \in Bodies /\ new.accs = a
    <3>1. CallsAfter(b, f, n) = a
      BY <1>5 DEF CallsAfter
    <3> HIDE DEF a, accs
    <3> QED
      BY <1>1, <1>5, <2>2, <3>1, ReadCall DEF new
  <2>4. \A i \in 1 .. 2 : old(i) = CallOf(s, i)
    BY <2>1 DEF PieceCalls, CallOf, EmptyAcc, CallAt
  <2> HIDE DEF accs, a
  <2>5. ASSUME NEW i \in DOMAIN a PROVE a[i] = CallOf(t, i)
    <3>0. a \in Seq(Accs) /\ Len(a) <= 2
      BY <2>2
    <3>1. i \in 1 .. 2 /\ old(i) = CallOf(s, i)
      BY <2>4, <3>0
    <3> HIDE DEF old
    <3>2. CASE i # f.ix
      <4>1. CallOf(t, i) = CallOf(s, i)
        BY <1>2, <3>2 DEF CallOf
      <4> QED
        BY <2>2, <3>1, <3>2, <4>1
    <3>3. CASE i = f.ix /\ f.t = "name"
      <4>1. /\ Pieces(t, i, "name") = Append(Pieces(s, i, "name"), n)
            /\ Pieces(t, i, "args") = Pieces(s, i, "args")
        BY <1>2, <3>3
      <4>2. Pieces(t, i, "name") # <<>> /\ Last(Pieces(t, i, "name")) = n
        BY <1>1, <1>2, <4>1 DEF Last
      <4>3. a[i] = [CallOf(s, i) EXCEPT !.named = TRUE, !.id = n]
        BY <2>2, <3>1, <3>3
      <4> QED
        BY <4>1, <4>2, <4>3 DEF CallOf
    <3>4. CASE i = f.ix /\ f.t = "args"
      <4>1. /\ Pieces(t, i, "args") = Append(Pieces(s, i, "args"), n)
            /\ Pieces(t, i, "name") = Pieces(s, i, "name")
        BY <1>2, <3>4
      <4>2. a[i] = [CallOf(s, i) EXCEPT !.args = Append(@, n)]
        BY <2>2, <3>1, <3>4
      <4> QED
        BY <4>1, <4>2 DEF CallOf
    <3> QED
      BY <1>5, <3>2, <3>3, <3>4
  <2>6. ASSUME NEW i \in (1 .. 2) \ DOMAIN a
        PROVE  Pieces(t, i, "name") = <<>> /\ Pieces(t, i, "args") = <<>>
    <3>1. i # f.ix /\ i \notin DOMAIN accs
      BY <2>2
    <3>2. Pieces(s, i, "name") = <<>> /\ Pieces(s, i, "args") = <<>>
      BY <2>1, <3>1 DEF PieceCalls
    <3> QED
      BY <1>2, <3>1, <3>2
  <2>7. PieceCalls(a, t)
    BY <2>2, <2>5, <2>6 DEF PieceCalls
  <2> QED
    BY <1>1, <2>1, <2>3, <2>7 DEF Assembled, new, t, n
<1> QED
  BY <1>3, <1>4, <1>5, FrameFacts

LEMMA NothingRead == Assembled(NoBody, <<>>)
<1>1. NoBody \in Bodies /\ NoBody.accs = <<>> /\ <<>> \in Seq(Frames)
  BY DEF NoBody, Bodies
<1>2. WholeCalls(<<>>, <<>>) /\ PieceCalls(<<>>, <<>>)
  BY NoPieces DEF WholeCalls, PieceCalls
<1> QED
  BY <1>1, <1>2 DEF Assembled

\* A whole answer has at most two parts here, so its fold is unrolled.
Reading(parts, g) ==
    [s \in SUBSET DOMAIN parts |->
       IF s = {} THEN NoBody ELSE ReadPart(g[s \ {Max(s)}], parts[Max(s)], Max(s))]

LEMMA ReadsUnfold ==
  ASSUME NEW parts, \E g : g = Reading(parts, g), \A s \in (SUBSET DOMAIN parts) \ {{}} : Max(s) \in DOMAIN parts
  PROVE  \E g : g = Reading(parts, g) /\ Whole(parts) = g[DOMAIN parts]
<1> DEFINE ids == [i \in DOMAIN parts |-> i]
           It == CHOOSE g : g = [s \in SUBSET DOMAIN ids |->
                   IF s = {} THEN NoBody
                   ELSE LET x == Max(s) IN ReadPart(g[s \ {x}], parts[ids[x]], ids[x])]
<1>1. Whole(parts) = It[DOMAIN ids]
  BY Zenon DEF Whole, FoldLeftDomain, FoldLeft, MapThenFoldSet
<1>2. DOMAIN ids = DOMAIN parts
  OBVIOUS
<1>3. ASSUME NEW g
      PROVE  [s \in SUBSET DOMAIN ids |->
                IF s = {} THEN NoBody
                ELSE LET x == Max(s) IN ReadPart(g[s \ {x}], parts[ids[x]], ids[x])] = Reading(parts, g)
  <2>1. ASSUME NEW s \in SUBSET DOMAIN parts, s # {} PROVE ids[Max(s)] = Max(s)
    BY <2>1
  <2> HIDE DEF ids
  <2> QED
    BY <1>2, <2>1 DEF Reading
<1>4. PICK g0 : g0 = Reading(parts, g0)
  OBVIOUS
<1>5. It = Reading(parts, It)
  <2>1. It = CHOOSE g : g = Reading(parts, g)
    BY <1>3, Zenon
  <2> HIDE DEF It
  <2> QED
    BY <1>4, <2>1, Zenon
<1> QED
  BY <1>1, <1>2, <1>5

LEMMA ReadsAt ==
  ASSUME NEW parts, NEW g, g = Reading(parts, g), NEW s \in SUBSET DOMAIN parts, s # {},
         NEW m, m = Max(s)
  PROVE  g[s] = ReadPart(g[s \ {m}], parts[m], m)
<1> DEFINE h(x) == IF x = {} THEN NoBody ELSE ReadPart(g[x \ {Max(x)}], parts[Max(x)], Max(x))
<1>1. g = [x \in SUBSET DOMAIN parts |-> h(x)]
  BY Zenon DEF Reading
<1>2. g[s] = h(s)
  <2> HIDE DEF h
  <2> QED
    BY <1>1
<1> QED
  BY <1>2

LEMMA WholeIs ==
  /\ Whole(<<>>) = NoBody
  /\ \A a : Whole(<<a>>) = ReadPart(NoBody, a, 1)
  /\ \A a, b : Whole(<<a, b>>) = ReadPart(ReadPart(NoBody, a, 1), b, 2)
<1>0. Max({1}) = 1 /\ Max({2}) = 2 /\ Max({1, 2}) = 2
  BY MaxIs
<1>1. Whole(<<>>) = NoBody
  <2> DEFINE parts == <<>>
             w == [s \in {{}} |-> NoBody]
  <2>1. DOMAIN parts = {} /\ SUBSET DOMAIN parts = {{}}
    OBVIOUS
  <2> HIDE DEF parts
  <2>2. w = Reading(parts, w)
    BY <2>1 DEF Reading
  <2>3. PICK g : g = Reading(parts, g) /\ Whole(parts) = g[DOMAIN parts]
    BY <2>1, <2>2, ReadsUnfold
  <2>4. g[{}] = NoBody
    BY <2>1, <2>3 DEF Reading
  <2> QED
    BY <2>1, <2>3, <2>4 DEF parts
<1>2. ASSUME NEW a PROVE Whole(<<a>>) = ReadPart(NoBody, a, 1)
  <2> DEFINE parts == <<a>>
             w == [s \in {{}, {1}} |-> IF s = {} THEN NoBody ELSE ReadPart(NoBody, a, 1)]
  <2>1. DOMAIN parts = {1} /\ SUBSET DOMAIN parts = {{}, {1}} /\ parts[1] = a
    OBVIOUS
  <2> HIDE DEF parts
  <2>2. w = Reading(parts, w)
    BY <2>1, <1>0 DEF Reading
  <2> HIDE DEF w
  <2>3. PICK g : g = Reading(parts, g) /\ Whole(parts) = g[DOMAIN parts]
    <3>1. \A s \in (SUBSET DOMAIN parts) \ {{}} : Max(s) \in DOMAIN parts
      BY <2>1, <1>0
    <3> QED
      BY <2>2, <3>1, ReadsUnfold
  <2>4. g[{}] = NoBody
    BY <2>1, <2>3 DEF Reading
  <2>5. g[{1}] = ReadPart(g[{1} \ {1}], a, 1)
    <3>1. {1} \in SUBSET DOMAIN parts /\ {1} # {} /\ 1 = Max({1})
      BY <2>1, <1>0
    <3>2. g[{1}] = ReadPart(g[{1} \ {1}], parts[1], 1)
      BY <2>3, <3>1, ReadsAt
    <3> QED
      BY <2>1, <3>2
  <2>6. {1} \ {1} = {}
    OBVIOUS
  <2> QED
    BY <2>1, <2>3, <2>4, <2>5, <2>6 DEF parts
<1>3. ASSUME NEW a, NEW b PROVE Whole(<<a, b>>) = ReadPart(ReadPart(NoBody, a, 1), b, 2)
  <2> DEFINE parts == <<a, b>>
             w == [s \in {{}, {1}, {2}, {1, 2}} |->
                     CASE s = {} -> NoBody
                       [] s = {1} -> ReadPart(NoBody, a, 1)
                       [] s = {2} -> ReadPart(NoBody, b, 2)
                       [] OTHER -> ReadPart(ReadPart(NoBody, a, 1), b, 2)]
  <2>1. /\ DOMAIN parts = {1, 2} /\ SUBSET DOMAIN parts = {{}, {1}, {2}, {1, 2}}
        /\ parts[1] = a /\ parts[2] = b
    OBVIOUS
  <2> HIDE DEF parts
  <2>2. {1} \ {1} = {} /\ {2} \ {2} = {} /\ {1, 2} \ {2} = {1}
    OBVIOUS
  <2>3. w = Reading(parts, w)
    BY <2>1, <2>2, <1>0 DEF Reading
  <2> HIDE DEF w
  <2>4. PICK g : g = Reading(parts, g) /\ Whole(parts) = g[DOMAIN parts]
    <3>1. \A s \in (SUBSET DOMAIN parts) \ {{}} : Max(s) \in DOMAIN parts
      BY <2>1, <1>0
    <3> QED
      BY <2>3, <3>1, ReadsUnfold
  <2>5. g[{}] = NoBody
    BY <2>1, <2>4 DEF Reading
  <2>6. g[{1}] = ReadPart(g[{1} \ {1}], a, 1)
    <3>1. {1} \in SUBSET DOMAIN parts /\ {1} # {} /\ 1 = Max({1})
      BY <2>1, <1>0
    <3>2. g[{1}] = ReadPart(g[{1} \ {1}], parts[1], 1)
      BY <2>4, <3>1, ReadsAt
    <3> QED
      BY <2>1, <3>2
  <2>7. g[{1, 2}] = ReadPart(g[{1, 2} \ {2}], b, 2)
    <3>1. {1, 2} \in SUBSET DOMAIN parts /\ {1, 2} # {} /\ 2 = Max({1, 2})
      BY <2>1, <1>0
    <3>2. g[{1, 2}] = ReadPart(g[{1, 2} \ {2}], parts[2], 2)
      BY <2>4, <3>1, ReadsAt
    <3> QED
      BY <2>1, <3>2
  <2> QED
    BY <2>1, <2>2, <2>4, <2>5, <2>6, <2>7 DEF parts
<1> QED
  BY <1>1, <1>2, <1>3

LEMMA AppendAt ==
  ASSUME NEW S, NEW u \in Seq(S), NEW y \in S
  PROVE  /\ Append(u, y) \in Seq(S) /\ Len(Append(u, y)) = Len(u) + 1
         /\ Append(u, y)[Len(u) + 1] = y
         /\ \A i \in 1 .. Len(u) : Append(u, y)[i] = u[i]
<1>1. Append(u, y) \in Seq(S) /\ Len(Append(u, y)) = Len(u) + 1
  OBVIOUS
<1>2. Append(u, y)[Len(u) + 1] = y
  OBVIOUS
<1>3. \A i \in 1 .. Len(u) : Append(u, y)[i] = u[i]
  OBVIOUS
<1> QED
  BY <1>1, <1>2, <1>3

\* What Append(u, y) is, named: cited so, it is not rewritten where u is short.
Appends(S, u, y, w) ==
    /\ w \in Seq(S) /\ Len(w) = Len(u) + 1 /\ w[Len(u) + 1] = y
    /\ \A i \in 1 .. Len(u) : w[i] = u[i]

LEMMA AppendIsNamed ==
  ASSUME NEW S, NEW u \in Seq(S), NEW y \in S
  PROVE  Appends(S, u, y, Append(u, y))
BY AppendAt DEF Appends

LEMMA AppendTwo ==
  ASSUME NEW S, NEW x \in S, NEW y \in S
  PROVE  /\ Append(<<>>, x) = <<x>> /\ Append(<<x>>, y) = <<x, y>>
         /\ Len(<<>>) = 0 /\ Len(<<x>>) = 1
<1> DEFINE u == <<x>>
           v == <<x, y>>
           w == Append(u, y)
<1>1. u \in Seq(S) /\ Len(u) = 1 /\ u[1] = x
  OBVIOUS
<1>2. v \in Seq(S) /\ Len(v) = 2 /\ v[1] = x /\ v[2] = y
  OBVIOUS
<1>3. Append(<<>>, x) = <<x>> /\ Len(<<>>) = 0 /\ Len(<<x>>) = 1
  OBVIOUS
<1> HIDE DEF u, v
<1>4. Appends(S, u, y, w)
  BY <1>1, AppendIsNamed
<1> HIDE DEF w
<1>5. w \in Seq(S) /\ Len(w) = 2 /\ w[1] = u[1] /\ w[2] = y
  BY <1>1, <1>4 DEF Appends
<1>6. \A i \in 1 .. 2 : i = 1 \/ i = 2
  OBVIOUS
<1>7. \A i \in 1 .. 2 : w[i] = v[i]
  BY <1>1, <1>2, <1>5, <1>6
<1>8. w = v
  BY <1>2, <1>5, <1>7
<1> QED
  BY <1>3, <1>8 DEF u, v, w

LEMMA WholeAssembled ==
  ASSUME NEW parts \in SeqOf(FrameKinds, 2)
  PROVE  Assembled(Whole(parts), parts)
<1>1. parts \in [1 .. 0 -> FrameKinds] \/ parts \in [1 .. 1 -> FrameKinds] \/ parts \in [1 .. 2 -> FrameKinds]
  BY DEF SeqOf
<1>2. CASE parts \in [1 .. 0 -> FrameKinds]
  <2>1. parts = <<>>
    BY <1>2
  <2> QED
    BY <2>1, WholeIs, NothingRead
<1>3. CASE parts \in [1 .. 1 -> FrameKinds]
  <2> DEFINE a == parts[1]
  <2>1. parts = <<a>> /\ a \in FrameKinds /\ Append(<<>>, a) = <<a>> /\ Len(<<>>) = 0
    BY <1>3
  <2> HIDE DEF a
  <2>2. Assembled(ReadPart(NoBody, a, Len(<<>>) + 1), Append(<<>>, a))
    BY <2>1, NothingRead, ReadGrows
  <2> QED
    BY <2>1, <2>2, WholeIs
<1>4. CASE parts \in [1 .. 2 -> FrameKinds]
  <2> DEFINE a == parts[1]
             b == parts[2]
             one == ReadPart(NoBody, a, 1)
  <2>0. parts = <<a, b>> /\ a \in FrameKinds /\ b \in FrameKinds
    BY <1>4
  <2>1. /\ parts = <<a, b>> /\ a \in FrameKinds /\ b \in FrameKinds
        /\ Append(<<>>, a) = <<a>> /\ Len(<<>>) = 0 /\ Append(<<a>>, b) = <<a, b>> /\ Len(<<a>>) = 1
    <3>1. \A x, y \in FrameKinds : /\ Append(<<>>, x) = <<x>> /\ Append(<<x>>, y) = <<x, y>>
                                  /\ Len(<<>>) = 0 /\ Len(<<x>>) = 1
      BY AppendTwo
    <3> HIDE DEF a, b
    <3> QED
      BY <2>0, <3>1, Zenon
  <2>2. Whole(parts) = ReadPart(one, b, 2)
    BY <2>1, WholeIs
  <2> HIDE DEF a, b
  <2>3. Assembled(ReadPart(NoBody, a, Len(<<>>) + 1), Append(<<>>, a))
    BY <2>1, NothingRead, ReadGrows
  <2>4. Assembled(one, <<a>>)
    BY <2>1, <2>3
  <2> HIDE DEF one
  <2>5. Assembled(ReadPart(one, b, Len(<<a>>) + 1), Append(<<a>>, b))
    BY <2>1, <2>4, ReadGrows
  <2>6. Len(<<a>>) + 1 = 2
    BY <2>1
  <2> QED
    BY <2>1, <2>2, <2>5, <2>6
<1> QED
  BY <1>1, <1>2, <1>3, <1>4

\* The calls of an answer are those its frames make, as CallsWhole has it.
CallsOf(s, calls) ==
    IF Gemini THEN \A a \in Range(calls) : s[a.id] = [t |-> "call", sig |-> a.sig]
    ELSE LET named == {ix \in 1 .. 2 : Pieces(s, ix, "name") # <<>>}
             order == Picked(<<1, 2>>, named)
         IN  calls = [i \in DOMAIN order |->
                [id |-> Last(Pieces(s, order[i], "name")), named |-> TRUE,
                 args |-> Pieces(s, order[i], "args"), sig |-> "none"]]

LEMMA TurnCalls ==
  ASSUME NEW b, NEW s, Assembled(b, s)
  PROVE  /\ ToolCallsOf(b.accs) \in Seq(Accs) /\ CallsOf(s, ToolCallsOf(b.accs))
         /\ ToolCallsOf(b.accs) # <<>> => ask.tools
         /\ ~Gemini => \A i \in DOMAIN ToolCallsOf(b.accs) : ToolCallsOf(b.accs)[i].sig = "none"
<1> DEFINE accs == b.accs
           I == {i \in DOMAIN accs : accs[i].named}
           c == ToolCallsOf(accs)
<1>1. accs \in Seq(Accs) /\ I \in SUBSET DOMAIN accs /\ c = Picked(accs, I)
  BY DEF Assembled, Bodies, ToolCallsOf
<1> HIDE DEF c, I
<1>2. /\ c \in Seq(Accs) /\ Cardinality(I) \in Nat /\ Len(c) = Cardinality(I)
      /\ c = <<>> <=> I = {}
      /\ \A k \in DOMAIN c : \E i \in I : c[k] = accs[i]
  BY <1>1, PickedSeq
<1>3. c # <<>> => ask.tools
  BY <1>1, <1>2 DEF Assembled
<1>4. CASE Gemini
  <2>1. WholeCalls(accs, s)
    BY <1>4 DEF Assembled
  <2>2. ASSUME NEW a \in Range(c) PROVE s[a.id] = [t |-> "call", sig |-> a.sig]
    <3>1. PICK k \in DOMAIN c : a = c[k]
      BY DEF Range
    <3>2. PICK i \in I : c[k] = accs[i]
      BY <1>2
    <3> QED
      BY <1>1, <2>1, <3>1, <3>2 DEF WholeCalls
  <2> QED
    BY <1>2, <1>3, <1>4, <2>2 DEF CallsOf, c
<1>5. CASE ~Gemini
  <2> DEFINE named == {ix \in 1 .. 2 : Pieces(s, ix, "name") # <<>>}
             order == Picked(<<1, 2>>, named)
             call(ix) == [id |-> Last(Pieces(s, ix, "name")), named |-> TRUE,
                          args |-> Pieces(s, ix, "args"), sig |-> "none"]
  <2>1. PieceCalls(accs, s)
    BY <1>5 DEF Assembled
  <2>2. DOMAIN accs \in SUBSET (1 .. 2)
    BY <1>1, <2>1 DEF PieceCalls
  <2>3. named = I
    <3>1. \A ix \in DOMAIN accs : accs[ix].named <=> Pieces(s, ix, "name") # <<>>
      <4>1. \A ix : CallOf(s, ix).named <=> Pieces(s, ix, "name") # <<>>
        BY Zenon DEF CallOf
      <4>2. \A ix \in DOMAIN accs : accs[ix] = CallOf(s, ix)
        BY <2>1, Zenon DEF PieceCalls
      <4> QED
        BY <4>1, <4>2, Zenon
    <3>2. \A ix \in (1 .. 2) \ DOMAIN accs : Pieces(s, ix, "name") = <<>>
      BY <2>1 DEF PieceCalls
    <3> QED
      BY <2>2, <3>1, <3>2 DEF I
  <2>4. \A ix \in I : accs[ix] = call(ix)
    <3>1. ASSUME NEW ix \in I PROVE accs[ix] = call(ix)
      <4>1. Pieces(s, ix, "name") # <<>> /\ accs[ix] = CallOf(s, ix)
        BY <1>1, <2>1, <2>3 DEF PieceCalls
      <4> QED
        BY <4>1 DEF CallOf
    <3> QED
      BY <3>1
  <2>5. /\ I \in SUBSET Nat /\ IsFiniteSet(I) /\ DOMAIN order = 1 .. Cardinality(I)
        /\ order = Picked(<<1, 2>>, I)
    <3>1. <<1, 2>> \in Seq(Nat) /\ DOMAIN <<1, 2>> = 1 .. 2 /\ I \in SUBSET DOMAIN <<1, 2>>
      BY <1>1, <2>2
    <3>2. DOMAIN Picked(<<1, 2>>, I) = 1 .. Cardinality(I) /\ IsFiniteSet(I)
      BY <3>1, PickedIs
    <3> QED
      BY <2>3, <3>1, <3>2
  <2> HIDE DEF named, order, call
  <2>6. ASSUME NEW k \in 1 .. Cardinality(I)
        PROVE  order[k] \in I /\ c[k] = accs[order[k]]
    <3>1. PICK i \in I : Cardinality({j \in I : j < i}) + 1 = k
      BY <2>5, PositionAt
    <3>2. c[k] = accs[i]
      BY <1>1, <2>5, <3>1, PickedAt
    <3>3. Picked(<<1, 2>>, I)[k] = <<1, 2>>[i]
      BY <2>5, <3>1, PickedAt
    <3>4. <<1, 2>>[i] = i
      BY <1>1, <2>2
    <3> QED
      BY <2>5, <3>2, <3>3, <3>4
  <2>7. c = [i \in DOMAIN order |-> call(order[i])]
    <3>1. DOMAIN c = 1 .. Cardinality(I) /\ c = [k \in DOMAIN c |-> c[k]]
      BY <1>2
    <3> QED
      BY <2>4, <2>5, <2>6, <3>1
  <2>8. CallsOf(s, c)
    BY <1>5, <2>7 DEF CallsOf, named, order, call
  <2>9. \A k \in DOMAIN c : c[k].sig = "none"
    <3>1. DOMAIN c = 1 .. Cardinality(I)
      BY <1>2
    <3>2. \A ix : call(ix).sig = "none"
      BY DEF call
    <3> QED
      BY <2>4, <2>6, <3>1, <3>2
  <2> QED
    BY <1>2, <1>3, <2>8, <2>9 DEF c
<1> QED
  BY <1>4, <1>5

-----------------------------------------------------------------------------
(* ModelClients: what is put on the wire                                   *)

\* Three sequences flattened.
Flattening(s, g) == [i \in 1 .. Len(s) |-> IF i = 1 THEN s[i] ELSE g[i - 1] \o s[i]]

LEMMA FlattenThree ==
  ASSUME NEW s, Len(s) = 3
  PROVE  FlattenSeq(s) = (s[1] \o s[2]) \o s[3]
<1> DEFINE a == s[1]
           b == s[2]
           c == s[3]
           It == CHOOSE g : g = [i \in 1 .. Len(s) |-> IF i = 1 THEN s[i] ELSE g[i - 1] \o s[i]]
           w == [i \in 1 .. 3 |-> IF i = 1 THEN a ELSE IF i = 2 THEN a \o b ELSE (a \o b) \o c]
<1>1. Len(s) = 3 /\ s[1] = a /\ s[2] = b /\ s[3] = c
  OBVIOUS
<1> HIDE DEF a, b, c
<1>2. It = CHOOSE g : g = Flattening(s, g)
  BY Zenon DEF Flattening
<1> HIDE DEF It
<1>3. FlattenSeq(s) = It[Len(s)]
  <2>1. Len(s) # 0
    BY <1>1
  <2> QED
    BY <2>1, Zenon DEF FlattenSeq, It
<1>4. w = Flattening(s, w)
  <2>1. \A i \in 1 .. 3 : w[i] = IF i = 1 THEN s[i] ELSE w[i - 1] \o s[i]
    <3>1. w[1] = s[1] /\ w[2] = w[1] \o s[2] /\ w[3] = w[2] \o s[3]
      BY <1>1
    <3>2. 2 - 1 = 1 /\ 3 - 1 = 2 /\ \A i \in 1 .. 3 : i = 1 \/ i = 2 \/ i = 3
      OBVIOUS
    <3> HIDE DEF w
    <3> SUFFICES ASSUME NEW i \in 1 .. 3
                 PROVE  w[i] = IF i = 1 THEN s[i] ELSE w[i - 1] \o s[i]
      OBVIOUS
    <3>3. CASE i = 1
      BY <3>1, <3>3
    <3>4. CASE i = 2
      BY <3>1, <3>2, <3>4
    <3>5. CASE i = 3
      BY <3>1, <3>2, <3>5
    <3> QED
      BY <3>2, <3>3, <3>4, <3>5
  <2> QED
    BY <1>1, <2>1 DEF Flattening
<1> HIDE DEF w
<1>5. It = Flattening(s, It)
  BY <1>2, <1>4, Zenon
<1>6. It[1] = s[1] /\ It[2] = It[1] \o s[2] /\ It[3] = It[2] \o s[3]
  <2>1. It = [i \in 1 .. 3 |-> IF i = 1 THEN s[i] ELSE It[i - 1] \o s[i]]
    BY <1>1, <1>5 DEF Flattening
  <2> DEFINE step(i) == IF i = 1 THEN s[i] ELSE It[i - 1] \o s[i]
  <2>2. \A i \in 1 .. 3 : It[i] = step(i)
    BY <2>1
  <2>2a. step(1) = s[1] /\ step(2) = It[2 - 1] \o s[2] /\ step(3) = It[3 - 1] \o s[3]
    OBVIOUS
  <2>2b. 1 \in 1 .. 3 /\ 2 \in 1 .. 3 /\ 3 \in 1 .. 3
    OBVIOUS
  <2> HIDE DEF step
  <2>3. It[1] = s[1]
    BY <2>2, <2>2a, <2>2b
  <2>4. It[2] = It[2 - 1] \o s[2]
    BY <2>2, <2>2a, <2>2b, Zenon
  <2>5. It[3] = It[3 - 1] \o s[3]
    BY <2>2, <2>2a, <2>2b, Zenon
  <2>6. 2 - 1 = 1 /\ 3 - 1 = 2
    OBVIOUS
  <2> QED
    BY <2>3, <2>4, <2>5, <2>6
<1> QED
  BY <1>1, <1>3, <1>6

\* The messages of a history of one turn, with its calls and their results.
User == [role |-> "user"]
Called(calls) == [role |-> "calls", calls |-> calls]
Results(calls) == [role |-> "results", ids |-> [i \in DOMAIN calls |-> calls[i].id]]
OneTurn(calls) == <<User, Called(calls), Results(calls)>>

LEMMA ReplayedGemini ==
  ASSUME NEW calls \in Seq(Accs)
  PROVE  LET m == build_tool_request(OneTurn(calls))
         IN  /\ DOMAIN m = 1 .. 3 /\ m[2] = [role |-> "assistant", calls |-> calls]
             /\ m[3] = [role |-> "responses", ids |-> [i \in DOMAIN calls |-> calls[i].id]]
<1> DEFINE h == OneTurn(calls)
<1>1. DOMAIN h = 1 .. 3 /\ h[2] = Called(calls) /\ h[3] = Results(calls)
  BY DEF OneTurn
<1>2. Called(calls).role = "calls" /\ Called(calls).calls = calls
  BY DEF Called
<1>3. Results(calls).role = "results" /\ Results(calls).ids = [i \in DOMAIN calls |-> calls[i].id]
  BY DEF Results
<1> HIDE DEF h
<1>4. DOMAIN build_tool_request(h) = 1 .. 3
  BY <1>1 DEF build_tool_request
<1>5. build_tool_request(h)[2] = [role |-> "assistant", calls |-> calls]
  BY <1>1, <1>2 DEF build_tool_request
<1>6. build_tool_request(h)[3] = [role |-> "responses", ids |-> [i \in DOMAIN calls |-> calls[i].id]]
  BY <1>1, <1>3 DEF build_tool_request
<1> QED
  BY <1>4, <1>5, <1>6 DEF h

LEMMA ConcatIs ==
  ASSUME NEW S, NEW u \in Seq(S), NEW v \in Seq(S)
  PROVE  /\ u \o v \in Seq(S) /\ Len(u \o v) = Len(u) + Len(v)
         /\ \A i \in 1 .. Len(u) : (u \o v)[i] = u[i]
         /\ \A i \in 1 .. Len(v) : (u \o v)[i + Len(u)] = v[i]
<1>1. u \o v \in Seq(S) /\ Len(u \o v) = Len(u) + Len(v)
  OBVIOUS
<1>2. \A i \in 1 .. Len(u) : (u \o v)[i] = u[i]
  OBVIOUS
<1>3. \A i \in 1 .. Len(v) : (u \o v)[i + Len(u)] = v[i]
  OBVIOUS
<1> QED
  BY <1>1, <1>2, <1>3

LEMMA ReplayedOpenAi ==
  ASSUME NEW calls \in Seq(Accs), \A i \in DOMAIN calls : calls[i].sig = "none"
  PROVE  LET m == build_messages(OneTurn(calls))
         IN  /\ 2 \in DOMAIN m /\ m[2] = [role |-> "assistant", calls |-> calls]
             /\ \A j \in DOMAIN calls :
                  j + 2 \in DOMAIN m /\ m[j + 2] = [role |-> "tool", id |-> calls[j].id]
<1> DEFINE h == OneTurn(calls)
           echo == [role |-> "assistant", calls |-> [j \in DOMAIN calls |-> [calls[j] EXCEPT !.sig = "none"]]]
           ids == [i \in DOMAIN calls |-> calls[i].id]
           tools == [j \in DOMAIN ids |-> [role |-> "tool", id |-> ids[j]]]
<1>1. /\ Len(h) = 3 /\ DOMAIN h = 1 .. 3 /\ h[1] = User /\ h[2] = Called(calls) /\ h[3] = Results(calls)
  BY DEF OneTurn
<1>2. Called(calls).role = "calls" /\ Called(calls).calls = calls
  BY DEF Called
<1>3. Results(calls).role = "results" /\ Results(calls).ids = ids
  BY DEF Results
<1>4. User.role = "user"
  BY DEF User
<1>5. build_messages(h) = FlattenSeq(<<<<User>>, <<echo>>, tools>>)
  <2> DEFINE part(i) ==
        CASE h[i].role = "results" -> [j \in DOMAIN h[i].ids |-> [role |-> "tool", id |-> h[i].ids[j]]]
          [] h[i].role = "calls"   ->
               <<[role |-> "assistant", calls |-> [j \in DOMAIN h[i].calls |-> [h[i].calls[j] EXCEPT !.sig = "none"]]]>>
          [] OTHER -> <<h[i]>>
  <2>1. build_messages(h) = FlattenSeq([i \in DOMAIN h |-> part(i)])
    BY Zenon DEF build_messages
  <2> HIDE DEF h
  <2>2. part(1) = <<User>>
    BY <1>1, <1>4
  <2>3. part(2) = <<echo>>
    BY <1>1, <1>2
  <2>4. part(3) = tools
    BY <1>1, <1>3
  <2> HIDE DEF part
  <2>5. [i \in 1 .. 3 |-> part(i)] = <<part(1), part(2), part(3)>>
    OBVIOUS
  <2> QED
    BY <1>1, <2>1, <2>2, <2>3, <2>4, <2>5
<1>6. build_messages(h) = (<<User>> \o <<echo>>) \o tools
  <2> HIDE DEF h, echo, tools
  <2> QED
    <3> DEFINE parts == <<<<User>>, <<echo>>, tools>>
    <3>1. Len(parts) = 3 /\ parts[1] = <<User>> /\ parts[2] = <<echo>> /\ parts[3] = tools
      OBVIOUS
    <3>2. build_messages(h) = FlattenSeq(parts)
      BY <1>5
    <3> HIDE DEF parts
    <3> QED
      BY <3>1, <3>2, FlattenThree
<1>7. echo.calls = calls /\ echo = [role |-> "assistant", calls |-> calls]
  <2>1. \A j \in DOMAIN calls : [calls[j] EXCEPT !.sig = "none"] = calls[j]
    <3>1. ASSUME NEW c \in Accs, c.sig = "none" PROVE [c EXCEPT !.sig = "none"] = c
      BY <3>1 DEF Accs
    <3>2. \A j \in DOMAIN calls : calls[j] \in Accs
      OBVIOUS
    <3> QED
      BY <3>1, <3>2
  <2>2. calls = [j \in DOMAIN calls |-> calls[j]]
    OBVIOUS
  <2>3. [j \in DOMAIN calls |-> [calls[j] EXCEPT !.sig = "none"]] = calls
    BY <2>1, <2>2
  <2> QED
    BY <2>3
<1>8. DOMAIN tools = DOMAIN calls /\ \A j \in DOMAIN calls : tools[j] = [role |-> "tool", id |-> calls[j].id]
  OBVIOUS
<1> DEFINE S == {User, echo} \cup {tools[j] : j \in DOMAIN calls}
<1>9. tools \in Seq(S) /\ User \in S /\ echo \in S /\ Len(tools) = Len(calls)
  <2>1. DOMAIN calls = 1 .. Len(calls) /\ Len(calls) \in Nat
    OBVIOUS
  <2>2. tools = [j \in 1 .. Len(calls) |-> tools[j]] /\ \A j \in 1 .. Len(calls) : tools[j] \in S
    BY <1>8, <2>1
  <2>3. User \in S /\ echo \in S
    OBVIOUS
  <2> HIDE DEF tools, S
  <2> QED
    BY <2>1, <2>2, <2>3
<1> HIDE DEF S, tools, echo, h
<1>10. LET two == <<User>> \o <<echo>>
       IN  two \in Seq(S) /\ Len(two) = 2 /\ two[1] = User /\ two[2] = echo
  BY <1>9
<1> DEFINE two == <<User>> \o <<echo>>
           m == two \o tools
<1> HIDE DEF two
<1>11. /\ m \in Seq(S) /\ Len(m) = 2 + Len(calls) /\ m[2] = echo
       /\ \A j \in DOMAIN calls : m[j + 2] = tools[j]
  <2>1. two \in Seq(S) /\ Len(two) = 2 /\ two[2] = echo /\ tools \in Seq(S)
    BY <1>9, <1>10 DEF two
  <2>2. /\ two \o tools \in Seq(S) /\ Len(two \o tools) = Len(two) + Len(tools)
        /\ \A i \in 1 .. Len(two) : (two \o tools)[i] = two[i]
        /\ \A i \in 1 .. Len(tools) : (two \o tools)[i + Len(two)] = tools[i]
    <3>1. \A u, v \in Seq(S) :
            /\ u \o v \in Seq(S) /\ Len(u \o v) = Len(u) + Len(v)
            /\ \A i \in 1 .. Len(u) : (u \o v)[i] = u[i]
            /\ \A i \in 1 .. Len(v) : (u \o v)[i + Len(u)] = v[i]
      BY ConcatIs
    <3> QED
      BY <2>1, <3>1, Zenon
  <2> HIDE DEF m
  <2>3. m = two \o tools /\ 2 \in 1 .. Len(two) /\ DOMAIN calls = 1 .. Len(tools)
    BY <1>9, <2>1 DEF m
  <2> QED
    BY <1>9, <2>1, <2>2, <2>3
<1> HIDE DEF m
<1>12. 2 \in DOMAIN m /\ \A j \in DOMAIN calls : j + 2 \in DOMAIN m
  <2>1. DOMAIN calls = 1 .. Len(calls) /\ Len(calls) \in Nat /\ DOMAIN m = 1 .. 2 + Len(calls)
    BY <1>11
  <2> QED
    BY <2>1
<1>13. build_messages(h) = m
  BY <1>6 DEF m, two
<1> QED
  BY <1>7, <1>8, <1>11, <1>12, <1>13 DEF h

-----------------------------------------------------------------------------
(* ModelClients: the invariant                                             *)

\* The tokens forwarded, as what was read has them.
Marked(k, text) == [i \in DOMAIN text |-> <<k, text[i]>>]

\* Nothing is read but in the body, and what is read is what the frames say.
ReadInv ==
    /\ lstep \in {"build", "try", "pause", "body", "done"} /\ ask \in Asks
    /\ lstep \in {"build", "try", "pause"} => body = NoBody /\ sent = <<>>
    /\ lstep = "body" => /\ Assembled(body, served) /\ body.started
                         /\ sent = Marked(ring.attempt, body.text)
    /\ lstep = "done" => StreamedOnce
    /\ lstep = "done" /\ outcome.kind = "calls" => CallsOf(served, outcome.calls)

\* Calls there are only where tools were offered; OpenAI's have no signature.
WellCalled(calls) ==
    /\ calls \in Seq(Accs) /\ ask.tools
    /\ ~Gemini => \A i \in DOMAIN calls : calls[i].sig = "none"

Messages == [role : {"user"}] \cup [role : {"calls"}, calls : Seq(Accs)]
              \cup [role : {"results"}, ids : Seq(Nat)]

\* The history is what was answered.
HistInv ==
    /\ hist \in Seq(Messages) /\ Len(hist) >= 1
    /\ Len(hist) = 1 => hist = <<User>>
    /\ Len(hist) = 3 /\ lstep # "done" => hist = OneTurn(outcome.calls) /\ WellCalled(outcome.calls)
    /\ lstep = "done" /\ outcome.kind = "calls" => WellCalled(outcome.calls)
    /\ lstep \in {"try", "pause"} => wire = WireFor

ClientInv == ReadInv /\ HistInv

LEMMA ClientInit == LInit => ClientInv
<1> SUFFICES ASSUME LInit PROVE ClientInv
  OBVIOUS
<1>1. ReadInv
  BY DEF LInit, ReadInv
<1>2. hist = <<User>> /\ User \in Messages
  BY DEF LInit, User, Messages
<1>3. hist \in Seq(Messages) /\ Len(hist) = 1
  BY <1>2
<1>4. HistInv
  BY <1>2, <1>3 DEF LInit, HistInv
<1> QED
  BY <1>1, <1>4 DEF ClientInv

\* A step that reads nothing and changes neither the history nor what was answered.
LEMMA SameHistory ==
  ASSUME HistInv, UNCHANGED <<client, ask, hist, outcome>>,
         lstep' # "done" => lstep # "done",
         lstep' = "done" => lstep = "done" \/ outcome.kind # "calls",
         lstep' \in {"try", "pause"} => wire' = WireFor
  PROVE  HistInv'
<1>1. WireFor' = WireFor
  BY DEF WireFor, structured_output_active, build_tool_request, build_messages, resolve_tool_choice
<1>2. Gemini' = Gemini
  BY DEF Gemini
<1>3. \A c : WellCalled(c)' <=> WellCalled(c)
  BY <1>2 DEF WellCalled
<1> QED
  BY <1>1, <1>3 DEF HistInv

LEMMA DoneHistory ==
  ASSUME HistInv, UNCHANGED <<client, ask, hist>>, lstep' = "done",
         outcome'.kind = "calls" => WellCalled(outcome'.calls)
  PROVE  HistInv'
<1>1. Gemini' = Gemini
  BY DEF Gemini
<1>2. outcome'.kind = "calls" => WellCalled(outcome.calls)'
  BY <1>1 DEF WellCalled
<1> QED
  BY <1>2 DEF HistInv

LEMMA SameReading ==
  ASSUME ReadInv, UNCHANGED <<client, ask, body, sent>>,
         lstep \in {"build", "try", "pause"}, lstep' \in {"build", "try", "pause"}
  PROVE  ReadInv'
BY DEF ReadInv, Asks

LEMMA NoTokens == sent' = <<>> /\ outcome'.kind # "text" => StreamedOnce'
BY DEF StreamedOnce

\* The tokens forwarded are of one attempt, and they are the text read.
LEMMA MarkedOnce ==
  ASSUME NEW k, NEW text \in Seq(Nat)
  PROVE  /\ \A i, j \in DOMAIN Marked(k, text) : Marked(k, text)[i][1] = Marked(k, text)[j][1]
         /\ text = [i \in DOMAIN Marked(k, text) |-> Marked(k, text)[i][2]]
<1>1. /\ DOMAIN Marked(k, text) = DOMAIN text
      /\ \A i \in DOMAIN text : Marked(k, text)[i] = <<k, text[i]>>
  BY DEF Marked
<1>2. text = [i \in DOMAIN text |-> text[i]]
  OBVIOUS
<1> QED
  BY <1>1, <1>2

LEMMA MarkedGrows ==
  ASSUME NEW k, NEW text \in Seq(Nat), NEW n \in Nat
  PROVE  Marked(k, Append(text, n)) = Append(Marked(k, text), <<k, n>>)
<1> DEFINE S == {k} \X Nat
           new == Append(text, n)
           u == Marked(k, text)
           v == Marked(k, new)
<1>1. /\ new \in Seq(Nat) /\ Len(new) = Len(text) + 1 /\ new[Len(text) + 1] = n
      /\ \A i \in 1 .. Len(text) : new[i] = text[i]
  BY AppendAt
<1> HIDE DEF new
<1>2. u \in Seq(S) /\ Len(u) = Len(text) /\ \A i \in 1 .. Len(text) : u[i] = <<k, text[i]>>
  BY SMTT(60) DEF Marked
<1>3. v \in Seq(S) /\ Len(v) = Len(new) /\ \A i \in 1 .. Len(new) : v[i] = <<k, new[i]>>
  BY <1>1 DEF Marked
<1> DEFINE w == Append(u, <<k, n>>)
           e == <<k, n>>
<1>4. e \in S
  OBVIOUS
<1> HIDE DEF u, v, S, e
<1>5. /\ Append(u, e) \in Seq(S) /\ Len(Append(u, e)) = Len(u) + 1 /\ Append(u, e)[Len(u) + 1] = e
      /\ \A i \in 1 .. Len(u) : Append(u, e)[i] = u[i]
  BY <1>2, <1>4, AppendAt
<1>6. w = Append(u, e)
  BY DEF e
<1> HIDE DEF w
<1>7. \A i \in 1 .. Len(new) : v[i] = w[i]
  <2>1. ASSUME NEW i \in 1 .. Len(text) PROVE v[i] = w[i]
    <3>1. i \in 1 .. Len(new) /\ i \in 1 .. Len(u)
      BY <1>1, <1>2
    <3>2. v[i] = <<k, new[i]>>
      BY <3>1, <1>3
    <3>3. new[i] = text[i]
      BY <1>1
    <3>4. u[i] = <<k, text[i]>>
      BY <1>2
    <3>5. w[i] = u[i]
      BY <3>1, <1>5, <1>6
    <3> QED
      BY <3>2, <3>3, <3>4, <3>5
  <2>2. v[Len(text) + 1] = w[Len(text) + 1]
    <3>1. Len(text) \in Nat
      OBVIOUS
    <3>2. Len(text) + 1 \in 1 .. Len(new)
      BY <3>1, <1>1
    <3>3. v[Len(text) + 1] = <<k, new[Len(text) + 1]>>
      BY <3>2, <1>3
    <3>4. new[Len(text) + 1] = n
      BY <1>1
    <3>5. w[Len(text) + 1] = e
      BY <1>2, <1>5, <1>6
    <3> QED
      BY <3>3, <3>4, <3>5 DEF e
  <2>3. \A i \in 1 .. Len(text) + 1 : i \in 1 .. Len(text) \/ i = Len(text) + 1
    OBVIOUS
  <2> QED
    BY <1>1, <2>1, <2>2, <2>3
<1>8. v = w
  BY <1>1, <1>2, <1>3, <1>5, <1>6, <1>7
<1> QED
  BY <1>8 DEF v, w, u, new

\* A failed attempt: over when the body had begun, the next key otherwise.
LEMMA FailStep ==
  ASSUME ClientInv, lstep \in {"try", "body"}, UNCHANGED <<client, ask, wire, hist, sent>>,
         NEW limit, AttemptFails(limit)
  PROVE  ClientInv'
<1>1. ReadInv /\ HistInv /\ body' = NoBody
  BY DEF ClientInv, AttemptFails
<1>2. CASE lstep = "body"
  <2>1. lstep' = "done" /\ outcome' = [NoOutcome EXCEPT !.kind = "stopped"]
    BY <1>1, <1>2 DEF ReadInv, AttemptFails, FailureOf
  <2>2. outcome'.kind = "stopped"
    BY <2>1 DEF NoOutcome
  <2>3. StreamedOnce'
    <3>1. sent = Marked(ring.attempt, body.text) /\ body.text \in Seq(Nat)
      BY <1>1, <1>2 DEF ReadInv, Assembled, Bodies
    <3>2. \A i, j \in DOMAIN sent : sent[i][1] = sent[j][1]
      BY <3>1, MarkedOnce
    <3> QED
      BY <2>2, <3>2 DEF StreamedOnce
  <2>4. ReadInv'
    BY <1>1, <2>1, <2>2, <2>3 DEF ReadInv, Asks
  <2>5. HistInv'
    BY <1>1, <2>1, <2>2, DoneHistory
  <2> QED
    BY <2>4, <2>5 DEF ClientInv
<1>3. CASE lstep = "try"
  <2>1. body = NoBody /\ sent = <<>> /\ wire = WireFor
    BY <1>1, <1>3 DEF ReadInv, HistInv
  <2>2. PICK limited : NextKey(limited)
    BY <2>1 DEF AttemptFails, FailureOf, NoBody
  <2>3. \/ lstep' \in {"try", "pause"} /\ UNCHANGED outcome
        \/ lstep' = "done" /\ outcome'.kind \in {"error", "rate_limited"}
    BY <2>2 DEF NextKey, Spent, NoOutcome
  <2>4. CASE lstep' \in {"try", "pause"} /\ UNCHANGED outcome
    <3>1. ReadInv'
      BY <1>1, <1>3, <2>1, <2>4, SameReading
    <3>2. HistInv'
      BY <1>1, <1>3, <2>1, <2>4, SameHistory
    <3> QED
      BY <3>1, <3>2 DEF ClientInv
  <2>5. CASE lstep' = "done" /\ outcome'.kind \in {"error", "rate_limited"}
    <3>1. StreamedOnce'
      BY <2>1, <2>5, NoTokens
    <3>2. ReadInv'
      BY <1>1, <2>5, <3>1 DEF ReadInv, Asks
    <3>3. HistInv'
      BY <1>1, <2>5, DoneHistory
    <3> QED
      BY <3>2, <3>3 DEF ClientInv
  <2> QED
    BY <2>3, <2>4, <2>5
<1> QED
  BY <1>2, <1>3

\* A frame read: what was forwarded is still what was read.
LEMMA FrameStep ==
  ASSUME ClientInv, StreamFrame
  PROVE  ClientInv'
<1>1. ReadInv /\ HistInv /\ lstep = "body" /\ lstep' = "body" /\ UNCHANGED <<client, ask, ring, hist, outcome>>
  BY DEF ClientInv, StreamFrame
<1> DEFINE n == Len(served) + 1
           new(f) == ReadPart(body, f, n)
<1>2. PICK f \in FrameKinds :
        /\ served' = Append(served, f) /\ body' = ReadPart(body, f, n)
        /\ sent' = IF f.t = "text" THEN Append(sent, <<ring.attempt, n>>) ELSE sent
  BY DEF StreamFrame
<1>3. /\ Assembled(body, served) /\ body.started = TRUE /\ sent = Marked(ring.attempt, body.text)
      /\ body \in Bodies /\ body.text \in Seq(Nat) /\ served \in Seq(Frames) /\ n \in Nat
  <2>1. Assembled(body, served) /\ body.started \in BOOLEAN /\ body.started /\ sent = Marked(ring.attempt, body.text)
    BY <1>1 DEF ReadInv, Assembled, Bodies
  <2>2. body \in Bodies /\ body.text \in Seq(Nat) /\ served \in Seq(Frames)
    BY <2>1 DEF Assembled, Bodies
  <2> QED
    BY <2>1, <2>2
<1>4. Assembled(ReadPart(body, f, n), Append(served, f))
  BY <1>3, ReadGrows
<1> HIDE DEF n
<1>5. Assembled(body, served)'
  <2>1. Gemini' = Gemini
    BY <1>1 DEF Gemini
  <2> QED
    BY <1>1, <1>2, <1>4, <2>1 DEF Assembled
<1>6. f.t \in {"text", "junk", "call", "name", "args"}
  BY FrameFacts
<1>7. /\ body'.started = body.started
      /\ body'.text = IF f.t = "text" THEN Append(body.text, n) ELSE body.text
  <2>1. CASE f.t \in {"text", "junk"}
    BY <1>2, <1>3, <2>1, ReadText
  <2>2. CASE f.t \in {"call", "name", "args"}
    <3>1. body'.accs \in Seq(Accs)
      BY <1>5 DEF Assembled, Bodies
    <3>2. body' = [body EXCEPT !.accs = CallsAfter(body, f, n)]
      <4>1. CASE f.t = "call"
        BY <1>2, <4>1 DEF ReadPart, CallsAfter
      <4>2. CASE f.t \in {"name", "args"}
        BY <1>2, <4>2 DEF ReadPart, CallsAfter
      <4> QED
        BY <2>2, <4>1, <4>2
    <3>3. body = [started |-> body.started, text |-> body.text, accs |-> body.accs]
      BY <1>3, BodyFields
    <3> HIDE DEF new
    <3>4. body'.started = body.started /\ body'.text = body.text
      BY <3>2, <3>3
    <3> QED
      BY <2>2, <3>4
  <2> QED
    BY <1>6, <2>1, <2>2
<1>8. sent' = Marked(ring.attempt, body'.text)
  <2>1. CASE f.t = "text"
    <3>1. Marked(ring.attempt, Append(body.text, n)) = Append(Marked(ring.attempt, body.text), <<ring.attempt, n>>)
      BY <1>3, MarkedGrows
    <3> QED
      BY <1>2, <1>3, <1>7, <2>1, <3>1
  <2>2. CASE f.t # "text"
    BY <1>2, <1>3, <1>7, <2>2
  <2> QED
    BY <2>1, <2>2
<1>9. ReadInv'
  BY <1>1, <1>3, <1>5, <1>7, <1>8 DEF ReadInv, Marked
<1>10. HistInv'
  BY <1>1, SameHistory
<1> QED
  BY <1>9, <1>10 DEF ClientInv

\* The stream begins: nothing has been read of it.
LEMMA BeginStep ==
  ASSUME ClientInv, StreamBegins
  PROVE  ClientInv'
<1>1. /\ ReadInv /\ HistInv /\ lstep = "try" /\ lstep' = "body" /\ UNCHANGED <<client, ask, hist, outcome, sent>>
      /\ body' = [NoBody EXCEPT !.started = TRUE] /\ served' = <<>>
  BY DEF ClientInv, StreamBegins
<1>2. body' = [started |-> TRUE, text |-> <<>>, accs |-> <<>>] /\ body' \in Bodies
  <2>1. body' = [started |-> TRUE, text |-> <<>>, accs |-> <<>>]
    BY <1>1 DEF NoBody
  <2>2. <<>> \in Seq(Nat) /\ <<>> \in Seq(Accs) /\ TRUE \in BOOLEAN
    OBVIOUS
  <2> QED
    BY <2>1, <2>2 DEF Bodies
<1>3. Assembled(body', <<>>)
  <2>1. WholeCalls(<<>>, <<>>) /\ PieceCalls(<<>>, <<>>)
    BY NoPieces DEF WholeCalls, PieceCalls
  <2> QED
    BY <1>2, <2>1 DEF Assembled
<1>4. Assembled(body, served)'
  <2>1. Gemini' = Gemini
    BY <1>1 DEF Gemini
  <2> QED
    BY <1>1, <1>3, <2>1 DEF Assembled
<1>5. sent' = <<>>
  BY <1>1 DEF ReadInv
<1>6. Marked(ring'.attempt, body'.text) = <<>>
  BY <1>2 DEF Marked
<1>7. ReadInv'
  BY <1>1, <1>2, <1>4, <1>5, <1>6 DEF ReadInv, Asks
<1>8. HistInv'
  BY <1>1, SameHistory
<1> QED
  BY <1>7, <1>8 DEF ClientInv

LEMMA SameCalls ==
  ASSUME Gemini' = Gemini, NEW s, NEW calls, served' = s, outcome'.calls = calls, CallsOf(s, calls)
  PROVE  CallsOf(served, outcome.calls)'
<1>1. CASE Gemini
  <2>1. \A a \in Range(calls) : s[a.id] = [t |-> "call", sig |-> a.sig]
    BY <1>1 DEF CallsOf
  <2>2. Gemini' /\ Range(outcome.calls)' = Range(calls)
    BY <1>1 DEF Range
  <2> QED
    BY <2>1, <2>2 DEF CallsOf
<1>2. CASE ~Gemini
  BY <1>2 DEF CallsOf
<1> QED
  BY <1>1, <1>2

\* What a body read whole answers.
LEMMA AnsweredStep ==
  ASSUME ClientInv, UNCHANGED <<client, ask, wire, hist, sent>>,
         NEW b, NEW s, Assembled(b, s), served' = s, lstep' = "done", outcome' = TurnResult(b),
         StreamedOnce'
  PROVE  ClientInv'
<1>1. ReadInv /\ HistInv
  BY DEF ClientInv
<1>2. Gemini' = Gemini
  BY DEF Gemini
<1> DEFINE c == ToolCallsOf(b.accs)
<1>3. /\ c \in Seq(Accs) /\ CallsOf(s, c)
      /\ c # <<>> => ask.tools
      /\ ~Gemini => \A i \in DOMAIN c : c[i].sig = "none"
  BY TurnCalls
<1>4. outcome' = IF c # <<>> THEN [kind |-> "calls", text |-> <<>>, calls |-> c]
                 ELSE [kind |-> "text", text |-> b.text, calls |-> <<>>]
  BY DEF TurnResult
<1> HIDE DEF c
<1>5. outcome'.kind = "calls" => outcome'.calls = c /\ c # <<>>
  BY <1>4
<1>6. outcome'.kind = "calls" => CallsOf(served, outcome.calls)'
  <2>1. SUFFICES ASSUME outcome'.kind = "calls" PROVE CallsOf(served, outcome.calls)'
    OBVIOUS
  <2>2. served' = s /\ outcome'.calls = c
    BY <1>5, <2>1
  <2> QED
    BY <1>2, <1>3, <2>2, SameCalls
<1>7. ReadInv'
  BY <1>1, <1>6 DEF ReadInv, Asks
<1>8. HistInv'
  <2>1. outcome'.kind = "calls" => WellCalled(outcome'.calls)
    <3>1. c # <<>> => WellCalled(c)
      BY <1>3 DEF WellCalled
    <3> QED
      BY <1>5, <3>1
  <2> QED
    BY <1>1, <2>1, DoneHistory
<1> QED
  BY <1>7, <1>8 DEF ClientInv

LEMMA EndStep ==
  ASSUME ClientInv, StreamEnds
  PROVE  ClientInv'
<1>1. /\ ReadInv /\ lstep = "body" /\ lstep' = "done" /\ outcome' = TurnResult(body)
      /\ UNCHANGED <<client, ask, wire, hist, sent, served>>
  BY DEF ClientInv, StreamEnds, Finish
<1>2. Assembled(body, served) /\ sent = Marked(ring.attempt, body.text) /\ body.text \in Seq(Nat)
  BY <1>1 DEF ReadInv, Assembled, Bodies
<1>3. StreamedOnce'
  <2>1. outcome'.kind = "text" => outcome'.text = body.text
    BY <1>1 DEF TurnResult
  <2>2. /\ \A i, j \in DOMAIN sent : sent[i][1] = sent[j][1]
        /\ body.text = [i \in DOMAIN sent |-> sent[i][2]]
    <3> DEFINE k == ring.attempt
               text == body.text
    <3>1. text \in Seq(Nat) /\ sent = Marked(k, text)
      BY <1>2
    <3> HIDE DEF k, text
    <3>2. /\ \A i, j \in DOMAIN Marked(k, text) : Marked(k, text)[i][1] = Marked(k, text)[j][1]
          /\ text = [i \in DOMAIN Marked(k, text) |-> Marked(k, text)[i][2]]
      BY <3>1, MarkedOnce
    <3> QED
      BY <3>1, <3>2 DEF text
  <2> QED
    BY <1>1, <2>1, <2>2 DEF StreamedOnce
<1> QED
  BY <1>1, <1>2, <1>3, AnsweredStep

LEMMA CompleteStep ==
  ASSUME ClientInv, CompleteAnswer
  PROVE  ClientInv'
<1>1. /\ ReadInv /\ HistInv /\ lstep = "try" /\ lstep' = "done" /\ ~ask.stream
      /\ UNCHANGED <<client, ask, wire, hist, sent>>
  BY DEF ClientInv, CompleteAnswer, Finish
<1>2. PICK parts \in SeqOf(FrameKinds, 2) :
        served' = parts /\ outcome' = IF ask.tools THEN TurnResult(Whole(parts)) ELSE complete(parts)
  BY DEF CompleteAnswer, Finish
<1>3. Assembled(Whole(parts), parts)
  BY WholeAssembled
<1>4. StreamedOnce'
  BY <1>1 DEF ReadInv, StreamedOnce
<1>5. CASE ask.tools
  BY <1>1, <1>2, <1>3, <1>4, <1>5, AnsweredStep
<1>6. CASE ~ask.tools
  <2>1. outcome'.kind = "text"
    BY <1>2, <1>6 DEF complete, NoOutcome
  <2>2. ReadInv'
    BY <1>1, <1>4, <2>1 DEF ReadInv, Asks
  <2>3. HistInv'
    BY <1>1, <2>1, DoneHistory
  <2> QED
    BY <2>2, <2>3 DEF ClientInv
<1> QED
  BY <1>5, <1>6

LEMMA TwoMore ==
  ASSUME NEW S, NEW u \in Seq(S), NEW x \in S, NEW y \in S
  PROVE  /\ u \o <<x, y>> \in Seq(S) /\ Len(u \o <<x, y>>) = Len(u) + 2
         /\ Len(u) = 1 => u \o <<x, y>> = <<u[1], x, y>>
<1> DEFINE v == <<x, y>>
           w == u \o v
<1>1. v \in Seq(S) /\ Len(v) = 2 /\ v[1] = x /\ v[2] = y
  OBVIOUS
<1> HIDE DEF v
<1>2. /\ w \in Seq(S) /\ Len(w) = Len(u) + Len(v)
      /\ \A i \in 1 .. Len(u) : w[i] = u[i]
      /\ \A i \in 1 .. Len(v) : w[i + Len(u)] = v[i]
  BY <1>1, ConcatIs
<1>3. ASSUME Len(u) = 1 PROVE w = <<u[1], x, y>>
  <2> DEFINE z == <<u[1], x, y>>
  <2>1. u[1] \in S
    <3>1. 1 \in 1 .. Len(u)
      BY <1>3
    <3> QED
      BY <3>1
  <2>2. z \in Seq(S) /\ Len(z) = 3 /\ z[1] = u[1] /\ z[2] = x /\ z[3] = y
    BY <2>1
  <2> HIDE DEF z, w
  <2>3. Len(w) = 3 /\ w[1] = u[1]
    BY <1>1, <1>2, <1>3
  <2>4. w[1 + 1] = v[1] /\ w[2 + 1] = v[2]
    BY <1>1, <1>2, <1>3
  <2>5. w[2] = x /\ w[3] = y
    BY <1>1, <2>4
  <2>6. \A i \in 1 .. 3 : i = 1 \/ i = 2 \/ i = 3
    OBVIOUS
  <2>7. \A i \in 1 .. 3 : w[i] = z[i]
    BY <2>2, <2>3, <2>5, <2>6
  <2>8. w = z
    BY <1>2, <2>2, <2>3, <2>7
  <2> QED
    BY <2>8 DEF z
<1> QED
  BY <1>1, <1>2, <1>3 DEF v

\* The next request: its history is the first one's, with its calls and results.
LEMMA TurnStep ==
  ASSUME ClientInv, NextTurn
  PROVE  ClientInv'
<1> DEFINE calls == outcome.calls
           two == <<Called(calls), Results(calls)>>
<1>1. /\ ReadInv /\ HistInv /\ lstep = "done" /\ outcome.kind = "calls" /\ lstep' = "build"
      /\ body' = NoBody /\ sent' = <<>> /\ UNCHANGED <<client, ask, outcome>>
  BY DEF ClientInv, NextTurn
<1>2. hist' = hist \o two
  BY DEF NextTurn, ToolCallsFrom, Called, Results
<1>3. WellCalled(calls) /\ calls \in Seq(Accs) /\ hist \in Seq(Messages) /\ Len(hist) \in Nat /\ Len(hist) >= 1
  BY <1>1 DEF HistInv, WellCalled
<1> HIDE DEF calls
<1>4. Called(calls) \in Messages
  BY <1>3 DEF Called, Messages
<1>5. Results(calls) \in Messages
  <2>1. [i \in DOMAIN calls |-> calls[i].id] \in Seq(Nat)
    <3>1. \A i \in DOMAIN calls : calls[i].id \in Nat
      <4> TAKE i \in DOMAIN calls
      <4>1. calls[i] \in Accs
        BY <1>3
      <4> QED
        BY <4>1 DEF Accs
    <3>2. DOMAIN calls = 1 .. Len(calls) /\ Len(calls) \in Nat
      BY <1>3
    <3> QED
      BY <3>1, <3>2
  <2> QED
    BY <2>1 DEF Results, Messages
<1>6. /\ hist \o two \in Seq(Messages) /\ Len(hist \o two) = Len(hist) + 2
      /\ Len(hist) = 1 => hist \o two = <<hist[1], Called(calls), Results(calls)>>
  BY <1>3, <1>4, <1>5, TwoMore
<1> HIDE DEF two
<1>7. hist' \in Seq(Messages) /\ Len(hist') = Len(hist) + 2
  BY <1>2, <1>6
<1>8. Len(hist') = 3 => hist' = OneTurn(calls)
  <2> SUFFICES ASSUME Len(hist') = 3 PROVE hist' = OneTurn(calls)
    OBVIOUS
  <2>1. Len(hist) = 1
    <3>1. \A m \in Nat : m + 2 = 3 => m = 1
      OBVIOUS
    <3>2. Len(hist) + 2 = 3
      BY <1>7
    <3> QED
      BY <1>3, <3>1, <3>2
  <2>2. hist = <<User>>
    BY <1>1, <2>1 DEF HistInv
  <2>3. hist[1] = User
    BY <2>2
  <2> QED
    BY <1>2, <1>6, <2>1, <2>3 DEF OneTurn
<1>9. WellCalled(calls)'
  BY <1>1, <1>3 DEF WellCalled, Gemini, calls
<1>10. ReadInv'
  BY <1>1 DEF ReadInv, Asks
<1>11. HistInv'
  <2>1. Len(hist') >= 1 /\ Len(hist') # 1
    BY <1>3, <1>7
  <2>2. outcome'.calls = calls
    BY <1>1 DEF calls
  <2> QED
    BY <1>1, <1>7, <1>8, <1>9, <2>1, <2>2 DEF HistInv, calls
<1> QED
  BY <1>10, <1>11 DEF ClientInv

\* The steps that read nothing.
LEMMA KeyStep ==
  ASSUME ClientInv, OtherRequest \/ Send \/ PauseEnds
  PROVE  ClientInv'
<1>1. /\ ReadInv /\ HistInv /\ UNCHANGED <<client, ask, body, hist, outcome, sent, served>>
      /\ lstep \in {"build", "try", "pause"} /\ lstep' \in {"build", "try", "pause"}
  BY DEF ClientInv, OtherRequest, Send, PauseEnds
<1>2. lstep' \in {"try", "pause"} => wire' = WireFor
  BY <1>1 DEF OtherRequest, Send, PauseEnds, HistInv
<1>3. ReadInv'
  BY <1>1, SameReading
<1>4. HistInv'
  BY <1>1, <1>2, SameHistory
<1> QED
  BY <1>3, <1>4 DEF ClientInv

LEMMA ClientStep == ClientInv /\ [LNext]_lvars => ClientInv'
<1> SUFFICES ASSUME ClientInv, [LNext]_lvars PROVE ClientInv'
  OBVIOUS
<1>1. CASE OtherRequest \/ Send \/ PauseEnds
  BY <1>1, KeyStep
<1>2. CASE RequestFails
  <2>1. PICK limit : AttemptFails(limit)
    BY <1>2 DEF RequestFails
  <2> QED
    BY <1>2, <2>1, FailStep DEF RequestFails
<1>3. CASE CompleteAnswer
  BY <1>3, CompleteStep
<1>4. CASE StreamBegins
  BY <1>4, BeginStep
<1>5. CASE StreamFrame
  BY <1>5, FrameStep
<1>6. CASE StreamBreaks
  BY <1>6, FailStep DEF StreamBreaks
<1>7. CASE StreamEnds
  BY <1>7, EndStep
<1>8. CASE NextTurn
  BY <1>8, TurnStep
<1>9. CASE UNCHANGED lvars
  <2>1. ReadInv /\ HistInv /\ UNCHANGED <<client, ask, lstep, ring, body, wire, hist, outcome, sent, served>>
    BY <1>9 DEF ClientInv, lvars
  <2>2. Gemini' = Gemini
    BY <2>1 DEF Gemini
  <2>3. ReadInv'
    <3>1. StreamedOnce' <=> StreamedOnce
      BY <2>1 DEF StreamedOnce
    <3>2. Assembled(body, served)' <=> Assembled(body, served)
      BY <2>1, <2>2 DEF Assembled
    <3>3. lstep = "done" /\ outcome.kind = "calls" => CallsOf(served, outcome.calls)'
      <4> SUFFICES ASSUME lstep = "done", outcome.kind = "calls" PROVE CallsOf(served, outcome.calls)'
        OBVIOUS
      <4>1. CallsOf(served, outcome.calls)
        BY <2>1 DEF ReadInv
      <4> QED
        BY <2>1, <2>2, <4>1, SameCalls
    <3> QED
      BY <2>1, <3>1, <3>2, <3>3 DEF ReadInv, Asks
  <2>4. HistInv'
    <3>1. WireFor' = WireFor
      BY <2>1 DEF WireFor, structured_output_active, build_tool_request, build_messages, resolve_tool_choice
    <3>2. \A c : WellCalled(c)' <=> WellCalled(c)
      BY <2>1, <2>2 DEF WellCalled
    <3> QED
      BY <2>1, <3>1, <3>2 DEF HistInv
  <2> QED
    BY <2>3, <2>4 DEF ClientInv
<1> QED
  BY <1>1, <1>2, <1>3, <1>4, <1>5, <1>6, <1>7, <1>8, <1>9 DEF LNext

(***************************************************************************)
(* The invariant of a conversation: what is being read is what the frames  *)
(* say (ReadInv), the history is what was answered (HistInv).              *)
(***************************************************************************)
THEOREM ClientInvariant == LSpec => []ClientInv
<1>1. LInit => ClientInv
  BY ClientInit
<1>2. ClientInv /\ [LNext]_lvars => ClientInv'
  BY ClientStep
<1> QED
  BY <1>1, <1>2, PTL DEF LSpec

LEMMA StreamedOnceHolds == ClientInv => StreamedOnce
<1> SUFFICES ASSUME ClientInv PROVE StreamedOnce
  OBVIOUS
<1>1. ReadInv
  BY DEF ClientInv
<1>2. CASE lstep = "done"
  BY <1>1, <1>2 DEF ReadInv
<1>3. CASE lstep \in {"build", "try", "pause"}
  BY <1>1, <1>3 DEF ReadInv, StreamedOnce
<1>4. CASE lstep = "body"
  <2>1. sent = Marked(ring.attempt, body.text) /\ body.text \in Seq(Nat)
    BY <1>1, <1>4 DEF ReadInv, Assembled, Bodies
  <2>2. \A i, j \in DOMAIN sent : sent[i][1] = sent[j][1]
    BY <2>1, MarkedOnce
  <2> QED
    BY <1>4, <2>2 DEF StreamedOnce
<1> QED
  BY <1>1, <1>2, <1>3, <1>4 DEF ReadInv

LEMMA CallsWholeHolds == ClientInv => CallsWhole
<1> SUFFICES ASSUME ClientInv, lstep = "done", outcome.kind = "calls"
             PROVE  IF Gemini THEN \A a \in Range(outcome.calls) : served[a.id] = [t |-> "call", sig |-> a.sig]
                    ELSE LET named == {ix \in 1 .. 2 : PiecesOf(ix, "name") # <<>>}
                             order == Picked(<<1, 2>>, named)
                         IN  outcome.calls = [i \in DOMAIN order |->
                                [id |-> Last(PiecesOf(order[i], "name")), named |-> TRUE,
                                 args |-> PiecesOf(order[i], "args"), sig |-> "none"]]
  BY DEF CallsWhole
<1>1. CallsOf(served, outcome.calls)
  BY DEF ClientInv, ReadInv
<1>2. \A ix, t : PiecesOf(ix, t) = Pieces(served, ix, t)
  BY DEF PiecesOf, Pieces, FramesAt
<1> QED
  BY <1>1, <1>2 DEF CallsOf

LEMMA HistoryReplayedHolds == ClientInv => HistoryReplayed
<1> DEFINE calls == outcome.calls
           m == wire.messages
<1> SUFFICES ASSUME ClientInv, lstep = "try", Len(hist) = 3
             PROVE  /\ \E i \in DOMAIN m : m[i].role = "assistant" /\ m[i].calls = calls
                    /\ \A c \in Range(calls) : \E i \in DOMAIN m :
                         IF Gemini THEN m[i].role = "responses" /\ Contains(m[i].ids, c.id)
                         ELSE m[i].role = "tool" /\ m[i].id = c.id
  BY DEF HistoryReplayed
<1>1. hist = OneTurn(calls) /\ WellCalled(calls) /\ wire = WireFor
  BY DEF ClientInv, HistInv
<1>2. ask.tools /\ calls \in Seq(Accs)
  BY <1>1 DEF WellCalled
<1>3. m = IF Gemini THEN build_tool_request(OneTurn(calls)) ELSE build_messages(OneTurn(calls))
  BY <1>1, <1>2 DEF WireFor, Gemini
<1> HIDE DEF m, calls
<1>4. CASE Gemini
  <2>1. /\ DOMAIN m = 1 .. 3 /\ m[2] = [role |-> "assistant", calls |-> calls]
        /\ m[3] = [role |-> "responses", ids |-> [i \in DOMAIN calls |-> calls[i].id]]
    BY <1>2, <1>3, <1>4, ReplayedGemini
  <2>2. 2 \in DOMAIN m /\ m[2].role = "assistant" /\ m[2].calls = calls
    BY <2>1
  <2>3. 3 \in DOMAIN m /\ m[3].role = "responses" /\ m[3].ids = [i \in DOMAIN calls |-> calls[i].id]
    BY <2>1
  <2>4. ASSUME NEW c \in Range(calls) PROVE Contains(m[3].ids, c.id)
    <3>1. PICK j \in DOMAIN calls : c = calls[j]
      BY <2>4 DEF Range
    <3> DEFINE ids == [i \in DOMAIN calls |-> calls[i].id]
    <3>2. ids[j] = c.id /\ j \in DOMAIN ids
      BY <3>1
    <3>3. DOMAIN ids = 1 .. Len(calls) /\ Len(calls) \in Nat
      BY <1>2
    <3>4. Len(ids) = Len(calls)
      BY <3>3
    <3> HIDE DEF ids
    <3>5. \E k \in 1 .. Len(ids) : ids[k] = c.id
      BY <3>2, <3>3, <3>4
    <3>6. Contains(ids, c.id)
      BY <3>5 DEF Contains
    <3> QED
      BY <2>3, <3>6 DEF ids
  <2> QED
    BY <1>4, <2>2, <2>3, <2>4
<1>5. CASE ~Gemini
  <2>1. \A i \in DOMAIN calls : calls[i].sig = "none"
    BY <1>1, <1>5 DEF WellCalled
  <2>2. /\ 2 \in DOMAIN m /\ m[2] = [role |-> "assistant", calls |-> calls]
        /\ \A j \in DOMAIN calls : j + 2 \in DOMAIN m /\ m[j + 2] = [role |-> "tool", id |-> calls[j].id]
    BY <1>2, <1>3, <1>5, <2>1, ReplayedOpenAi
  <2>3. m[2].role = "assistant" /\ m[2].calls = calls
    BY <2>2
  <2>4. ASSUME NEW c \in Range(calls) PROVE \E i \in DOMAIN m : m[i].role = "tool" /\ m[i].id = c.id
    <3>1. PICK j \in DOMAIN calls : c = calls[j]
      BY <2>4 DEF Range
    <3>2. j + 2 \in DOMAIN m /\ m[j + 2].role = "tool" /\ m[j + 2].id = c.id
      <4>1. j + 2 \in DOMAIN m /\ m[j + 2] = [role |-> "tool", id |-> calls[j].id]
        BY <2>2, <3>1
      <4> DEFINE e == m[j + 2]
      <4>2. e.role = "tool" /\ e.id = calls[j].id
        BY <4>1
      <4> QED
        BY <3>1, <4>1, <4>2
    <3> QED
      BY <3>2
  <2> QED
    BY <1>5, <2>2, <2>3, <2>4
<1> QED
  BY <1>4, <1>5

(***************************************************************************)
(* In every conversation, with any number of keys, frames and turns:       *)
(* nothing is streamed twice, an answer's calls are the calls the server   *)
(* made however their pieces were interleaved, and the request after the   *)
(* first answer replays its calls with their results (KeyRing::send,       *)
(* complete_with_tools_streaming, build_messages, build_tool_request).     *)
(***************************************************************************)
THEOREM ConversationsWhole == LSpec => []ConversationWhole
<1>1. ClientInv => ConversationWhole
  BY StreamedOnceHolds, CallsWholeHolds, HistoryReplayedHolds DEF ConversationWhole
<1> QED
  BY <1>1, ClientInvariant, PTL

=============================================================================
