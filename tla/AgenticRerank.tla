--------------------------- MODULE AgenticRerank ----------------------------
(***************************************************************************)
(* The agentic rerank loop (src/query/reranker.rs, run_agentic_loop): a    *)
(* model is asked, turn after turn, to commit chunks of a growing pool     *)
(* with add_chunks and to enlarge the pool with query, grep and read.  The *)
(* model is the environment: each of its calls is a free choice made when  *)
(* the call is dispatched.  A chunk is its index in the pool, its text is  *)
(* WholeChars long and a pruned selection PrunedChars; the byte size of    *)
(* the conversation is one bit, which only ever goes up.                   *)
(***************************************************************************)
EXTENDS Integers, Sequences, FiniteSets, SequencesExt

CONSTANTS
    BaseChunks,       \* the number of merged candidates, at least one
    max_turns,        \* settings: query turns
    max_chunk_chars,  \* settings: character budget, 0 = none
    MinIterations,    \* the floor of the iteration ceiling, 12 in the code
    MaxFormatRetries, \* MAX_FORMAT_RETRIES, 2 in the code
    InfoRequests,     \* the texts of information_request, "" among them
    MaxPool,          \* bound of the model: chunks in the pool
    MaxCalls          \* bound of the model: tool calls in one response

WholeChars == 2
PrunedChars == 1

ASSUME AgenticConstants ==
    /\ BaseChunks \in Nat \ {0} /\ MaxPool \in Nat /\ BaseChunks <= MaxPool
    /\ max_turns \in Nat /\ max_chunk_chars \in Nat
    /\ MinIterations \in Nat \ {0} /\ MaxFormatRetries \in Nat
    /\ MaxCalls \in Nat \ {0} /\ "" \in InfoRequests

VARIABLES
    rstep,        \* "turn", "calls", "harvest", "decide", "done"
    iteration,    \* of the for loop
    left,         \* calls of the current response not dispatched yet
    pool,         \* origins of the addressable chunks, base candidates first
    accumulated,  \* committed selections <<index, chars>>, in order
    query_calls,
    awaiting_query,
    unharvested_query,
    format_retries,
    query_cache,  \* the requests that returned something
    heavy,        \* the history is over AGENTIC_HISTORY_BYTE_CAP
    stop,         \* stop_mid_turn, "none" when unset
    exit,         \* LoopExit
    owed,         \* tool calls in the history with no tool result
    turns,        \* turns the model was asked for
    answer        \* the RerankOutput

rvars == <<rstep, iteration, left, pool, accumulated, query_calls, awaiting_query,
           unharvested_query, format_retries, query_cache, heavy, stop, exit,
           owed, turns, answer>>

query_budget == IF max_turns > 1 THEN max_turns ELSE 1
max_iterations == IF 4 * query_budget > MinIterations THEN 4 * query_budget ELSE MinIterations

Exits == {"AgentDone", "LlmError", "QueryBudget", "ChunkCharBudget", "IterationCap", "ByteCap"}
NoAnswer == [indices |-> <<>>, fallback |-> FALSE, skip |-> FALSE]
OfSize(acc, chars) == {i \in DOMAIN acc : acc[i][2] = chars}
Chars(acc) == PrunedChars * Cardinality(OfSize(acc, PrunedChars))
              + WholeChars * Cardinality(OfSize(acc, WholeChars))
accumulated_chars == Chars(accumulated)
Selected(acc) == {acc[i][1] : i \in DOMAIN acc}

(***************************************************************************)
(* The prompt holds every base candidate, numbered as in the pool.         *)
(***************************************************************************)
RInit ==
    /\ rstep = "turn" /\ iteration = 0 /\ left = 0
    /\ pool = [i \in 1..BaseChunks |-> "base"]
    /\ accumulated = <<>> /\ query_calls = 0
    /\ awaiting_query = FALSE /\ unharvested_query = FALSE
    /\ format_retries = 0 /\ query_cache = {}
    /\ heavy = FALSE /\ stop = "none" /\ exit = "IterationCap"
    /\ owed = 0 /\ turns = 0 /\ answer = NoAnswer

loopvars == <<pool, accumulated, query_calls, awaiting_query, unharvested_query,
              format_retries, query_cache>>

\* Everything pushed on the history may take it over the cap, never back.
HistoryGrows == heavy' \in {heavy, TRUE}

LeaveLoop(reason) == rstep' = "harvest" /\ exit' = reason

(***************************************************************************)
(* The head of the loop: the ceiling, the byte cap (never on the first     *)
(* iteration), then one turn of the model.  It answers with calls, with    *)
(* text, which ends the loop even when a tool call was demanded, or fails. *)
(***************************************************************************)
IterationCeiling ==
    /\ rstep = "turn" /\ iteration = max_iterations
    /\ LeaveLoop("IterationCap")
    /\ UNCHANGED <<loopvars, iteration, left, heavy, stop, owed, turns, answer>>

CapsHistory == iteration > 0 /\ heavy

ByteCap ==
    /\ rstep = "turn" /\ iteration < max_iterations /\ CapsHistory
    /\ LeaveLoop("ByteCap")
    /\ UNCHANGED <<loopvars, iteration, left, heavy, stop, owed, turns, answer>>

next_turn ==
    /\ rstep = "turn" /\ iteration < max_iterations /\ ~CapsHistory
    /\ turns' = turns + 1
    /\ \/ \E k \in 0..MaxCalls :
            /\ rstep' = "calls" /\ left' = k /\ owed' = owed + k
            /\ UNCHANGED exit
       \/ /\ \E reason \in {"AgentDone", "LlmError"} : LeaveLoop(reason)
          /\ UNCHANGED <<left, owed>>
    /\ stop' = "none"
    /\ HistoryGrows
    /\ UNCHANGED <<loopvars, iteration, answer>>

\* One call gets its tool result and the dispatch goes on.
CallAnswered ==
    /\ owed' = owed - 1 /\ left' = left - 1
    /\ HistoryGrows
    /\ UNCHANGED <<rstep, iteration, exit, turns, answer>>

Dispatching == rstep = "calls" /\ left > 0 /\ stop = "none"

(***************************************************************************)
(* add_chunks.  A second one in a phase, and up to MaxFormatRetries flat   *)
(* `lines` lists, are refused without effect.  An accepted call commits    *)
(* its entries in order; an entry out of range, or already committed, is   *)
(* skipped, but the phase is over even when nothing was committed.         *)
(***************************************************************************)
RefusedAdd ==
    /\ Dispatching /\ awaiting_query
    /\ CallAnswered
    /\ UNCHANGED <<loopvars, stop>>

MalformedAdd ==
    /\ Dispatching /\ ~awaiting_query /\ format_retries < MaxFormatRetries
    /\ format_retries' = format_retries + 1
    /\ CallAnswered
    /\ UNCHANGED <<pool, accumulated, query_calls, awaiting_query, unharvested_query,
                   query_cache, stop>>

add_one_chunk(acc, item) ==
    IF item[1] >= Len(pool) \/ item[1] \in Selected(acc)
    THEN acc
    ELSE Append(acc, item)

handle_add_chunks(items) == FoldLeft(add_one_chunk, accumulated, items)

Items ==
    LET item == (0..Len(pool)) \X {PrunedChars, WholeChars}
    IN  {<<>>} \cup {<<a>> : a \in item} \cup {<<a, b>> : a, b \in item}

\* The reason to stop in the middle of a response, if any.
BudgetStop(acc) ==
    IF max_chunk_chars > 0 /\ Chars(acc) >= max_chunk_chars THEN "ChunkCharBudget"
    ELSE IF query_calls >= query_budget THEN "QueryBudget"
    ELSE "none"

AddChunks ==
    /\ Dispatching /\ ~awaiting_query
    /\ \E items \in Items :
         /\ accumulated' = handle_add_chunks(items)
         /\ stop' = BudgetStop(accumulated')
    /\ format_retries' = 0
    /\ awaiting_query' = TRUE
    /\ unharvested_query' = FALSE
    /\ CallAnswered
    /\ UNCHANGED <<pool, query_calls, query_cache>>

(***************************************************************************)
(* query.  It always opens a new add_chunks phase.  Past the budget, for   *)
(* an empty or repeated request, and when retrieval fails, it costs        *)
(* nothing; a search that finds nothing does cost a call.  What it finds   *)
(* goes to the end of the pool.                                            *)
(***************************************************************************)
RefusedQuery ==
    /\ Dispatching /\ query_calls >= query_budget
    /\ awaiting_query' = FALSE
    /\ CallAnswered
    /\ UNCHANGED <<pool, accumulated, query_calls, unharvested_query, format_retries,
                   query_cache, stop>>

QueryCostsNothing == UNCHANGED <<pool, query_calls, unharvested_query, query_cache>>

FoundQuery(req, n) ==
    /\ req # "" /\ req \notin query_cache
    /\ Len(pool) + n <= MaxPool
    /\ pool' = pool \o [i \in 1..n |-> "query"]
    /\ query_cache' = IF n = 0 THEN query_cache ELSE query_cache \cup {req}
    /\ query_calls' = query_calls + 1
    /\ unharvested_query' = TRUE

run_query_tool ==
    /\ Dispatching /\ query_calls < query_budget
    /\ awaiting_query' = FALSE
    /\ QueryCostsNothing \/ \E req \in InfoRequests, n \in 0..1 : FoundQuery(req, n)
    /\ CallAnswered
    /\ UNCHANGED <<accumulated, format_retries, stop>>

\* grep and read: matched regions that can be read join the pool, for free.
FsTool ==
    /\ Dispatching
    /\ awaiting_query' = FALSE
    /\ \E n \in 0..1 :
         Len(pool) + n <= MaxPool /\ pool' = pool \o [i \in 1..n |-> "fs"]
    /\ CallAnswered
    /\ UNCHANGED <<accumulated, query_calls, unharvested_query, format_retries,
                   query_cache, stop>>

UnknownTool ==
    /\ Dispatching
    /\ CallAnswered
    /\ UNCHANGED <<loopvars, stop>>

(***************************************************************************)
(* After the response: the results are recorded, a nudge names the next    *)
(* tool, and the loop ends on a budget.                                    *)
(***************************************************************************)
NothingToNudge == awaiting_query /\ query_calls >= query_budget

AfterCalls ==
    /\ rstep = "calls" /\ (left = 0 \/ stop # "none")
    /\ left' = 0
    /\ \/ stop # "none" /\ LeaveLoop(stop) /\ UNCHANGED iteration
       \/ stop = "none" /\ NothingToNudge /\ LeaveLoop("QueryBudget") /\ UNCHANGED iteration
       \/ /\ stop = "none" /\ ~NothingToNudge
          /\ rstep' = "turn" /\ iteration' = iteration + 1 /\ UNCHANGED exit
    /\ HistoryGrows
    /\ UNCHANGED <<loopvars, stop, owed, turns, answer>>

(***************************************************************************)
(* One last forced turn, only for results a resource cap would discard.    *)
(* Only its first add_chunks counts.                                       *)
(***************************************************************************)
HarvestAfterAnyCap ==  \* mutant
    \/ unharvested_query /\ exit \in {"ByteCap", "IterationCap"}
    \/ exit = "ChunkCharBudget"

HarvestDue == unharvested_query /\ exit \in {"ByteCap", "IterationCap"}

NoHarvest ==
    /\ rstep = "harvest" /\ ~HarvestDue
    /\ rstep' = "decide"
    /\ UNCHANGED <<loopvars, iteration, left, heavy, stop, exit, owed, turns, answer>>

Harvest ==
    /\ rstep = "harvest" /\ HarvestDue
    /\ turns' = turns + 1 /\ rstep' = "decide"
    /\ \/ UNCHANGED <<accumulated, awaiting_query>>
       \/ /\ ~awaiting_query
          /\ \E items \in Items : accumulated' = handle_add_chunks(items)
          /\ awaiting_query' = TRUE
    /\ UNCHANGED <<iteration, left, pool, query_calls, unharvested_query, format_retries,
                   query_cache, heavy, stop, exit, owed, answer>>

(***************************************************************************)
(* decide_final_action and the assembly of the output: committed chunks    *)
(* win over every way the loop can end.                                    *)
(***************************************************************************)
FallbackOnError(reason, n) ==  \* mutant
    IF n >= 1 /\ reason # "LlmError" THEN "UseAccumulated"
    ELSE IF reason = "AgentDone" THEN "EmptyRelevant" ELSE "Fallback"

decide_final_action(reason, n) ==
    IF n >= 1 THEN "UseAccumulated"
    ELSE IF reason = "AgentDone" THEN "EmptyRelevant" ELSE "Fallback"

decide_final ==
    /\ rstep = "decide" /\ rstep' = "done"
    /\ answer' = CASE decide_final_action(exit, Len(accumulated)) = "EmptyRelevant" -> NoAnswer
                   [] decide_final_action(exit, Len(accumulated)) = "Fallback" ->
                        [indices |-> [i \in 1..BaseChunks |-> i - 1],
                         fallback |-> TRUE, skip |-> TRUE]
                   [] OTHER -> [indices |-> [i \in DOMAIN accumulated |-> accumulated[i][1]],
                                fallback |-> FALSE, skip |-> FALSE]
    /\ UNCHANGED <<loopvars, iteration, left, heavy, stop, exit, owed, turns>>

RNext ==
    \/ IterationCeiling \/ ByteCap \/ next_turn
    \/ RefusedAdd \/ MalformedAdd \/ AddChunks
    \/ RefusedQuery \/ run_query_tool \/ FsTool \/ UnknownTool
    \/ AfterCalls \/ NoHarvest \/ Harvest \/ decide_final

RSpec == RInit /\ [][RNext]_rvars

(***************************************************************************)
(* A turn is never asked for while a tool call of the history has no       *)
(* result: both providers refuse such a conversation, and the loop breaks  *)
(* out of a response in the middle (budgets) and asks once more after the  *)
(* loop (the harvest), so the two must never meet.                         *)
(***************************************************************************)
NoDanglingToolCalls ==
    (rstep = "turn" \/ (rstep = "harvest" /\ HarvestDue)) => owed = 0

(***************************************************************************)
(* What the agent committed is what is returned, in its order, once each,  *)
(* whatever ended the loop; an empty answer is given only to an agent that *)
(* ended the loop itself, and the character budget is overshot by less     *)
(* than one add_chunks call of two entries.                                *)
(***************************************************************************)
CommittedSurvives ==
    /\ rstep = "done" =>
         /\ accumulated # <<>> => /\ ToSet(answer.indices) = Selected(accumulated)
                                  /\ ~answer.fallback
         /\ answer.indices = <<>> => exit = "AgentDone"
         /\ Cardinality(ToSet(answer.indices)) = Len(answer.indices)
         /\ \A i \in ToSet(answer.indices) : i < Len(pool)
    /\ max_chunk_chars > 0 => accumulated_chars < max_chunk_chars + 2 * WholeChars
    /\ turns <= max_iterations + 1

(***************************************************************************)
(* The agent loop is safe to leave at any turn (run_agentic_loop): its     *)
(* history can be sent again, and what was committed is the answer.        *)
(***************************************************************************)
AgentLoopSound == NoDanglingToolCalls /\ CommittedSurvives
=============================================================================
