-------------------------------- MODULE Chat --------------------------------
(***************************************************************************)
(* The chat agent (src/chat.rs and the chat handlers of src/server.rs):    *)
(* turns of several dialogs run concurrently over one conversation store;  *)
(* a turn replays the transcript, lets the model search in rounds, forces  *)
(* the searches the user asked for, and stores the turn with the answer    *)
(* the user saw.  The client may leave at any await and a dialog may be    *)
(* dropped while its turn runs.                                            *)
(***************************************************************************)
EXTENDS Integers, Sequences, FiniteSets, SequencesExt, FiniteSetsExt, TLC

CONSTANTS
    ConvIds, ChatRepos,
    ChatTurns,            \* bound of the model: turns posted, 1 .. ChatTurns
    SearchingTurns,       \* bound of the model: turns whose model calls tools
    MAX_TURNS,            \* rounds of one turn
    MAX_CONVERSATIONS, MAX_TURNS_KEPT, TOOL_CTX_TURNS_KEPT,
    MaxToolCalls,         \* bound of the model: calls of one round
    Queries, Canon        \* queries and what they are normalised to

ASSUME ChatConstants ==
    /\ ChatTurns \in Nat /\ SearchingTurns \subseteq 1 .. ChatTurns 
    /\ MAX_TURNS \in Nat \ {0, 1} /\ MAX_CONVERSATIONS \in Nat \ {0}
    /\ MAX_TURNS_KEPT \in Nat \ {0} /\ TOOL_CTX_TURNS_KEPT \in Nat \ {0}
    /\ MaxToolCalls \in Nat \ {0} /\ Canon \in [Queries -> Queries]

VARIABLES
    convs,   \* ConversationStore: id -> repo and turns
    lru,     \* ids of convs, least recently used first
    chat     \* per turn, where it stands

cvars == <<convs, lru, chat>>
Turns == 1 .. ChatTurns
MAX_REQUESTED_SEARCHES == MAX_TURNS - 1

\* shown: what the user saw of the current pass; event: the terminal event;
\* queries: history, the searches that succeeded.
NewTurn == [pc |-> "new", conv |-> "", repo |-> "", floor |-> 0, strict |-> FALSE,
            replay |-> <<>>, context |-> <<>>, round |-> 0, calls |-> 0, distinct |-> {},
            answer |-> "", evidence |-> FALSE, shown |-> "", final |-> FALSE, event |-> "", queries |-> {}]

OldTurn == [n |-> 0, answer |-> "text", evidence |-> TRUE]
CInit ==
    /\ \/ convs = <<>>
       \/ \E c0 \in ConvIds, r \in ChatRepos :
            convs = [c \in {c0} |-> [repo |-> r, turns |-> <<OldTurn>>]]
    /\ lru = SetToSeq(DOMAIN convs)
    /\ chat = [i \in Turns |-> NewTurn]

Put(i, e) == chat' = [chat EXCEPT ![i] = e]
Ends(i, event) ==
    Put(i, [NewTurn EXCEPT !.pc = "done", !.conv = chat[i].conv, !.event = event,
                           !.shown = chat[i].shown])
Touched(c) == Append(SelectSeq(lru, LAMBDA x : x # c), c)

------------------------------------------------------------------------------
(***************************************************************************)
(* What the message asks for: the largest number next to a search word,    *)
(* clamped so that one round is left for the answer; 0 is no instruction.  *)
(***************************************************************************)
requested_search_floor(numbers) ==
    LET named == {n \in numbers : n # 0}
    IN  IF named = {} THEN 0
        ELSE Min({Max(named), MAX_REQUESTED_SEARCHES})

\* The default client, a custom endpoint (which is sent "required" only if it
\* says so), or none: no keys, or a custom endpoint without one.
build_chat_llm == {"strict", "lenient", "none"}

\* POST /api/repos/:repo_id/chat.
post_repo_chat(i) ==
    /\ chat[i].pc = "new" /\ \A j \in 1 .. i - 1 : chat[j].pc # "new"
    /\ \E c \in ConvIds \cup {""}, r \in ChatRepos,
          numbers \in IF i \in SearchingTurns THEN {{}, {1}, {0, MAX_TURNS}} ELSE {{}},
          llm \in build_chat_llm :
         LET t == [chat[i] EXCEPT !.conv = c, !.repo = r, !.strict = llm = "strict",
                                  !.floor = requested_search_floor(numbers)]
         IN  IF c = "" \/ llm = "none"
             THEN Ends(i, "Error")
             ELSE Put(i, [t EXCEPT !.pc = "snapshot"])
    /\ UNCHANGED <<convs, lru>>

------------------------------------------------------------------------------
(***************************************************************************)
(* ConversationStore.  An id bound to another repository counts as new.    *)
(***************************************************************************)
Bound(c, r) == c \in DOMAIN convs /\ convs[c].repo = r

snapshot(i) ==
    /\ chat[i].pc = "snapshot"
    /\ LET c == chat[i].conv  IN
       IF Bound(c, chat[i].repo)
       THEN /\ lru' = Touched(c)
            /\ Put(i, [chat[i] EXCEPT !.pc = "context",
                        !.replay = [k \in DOMAIN convs[c].turns |-> convs[c].turns[k].n]])
       ELSE Put(i, [chat[i] EXCEPT !.pc = "context"]) /\ UNCHANGED lru
    /\ UNCHANGED convs

\* The newest turns that searched, oldest of them first.
recent_tool_context(i) ==
    /\ chat[i].pc = "context"
    /\ LET c == chat[i].conv  IN
       IF Bound(c, chat[i].repo)
       THEN LET with == SelectSeq(convs[c].turns, LAMBDA t : t.evidence)
                from == Max({1, Len(with) - TOOL_CTX_TURNS_KEPT + 1})
                picked == SubSeq(with, from, Len(with))
            IN  /\ lru' = Touched(c)
                /\ Put(i, [chat[i] EXCEPT !.pc = "ask",
                            !.context = [k \in DOMAIN picked |-> picked[k].n]])
       ELSE Put(i, [chat[i] EXCEPT !.pc = "ask"]) /\ UNCHANGED lru
    /\ UNCHANGED convs

append_turn(i, answer) ==
    LET c == chat[i].conv
        old == IF Bound(c, chat[i].repo) THEN convs[c].turns ELSE <<>>
        all == Append(old, [n |-> i, answer |-> answer, evidence |-> chat[i].evidence])
        kept == SubSeq(all, Max({1, Len(all) - MAX_TURNS_KEPT + 1}), Len(all))
        full == [x \in DOMAIN convs \cup {c} |->
                   IF x = c THEN [repo |-> chat[i].repo, turns |-> kept] ELSE convs[x]]
        order == Touched(c)
        over == Cardinality(DOMAIN full) > MAX_CONVERSATIONS /\ order[1] # c
    IN  /\ convs' = IF over THEN [x \in DOMAIN full \ {order[1]} |-> full[x]] ELSE full
        /\ lru' = IF over THEN Tail(order) ELSE order

drop_conversation(c) ==
    /\ c \in DOMAIN convs
    /\ convs' = [x \in DOMAIN convs \ {c} |-> convs[x]]
    /\ lru' = SelectSeq(lru, LAMBDA x : x # c)
    /\ UNCHANGED chat

------------------------------------------------------------------------------
(***************************************************************************)
(* A round.  Until the floor is met a tool call is required and only the   *)
(* codebase search is offered; a strict endpoint then sends no text as its *)
(* answer.  Tokens reach the user as they come, before calls and errors    *)
(* too.                                                                    *)
(***************************************************************************)
Forced(i) == chat[i].floor > 0 /\ Cardinality(chat[i].distinct) < chat[i].floor

Shows(t, text) == [t EXCEPT !.shown = text]

Round(i) ==
    /\ chat[i].pc = "ask" /\ chat[i].round < MAX_TURNS
    /\ LET t == [chat[i] EXCEPT !.round = @ + 1] IN
       \/ /\ ~(Forced(i) /\ chat[i].strict)
          /\ \E text \in {"", "blank", "text"} :
               Put(i, [Shows(t, text) EXCEPT !.answer = text,
                         !.pc = IF text = "" THEN "final" ELSE "store"])
       \/ /\ i \in SearchingTurns
          /\ \E k \in 1 .. MaxToolCalls, text \in {"", "text"} :
               Put(i, [Shows(t, text) EXCEPT !.pc = "tool", !.calls = k])
       \/ Ends(i, "Error")
    /\ UNCHANGED <<convs, lru>>

\* Tools by what they count for: a codebase search, or any other tool (file, grep,
\* read, or a name that is refused).  "" is a missing argument.
ToolCall == [search : {TRUE}, query : Queries \cup {""}] \cup {[search |-> FALSE, query |-> ""]}
run_tool(call) == IF call.search /\ call.query = "" THEN {FALSE} ELSE BOOLEAN

\* Whether a result leaves something for the next turn's question.
summarize_tool_result(ok) == IF ok THEN BOOLEAN ELSE {FALSE}

normalize(q) == Canon[q]
CountsFailures(d, call, ok) ==  \* mutant
    IF call.search /\ call.query # "" THEN d \cup {normalize(call.query)} ELSE d
Counted(d, call, ok) ==
    IF ok /\ call.search THEN d \cup {normalize(call.query)} ELSE d

RunCall(i) ==
    /\ chat[i].pc = "tool" /\ chat[i].calls > 0
    /\ \E call \in ToolCall : \E ok \in run_tool(call) : \E kept \in summarize_tool_result(ok) :
         LET t == chat[i] IN
         Put(i, [t EXCEPT !.calls = @ - 1, !.distinct = Counted(@, call, ok),
                  !.queries = IF ok /\ call.search THEN @ \cup {call.query} ELSE @,
                  !.evidence = @ \/ kept,
                  !.pc = CASE t.calls > 1 -> "tool"
                           [] t.calls = 1 /\ t.round < MAX_TURNS -> "ask"
                           [] OTHER -> "final"])
    /\ UNCHANGED <<convs, lru>>

------------------------------------------------------------------------------
(***************************************************************************)
(* No answer after the last round: one pass without tools.  If it gives    *)
(* nothing, a fixed sentence is shown, unless it streamed something.       *)
(***************************************************************************)
AlwaysFallback(shown) == TRUE  \* mutant
FallbackShown(shown) == shown = ""

FinalPass(i) ==
    /\ chat[i].pc = "final"
    /\ \E shown \in {"", "blank", "text"}, fails \in BOOLEAN :
         LET t == [Shows(chat[i], shown) EXCEPT !.pc = "store", !.final = TRUE] IN
         Put(i, CASE ~fails /\ shown = "text" -> [t EXCEPT !.answer = "text"]
                  [] (fails \/ shown # "text") /\ FallbackShown(shown) ->
                       [t EXCEPT !.answer = "fallback",
                                 !.shown = IF shown = "" THEN "fallback" ELSE "glued"]
                  [] OTHER -> t)
    /\ UNCHANGED <<convs, lru>>

\* The store's lock is the last await: the append and Done are one step.
Store(i) ==
    /\ chat[i].pc = "store"
    /\ append_turn(i, IF chat[i].answer \in {"", "blank"} THEN "backfill" ELSE chat[i].answer)
    /\ Ends(i, "Done")

\* The client leaves: the turn is cancelled at its next await.
Disconnect(i) ==
    /\ chat[i].pc \notin {"new", "done"}
    /\ Ends(i, "cancelled")
    /\ UNCHANGED <<convs, lru>>

CNext ==
    \/ \E i \in Turns : \/ post_repo_chat(i) \/ snapshot(i) \/ recent_tool_context(i)
                        \/ Round(i) \/ RunCall(i) \/ FinalPass(i) \/ Store(i) \/ Disconnect(i)
    \/ \E c \in ConvIds : drop_conversation(c)
CSpec == CInit /\ [][CNext]_cvars

------------------------------------------------------------------------------
(***************************************************************************)
(* "Search three times" cannot be ignored: on an endpoint that honours     *)
(* "required", an answer given within the rounds comes after as many       *)
(* different successful searches as were asked for (the HARD search floor  *)
(* of run_chat_turn).                                                      *)
(***************************************************************************)
SearchFloorMet ==
    \A i \in Turns :
        chat[i].pc = "store" /\ ~chat[i].final /\ chat[i].strict =>
            Cardinality({Canon[q] : q \in chat[i].queries}) >= chat[i].floor

(***************************************************************************)
(* The transcript holds what the user saw: only turns that ended with Done *)
(* are stored, their answer is the text of the pass that gave it, and the  *)
(* fixed sentence is never glued to a half-streamed answer; a turn that    *)
(* failed or was left stores nothing.                                      *)
(***************************************************************************)
TranscriptHonest ==
    \A c \in DOMAIN convs : \A k \in DOMAIN convs[c].turns :
        LET t == convs[c].turns[k] IN
        t.n # 0 => /\ chat[t.n].event = "Done" /\ chat[t.n].conv = c
                   /\ t.answer = "text" => chat[t.n].shown = "text"
                   /\ t.answer = "fallback" <=> chat[t.n].shown = "fallback"

(***************************************************************************)
(* A chat turn is what the user asked for and saw (run_chat_turn): the     *)
(* search floor is met, and the stored transcript is the shown one.        *)
(***************************************************************************)
TurnHonest == SearchFloorMet /\ TranscriptHonest

(***************************************************************************)
(* A dropped dialog is forgotten.  A turn still running when its dialog is *)
(* dropped brings the conversation back.                                   *)
(***************************************************************************)
DroppedStaysDropped ==
    [][\A c \in ConvIds : c \notin DOMAIN convs /\ c \in DOMAIN convs' =>
          \A i \in Turns : chat[i].pc = "store" /\ chat'[i].pc = "done" => chat[i].replay = <<>>]_cvars
=============================================================================
