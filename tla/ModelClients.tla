---------------------------- MODULE ModelClients ----------------------------
(***************************************************************************)
(* The language-model clients (src/llm/keys.rs, mod.rs, openai.rs and      *)
(* google.rs): one request is tried with one key after another, its answer *)
(* comes whole or as a stream of frames that are forwarded to the caller   *)
(* as they arrive, and what it answered goes into the history of the next  *)
(* request.  A part of an answer is a text token or a piece of a tool      *)
(* call; a part is known by the position at which the server sent it.      *)
(***************************************************************************)
EXTENDS Integers, Sequences, FiniteSets, SequencesExt, FiniteSetsExt, Positions

CONSTANTS
    NKeys,      \* keys of the ring
    MaxFrames,  \* bound of the model: frames of the first answer (the next has 2 fewer)
    MaxTurns    \* bound of the model: requests of one conversation

ASSUME ModelConstants == NKeys \in Nat \ {0} /\ MaxFrames \in Nat \ {0} /\ MaxTurns \in Nat \ {0}

VARIABLES
    cursor,  \* the ring's cursor, modulo NKeys (shared with other requests)
    client,  \* provider, custom endpoint, force on custom endpoints
    ask,     \* what is asked: plain or with tools, streamed, forced
    lstep,   \* where the request stands
    ring,    \* KeyRing::send: start, offset, pass, limited keys
    body,    \* the answer being read: started, text, tool-call accumulators
    wire,    \* the request last put on the wire
    hist,    \* the conversation so far
    outcome, \* of the request
    sent,    \* history: <<attempt, frame>> of every token forwarded
    served,  \* history: the frames of the current attempt
    tried    \* history: attempts per key

lvars == <<cursor, client, ask, lstep, ring, body, wire, hist, outcome, sent, served, tried>>

KeyIds == 0 .. NKeys - 1
NoBody == [started |-> FALSE, text |-> <<>>, accs |-> <<>>]
NoOutcome == [kind |-> "none", text |-> <<>>, calls |-> <<>>]
FreshRing == [start |-> 0, off |-> 0, pass |-> 1, limited |-> {}, attempt |-> 0]
NoWire == [choice |-> "none", json |-> FALSE, messages |-> <<>>]

\* Providers without a native client fail every attempt; "custom" is OpenAI's
\* client on another endpoint.
Providers == {"google", "openai", "custom", "other"}
Asks == {[tools |-> FALSE, stream |-> FALSE, force |-> FALSE]}
          \cup [tools : {TRUE}, stream : BOOLEAN, force : BOOLEAN]

LInit ==
    /\ cursor \in KeyIds
    /\ client \in [provider : Providers, structured : BOOLEAN, endpoint : {"default", "custom"},
                   force_on_custom : BOOLEAN]
    /\ client.endpoint = "custom" => client.provider = "custom"
    /\ client.force_on_custom => client.endpoint = "custom"
    /\ ask \in Asks
    /\ client.structured => ~ask.tools
    /\ lstep = "build" /\ ring = FreshRing /\ body = NoBody /\ wire = NoWire
    /\ hist = <<[role |-> "user"]>> /\ outcome = NoOutcome
    /\ sent = <<>> /\ served = <<>> /\ tried = [k \in KeyIds |-> 0]

------------------------------------------------------------------------------
(***************************************************************************)
(* The request: history to wire messages, and whether a tool is required.  *)
(***************************************************************************)
structured_output_active == client.structured /\ client.provider # "other"

resolve_tool_choice ==
    IF ~ask.force THEN "none"
    ELSE IF client.endpoint = "default" \/ client.force_on_custom THEN "required" ELSE "auto"

\* Results are messages of their own, in the order of their calls.
build_messages(h) ==
    FlattenSeq([i \in DOMAIN h |->
        CASE h[i].role = "results" -> [j \in DOMAIN h[i].ids |-> [role |-> "tool", id |-> h[i].ids[j]]]
          [] h[i].role = "calls"   ->
               <<[role |-> "assistant", calls |-> [j \in DOMAIN h[i].calls |-> [h[i].calls[j] EXCEPT !.sig = "none"]]]>>
          [] OTHER -> <<h[i]>>])

\* One content per turn; a call is echoed with the signature it came with.
build_tool_request(h) ==
    [i \in DOMAIN h |->
        CASE h[i].role = "results" -> [role |-> "responses", ids |-> h[i].ids]
          [] h[i].role = "calls"   -> [role |-> "assistant", calls |-> h[i].calls]
          [] OTHER -> h[i]]

WireFor ==
    CASE ~ask.tools -> [choice |-> "none", json |-> structured_output_active, messages |-> hist]
      [] client.provider = "google" ->
           [choice |-> IF ask.force THEN "ANY" ELSE "AUTO", json |-> FALSE,
            messages |-> build_tool_request(hist)]
      [] OTHER -> [choice |-> resolve_tool_choice, json |-> FALSE, messages |-> build_messages(hist)]

------------------------------------------------------------------------------
(***************************************************************************)
(* KeyRing::send: every key once, then, after a pause, once more those     *)
(* that reported no limit.                                                 *)
(***************************************************************************)
OtherRequest ==
    /\ lstep = "build" /\ cursor' = (cursor + 1) % NKeys
    /\ UNCHANGED <<client, ask, lstep, ring, body, wire, hist, outcome, sent, served, tried>>

Send ==
    /\ lstep = "build"
    /\ cursor' = (cursor + 1) % NKeys
    /\ ring' = [FreshRing EXCEPT !.start = cursor]
    /\ wire' = WireFor /\ lstep' = "try"
    /\ UNCHANGED <<client, ask, body, hist, outcome, sent, served, tried>>

KeyAt(off) == (ring.start + off) % NKeys

RetriesLimited(pass, limited, off) ==  \* mutant
    {o \in off .. NKeys - 1 : TRUE}
Offsets(pass, limited, off) ==
    {o \in off .. NKeys - 1 : pass = 1 \/ KeyAt(o) \notin limited}

Spent(limited) ==
    /\ lstep' = "done"
    /\ outcome' = [NoOutcome EXCEPT !.kind = IF limited = {} THEN "error" ELSE "rate_limited"]
    /\ ring' = [ring EXCEPT !.limited = limited]

NextKey(limited) ==
    LET rest == Offsets(ring.pass, limited, ring.off + 1)
        again == Offsets(2, limited, 0)
    IN  CASE rest # {} ->
               /\ ring' = [ring EXCEPT !.off = Min(rest), !.limited = limited]
               /\ lstep' = "try" /\ UNCHANGED outcome
          [] rest = {} /\ ring.pass = 1 /\ limited # KeyIds ->
               /\ ring' = [ring EXCEPT !.pass = 2, !.off = Min(again), !.limited = limited]
               /\ lstep' = "pause" /\ UNCHANGED outcome
          [] OTHER -> Spent(limited)

PauseEnds ==
    /\ lstep = "pause" /\ lstep' = "try"
    /\ UNCHANGED <<cursor, client, ask, ring, body, wire, hist, outcome, sent, served, tried>>

\* A failure stops the rotation once the body has begun.
AlwaysRetry(started) == "Retry"  \* mutant
FailureOf(started) == IF started THEN "Stop" ELSE "Retry"

AttemptFails(limit) ==
    /\ body' = NoBody
    /\ IF FailureOf(body.started) = "Stop"
       THEN /\ lstep' = "done" /\ outcome' = [NoOutcome EXCEPT !.kind = "stopped"]
            /\ UNCHANGED ring
       ELSE NextKey(IF limit /\ ring.pass = 1 THEN ring.limited \cup {KeyAt(ring.off)}
                    ELSE ring.limited)

Attempted == [tried EXCEPT ![KeyAt(ring.off)] = Min({@ + 1, 3})]

\* No connection, an HTTP error, a body that cannot be read or parsed, an error
\* object, or a provider nobody implements; 429 is told apart by its text.
RequestFails ==
    /\ lstep = "try" /\ tried' = Attempted
    /\ \E limit \in IF client.provider = "other" THEN {FALSE} ELSE BOOLEAN : AttemptFails(limit)
    /\ UNCHANGED <<cursor, client, ask, wire, hist, sent, served>>

------------------------------------------------------------------------------
(***************************************************************************)
(* Answers.  An OpenAI call arrives in pieces that carry its index; a      *)
(* Gemini call arrives whole, with a signature while thinking.             *)
(***************************************************************************)
Gemini == client.provider = "google"
FrameKinds ==
    {[t |-> "text"], [t |-> "junk"]}
      \cup IF ~ask.tools THEN {}
           ELSE IF Gemini THEN [t : {"call"}, sig : {"none", "sig"}]
           ELSE [t : {"name", "args"}, ix : 1 .. 2]

EmptyAcc == [id |-> 0, named |-> FALSE, args |-> <<>>, sig |-> "none"]

\* The mutant adds a piece to the call that came last.
LastCallOnly(accs, f, n) ==
    LET grown == IF accs = <<>> THEN <<EmptyAcc>> ELSE accs IN
    IF f.t = "name" THEN Append(accs, [EmptyAcc EXCEPT !.named = TRUE, !.id = n])
    ELSE [grown EXCEPT ![Len(grown)].args = Append(@, n)]

Accumulate(accs, f, n) ==
    LET grown == [i \in 1 .. Max({f.ix, Len(accs)}) |->
                    IF i \in DOMAIN accs THEN accs[i] ELSE EmptyAcc] IN
    IF f.t = "name" THEN [grown EXCEPT ![f.ix].named = TRUE, ![f.ix].id = n]
    ELSE [grown EXCEPT ![f.ix].args = Append(@, n)]

\* What frame n of the body changes.
ReadPart(b, f, n) ==
    CASE f.t = "text" -> [b EXCEPT !.text = Append(@, n)]
      [] f.t = "call" -> [b EXCEPT !.accs = Append(@, [id |-> n, named |-> TRUE,
                                                       args |-> <<n>>, sig |-> f.sig])]
      [] f.t \in {"name", "args"} -> [b EXCEPT !.accs = Accumulate(@, f, n)]
      [] OTHER -> b

ToolCallsOf(accs) == Picked(accs, {i \in DOMAIN accs : accs[i].named})

\* Calls win over text.
TurnResult(b) ==
    IF ToolCallsOf(b.accs) # <<>>
    THEN [kind |-> "calls", text |-> <<>>, calls |-> ToolCallsOf(b.accs)]
    ELSE [kind |-> "text", text |-> b.text, calls |-> <<>>]

Finish(o) == lstep' = "done" /\ outcome' = o

\* A whole answer.  Without tools Gemini's client reads the first part only,
\* OpenAI's the message's content.
Whole(parts) == FoldLeftDomain(LAMBDA b, i : ReadPart(b, parts[i], i), NoBody, parts)
google_complete(parts) == IF parts # <<>> /\ parts[1].t = "text" THEN <<1>> ELSE <<>>
openai_complete(parts) == Whole(parts).text
complete(parts) ==
    [NoOutcome EXCEPT !.kind = "text",
        !.text = IF Gemini THEN google_complete(parts) ELSE openai_complete(parts)]

CompleteAnswer ==
    /\ lstep = "try" /\ client.provider # "other" /\ ~ask.stream
    /\ tried' = Attempted
    /\ \E parts \in SeqOf(FrameKinds, 2) :
         /\ \A i \in DOMAIN parts : parts[i].t # "junk"
         /\ served' = parts
         /\ Finish(IF ask.tools THEN TurnResult(Whole(parts)) ELSE complete(parts))
    /\ UNCHANGED <<cursor, client, ask, ring, body, wire, hist, sent>>

StreamBegins ==
    /\ lstep = "try" /\ client.provider # "other" /\ ask.stream
    /\ tried' = Attempted /\ lstep' = "body"
    /\ body' = [NoBody EXCEPT !.started = TRUE] /\ served' = <<>>
    /\ ring' = [ring EXCEPT !.attempt = @ + 1]
    /\ UNCHANGED <<cursor, client, ask, wire, hist, outcome, sent>>

\* A complete frame; its text is forwarded at once.
StreamFrame ==
    /\ lstep = "body" /\ Len(served) + Len(hist) <= MaxFrames
    /\ \E f \in FrameKinds :
         LET n == Len(served) + 1 IN
         /\ served' = Append(served, f)
         /\ body' = ReadPart(body, f, n)
         /\ sent' = IF f.t = "text" THEN Append(sent, <<ring.attempt, n>>) ELSE sent
    /\ UNCHANGED <<cursor, client, ask, lstep, ring, wire, hist, outcome, tried>>

\* A read error or an error frame.
StreamBreaks ==
    /\ lstep = "body"
    /\ AttemptFails(FALSE)
    /\ UNCHANGED <<cursor, client, ask, wire, hist, sent, served, tried>>

\* The end of the body; an unfinished frame is dropped.
StreamEnds ==
    /\ lstep = "body"
    /\ Finish(TurnResult(body))
    /\ UNCHANGED <<cursor, client, ask, ring, body, wire, hist, sent, served, tried>>

------------------------------------------------------------------------------
\* call_provider_with_tools: provider calls to tool calls.
SignatureLost(calls) == [i \in DOMAIN calls |-> [calls[i] EXCEPT !.sig = "none"]]  \* mutant
ToolCallsFrom(calls) == calls

\* The caller runs the calls and asks again with the results.
NextTurn ==
    /\ lstep = "done" /\ outcome.kind = "calls" /\ Len(hist) < 2 * MaxTurns
    /\ LET calls == ToolCallsFrom(outcome.calls) IN
       hist' = hist \o <<[role |-> "calls", calls |-> calls],
                         [role |-> "results", ids |-> [i \in DOMAIN calls |-> calls[i].id]]>>
    /\ lstep' = "build" /\ body' = NoBody /\ sent' = <<>>
    /\ tried' = [k \in KeyIds |-> 0] /\ wire' = NoWire
    /\ served' = <<>> /\ ring' = FreshRing
    /\ UNCHANGED <<cursor, client, ask, outcome>>

LNext ==
    \/ OtherRequest \/ Send \/ PauseEnds \/ RequestFails \/ CompleteAnswer
    \/ StreamBegins \/ StreamFrame \/ StreamBreaks \/ StreamEnds \/ NextTurn
LSpec == LInit /\ [][LNext]_lvars

------------------------------------------------------------------------------
(***************************************************************************)
(* No key rotation duplicates output: every token a caller received in one *)
(* request came from one attempt, and a text answer is those tokens        *)
(* (complete_with_tools_streaming's "retrying would duplicate output").    *)
(***************************************************************************)
StreamedOnce ==
    /\ \A i, j \in DOMAIN sent : sent[i][1] = sent[j][1]
    /\ lstep = "done" /\ ask.stream /\ outcome.kind = "text" =>
         outcome.text = [i \in DOMAIN sent |-> sent[i][2]]

(***************************************************************************)
(* A request that failed on every key tried each key, a limited one once   *)
(* and every other one twice: no quota is spent on a key known to be       *)
(* exhausted and no usable key is left out (LlmClient::complete).          *)
(***************************************************************************)
KeysExhausted ==
    lstep = "done" /\ outcome.kind \in {"error", "rate_limited"} =>
        \A k \in KeyIds : tried[k] = IF k \in ring.limited THEN 1 ELSE 2

(***************************************************************************)
(* The calls of an answer are the calls the server made, however their     *)
(* pieces were interleaved: each named call with its own arguments.        *)
(***************************************************************************)
PiecesOf(ix, t) == LET at == {n \in DOMAIN served : served[n].t = t /\ served[n].ix = ix}
                   IN  Picked([n \in DOMAIN served |-> n], at)
CallsWhole ==
    lstep = "done" /\ outcome.kind = "calls" =>
        IF Gemini THEN \A a \in Range(outcome.calls) : served[a.id] = [t |-> "call", sig |-> a.sig]
        ELSE LET named == {ix \in 1 .. 2 : PiecesOf(ix, "name") # <<>>}
                 order == Picked(<<1, 2>>, named)
             IN  outcome.calls = [i \in DOMAIN order |->
                    [id |-> Last(PiecesOf(order[i], "name")), named |-> TRUE,
                     args |-> PiecesOf(order[i], "args"), sig |-> "none"]]

(***************************************************************************)
(* What the model answered is what the next request replays: every call    *)
(* with its result, and for Gemini with the signature it came with, which  *)
(* the API demands back verbatim.                                          *)
(***************************************************************************)
HistoryReplayed ==
    lstep = "try" /\ Len(hist) = 3 =>
        /\ \E i \in DOMAIN wire.messages :
             /\ wire.messages[i].role = "assistant"
             /\ wire.messages[i].calls = outcome.calls
        /\ \A c \in Range(outcome.calls) : \E i \in DOMAIN wire.messages :
             IF Gemini THEN wire.messages[i].role = "responses" /\ Contains(wire.messages[i].ids, c.id)
             ELSE wire.messages[i].role = "tool" /\ wire.messages[i].id = c.id

(***************************************************************************)
(* A conversation with a model stays whole, whatever keys it is rotated    *)
(* over and however its answers arrive: nothing is streamed twice, no call *)
(* is mixed with another one's arguments, and the next request replays the *)
(* calls with their results (KeyRing::send, complete_with_tools_streaming, *)
(* build_messages).                                                        *)
(***************************************************************************)
ConversationWhole == StreamedOnce /\ CallsWhole /\ HistoryReplayed
=============================================================================
