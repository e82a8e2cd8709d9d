------------------------------ MODULE MCQuery -------------------------------
(***************************************************************************)
(* The query pipeline, its agentic reranker, its pure functions, the model *)
(* clients, the chat and the chat's tools share one run.  They share no    *)
(* variable: a behaviour looks at one of them, chosen at the start, and    *)
(* the others stay as they are, so TLC explores the sum of their state     *)
(* spaces and not their product.                                           *)
(***************************************************************************)
EXTENDS QueryEngine, AgenticRerank, ResultShaping, ModelClients, Chat, AgentTools

VARIABLE focus

MCRanking == <<"c1", "c2", "d1">>
MCDocChunks == {"d1"}
MCCalls == {<<"c1", "c2">>, <<"c2", "c1">>, <<"c2", "d1">>, <<"d1", "c2">>}
MCFilters == {[through |-> {"c1", "c2", "d1"}, exact |-> {"c1", "c2", "d1"}, fuzzy |-> {}],
              [through |-> {"c2", "d1"}, exact |-> {"c1"}, fuzzy |-> {"d1"}]}
MCCanon == [q \in {"a", "A", "b"} |-> IF q = "A" THEN "a" ELSE q]

PlainRequest == [scope |-> "none", filter |-> [through |-> QChunks, exact |-> QChunks,
                 fuzzy |-> {}], full |-> TRUE, reranker |-> "Off"]
PlainClient == [provider |-> "other", structured |-> FALSE, endpoint |-> "default",
                force_on_custom |-> FALSE]
PlainAsk == [tools |-> FALSE, stream |-> FALSE, force |-> FALSE]

(* A component in the one state it keeps while another is looked at *)
QIdle == QInit /\ request = PlainRequest /\ resident = TRUE
HIdle == job = "idle" /\ input = {} /\ computed = FALSE /\ output = {}
LIdle == cursor = 0 /\ client = PlainClient /\ ask = PlainAsk /\ LInit
CIdle == convs = <<>> /\ CInit
TIdle == tool = "docs" /\ given = [docs |-> <<>>] /\ result = [taken |-> <<>>, over |-> FALSE]

MCInit ==
    \/ focus = "query" /\ QInit /\ RInit /\ HIdle /\ LIdle /\ CIdle /\ TIdle
    \/ focus = "agent" /\ QIdle /\ RInit /\ HIdle /\ LIdle /\ CIdle /\ TIdle
    \/ focus = "shape" /\ QIdle /\ RInit /\ HInit /\ LIdle /\ CIdle /\ TIdle
    \/ focus = "model" /\ QIdle /\ RInit /\ HIdle /\ LInit /\ CIdle /\ TIdle
    \/ focus = "chat"  /\ QIdle /\ RInit /\ HIdle /\ LIdle /\ CInit /\ TIdle
    \/ focus = "tools" /\ QIdle /\ RInit /\ HIdle /\ LIdle /\ CIdle /\ TInit

MCNext ==
    /\ UNCHANGED focus
    /\ \/ focus = "query" /\ QNext /\ UNCHANGED <<rvars, hvars, lvars, cvars, tvars>>
       \/ focus = "agent" /\ RNext /\ UNCHANGED <<qvars, hvars, lvars, cvars, tvars>>
       \/ focus = "shape" /\ HNext /\ UNCHANGED <<qvars, rvars, lvars, cvars, tvars>>
       \/ focus = "model" /\ LNext /\ UNCHANGED <<qvars, rvars, hvars, cvars, tvars>>
       \/ focus = "chat"  /\ CNext /\ UNCHANGED <<qvars, rvars, hvars, lvars, tvars>>
       \/ focus = "tools" /\ TNext /\ UNCHANGED <<qvars, rvars, hvars, lvars, cvars>>

MCSpec == MCInit /\ [][MCNext]_<<qvars, rvars, hvars, lvars, cvars, tvars, focus>>
=============================================================================
