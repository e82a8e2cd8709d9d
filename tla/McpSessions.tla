---------------------------- MODULE McpSessions -----------------------------
(***************************************************************************)
(* MCP sessions of a process that is restarted now and then                *)
(* (src/mcp_session_store.rs and handle_repo_mcp of src/server.rs): live   *)
(* sessions are dropped when idle and restored from a bounded store, whose *)
(* entries are also files that outlive the process.  The first requests of *)
(* a repository may each build a service; the one inserted last is kept.   *)
(***************************************************************************)
EXTENDS Integers, Sequences, FiniteSets, SequencesExt

CONSTANTS
    Sessions,
    MAX_SESSIONS,
    Clients,        \* requests in flight at a time
    MaxServices     \* bound of the model: services built

ASSUME SessionConstants == MAX_SESSIONS \in Nat \ {0} /\ MaxServices \in Nat

VARIABLES
    kept,       \* BoundedSessionStore in memory, least recently used first
    stored,     \* sessions with a file
    service,    \* the repository's entry of repo_mcp_services, 0 for none
    built_svc,  \* services built so far
    live,       \* <<service, session>> of rmcp's LocalSessionManagers
    call,       \* per client, the request in flight
    issued,     \* history: sessions a client was told of
    gone,       \* history: sessions deleted, evicted, or not written when stored
    unread      \* clients whose load just found a file it could not make out

kvars == <<kept, stored, service, built_svc, live, call, issued, gone, unread>>
NoCall == [pc |-> "none", op |-> "", id |-> "", svc |-> 0]

KInit ==
    /\ kept = <<>> /\ stored = {} /\ service = 0 /\ built_svc = 0 /\ live = {}
    /\ call = [c \in Clients |-> NoCall] /\ issued = {} /\ gone = {}
    /\ unread = {}

Moves(c, e) == call' = [call EXCEPT ![c] = e]
Answer(c) == Moves(c, NoCall)
AtStep(c, pc) == call[c].pc = pc

Arrive(c) ==
    /\ AtStep(c, "none")
    /\ \E s \in Sessions, op \in {"initialize", "use", "delete"} :
         /\ (op = "initialize") = (s \notin issued)
         /\ op = "initialize" => \A d \in Clients : call[d].id # s
         /\ Moves(c, [pc |-> "route", op |-> op, id |-> s, svc |-> 0])
    /\ UNCHANGED <<kept, stored, service, built_svc, live, issued, gone, unread>>

------------------------------------------------------------------------------
(***************************************************************************)
(* handle_repo_mcp: the cache is read, and a service built without a lock. *)
(***************************************************************************)
handle_repo_mcp(c) ==
    /\ AtStep(c, "route")
    /\ IF service # 0
       THEN Moves(c, [call[c] EXCEPT !.pc = "serve", !.svc = service]) /\ UNCHANGED built_svc
       ELSE /\ built_svc < MaxServices /\ built_svc' = built_svc + 1
            /\ Moves(c, [call[c] EXCEPT !.pc = "insert", !.svc = built_svc + 1])
    /\ UNCHANGED <<kept, stored, service, live, issued, gone, unread>>

InsertService(c) ==
    /\ AtStep(c, "insert") /\ service' = call[c].svc
    /\ Moves(c, [call[c] EXCEPT !.pc = "serve"])
    /\ UNCHANGED <<kept, stored, built_svc, live, issued, gone, unread>>

\* rmcp: a live session answers, another one is looked up in the store.
Serve(c) ==
    LET me == <<call[c].svc, call[c].id>> IN
    /\ AtStep(c, "serve")
    /\ CASE call[c].op = "initialize" -> live' = live \cup {me} /\ Moves(c, [call[c] EXCEPT !.pc = "store"])
         [] call[c].op = "delete"     -> live' = live \ {me} /\ Moves(c, [call[c] EXCEPT !.pc = "forget"])
         [] call[c].op = "use" /\ me \in live    -> Answer(c) /\ UNCHANGED live
         [] call[c].op = "use" /\ me \notin live -> Moves(c, [call[c] EXCEPT !.pc = "load"]) /\ UNCHANGED live
    /\ UNCHANGED <<kept, stored, service, built_svc, issued, gone, unread>>

------------------------------------------------------------------------------
(***************************************************************************)
(* BoundedSessionStore.  load and store hold its lock throughout, delete   *)
(* only while it changes memory.                                           *)
(***************************************************************************)
Others(s) == SelectSeq(kept, LAMBDA x : x # s)
\* The oldest entries, until one more fits.
evict_to_cap == IF Len(kept) >= MAX_SESSIONS THEN SubSeq(kept, 1, Len(kept) - MAX_SESSIONS + 1) ELSE <<>>
Room(victims) == SubSeq(kept, Len(victims) + 1, Len(kept))

store(c) ==
    LET s == call[c].id
        victims == IF Contains(kept, s) THEN <<>> ELSE evict_to_cap
    IN  /\ AtStep(c, "store")
        /\ kept' = Append(SelectSeq(Room(victims), LAMBDA x : x # s), s)
        /\ \E written \in BOOLEAN :
             /\ stored' = (IF written THEN stored \cup {s} ELSE stored) \ Range(victims)
             /\ gone' = gone \cup Range(victims) \cup (IF written THEN {} ELSE {s})
        /\ issued' = issued \cup {s} /\ Answer(c)
        /\ UNCHANGED <<service, built_svc, live, unread>>

\* What a load finds on disk: the read may fail, or yield bytes that are no session
\* (a file damaged from outside).  The mutant knows memory only.
NothingOnDisk(s, readable) == FALSE
load_from_disk(s, readable) == s \in stored /\ readable

load(c) ==
    LET s == call[c].id
        me == <<call[c].svc, s>>
    IN  /\ AtStep(c, "load")
        /\ \E readable \in BOOLEAN :
             CASE Contains(kept, s) ->
                    /\ kept' = Append(Others(s), s) /\ live' = live \cup {me}
                    /\ Answer(c) /\ UNCHANGED <<stored, gone, unread>>
               [] ~Contains(kept, s) /\ load_from_disk(s, readable) ->
                    /\ kept' = Append(Room(evict_to_cap), s) /\ live' = live \cup {me}
                    /\ stored' = stored \ Range(evict_to_cap)
                    /\ gone' = gone \cup Range(evict_to_cap) /\ Answer(c) /\ UNCHANGED unread
               [] OTHER -> /\ Moves(c, [call[c] EXCEPT !.pc = "404"])
                           /\ unread' = IF s \in stored /\ ~readable THEN unread \cup {c} ELSE unread
                           /\ UNCHANGED <<kept, stored, live, gone>>
        /\ UNCHANGED <<service, built_svc, issued>>

\* The client got "Session not found" and will initialize again.
NotFound(c) ==
    /\ AtStep(c, "404") /\ Answer(c) /\ unread' = unread \ {c}
    /\ UNCHANGED <<kept, stored, service, built_svc, live, issued, gone>>

delete(c) ==
    /\ AtStep(c, "forget") /\ kept' = Others(call[c].id)
    /\ gone' = gone \cup {call[c].id}
    /\ Moves(c, [call[c] EXCEPT !.pc = "unlink"])
    /\ UNCHANGED <<stored, service, built_svc, live, issued, unread>>

delete_from_disk(c) ==
    /\ AtStep(c, "unlink") /\ stored' = stored \ {call[c].id} /\ Answer(c)
    /\ UNCHANGED <<kept, service, built_svc, live, issued, gone, unread>>

------------------------------------------------------------------------------
\* rmcp drops a session that was idle; the store keeps it.
IdleTimeout(x) ==
    /\ x \in live /\ live' = live \ {x}
    /\ UNCHANGED <<kept, stored, service, built_svc, call, issued, gone, unread>>

\* The worker exits and another one starts: only the files are left.
RestartProcess ==
    /\ kept' = <<>> /\ live' = {} /\ service' = 0
    /\ call' = [c \in Clients |-> NoCall] /\ unread' = {}
    /\ UNCHANGED <<stored, built_svc, issued, gone>>

KNext ==
    \/ \E c \in Clients : \/ Arrive(c) \/ handle_repo_mcp(c) \/ InsertService(c) \/ Serve(c)
                          \/ store(c) \/ load(c) \/ NotFound(c) \/ delete(c) \/ delete_from_disk(c)
    \/ \E x \in live : IdleTimeout(x)
    \/ RestartProcess
KSpec == KInit /\ [][KNext]_kvars

------------------------------------------------------------------------------
(***************************************************************************)
(* No client loses its session to an idle timeout, to a second service of  *)
(* its repository or to a restart of the worker: "Session not found" is    *)
(* answered only for a session that was deleted, evicted, or could not be  *)
(* written, or whose file this very load could not read or make out.       *)
(***************************************************************************)
SessionSurvives == \A c \in Clients : AtStep(c, "404") => call[c].id \in gone \/ c \in unread

(***************************************************************************)
(* A deleted session cannot be restored.  A load between the two halves of *)
(* delete puts it back.                                                    *)
(***************************************************************************)
DeletedStaysDeleted ==
    [][\A c \in Clients : AtStep(c, "unlink") /\ ~(AtStep(c, "unlink"))' =>
          ~Contains(kept', call[c].id)]_kvars

(***************************************************************************)
(* Eviction takes sessions nobody uses.  A live session's requests do not  *)
(* reach the store, so a busy session ages in it like an idle one.         *)
(***************************************************************************)
EvictsUnused ==
    [][\A s \in gone' \ gone : s \in stored \ stored' => ~\E v \in 1 .. MaxServices : <<v, s>> \in live]_kvars
=============================================================================
