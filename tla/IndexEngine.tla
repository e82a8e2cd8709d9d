---------------------------- MODULE IndexEngine ----------------------------
(***************************************************************************)
(* The orchestration around the index pipeline for ONE repository          *)
(* (src/src/indexing/mod.rs, watcher.rs, retry_backoff.rs,                 *)
(* rebuild_guard.rs): how a file edit becomes a trigger, how the consumer  *)
(* turns triggers into runs, and what is published when a run ends.        *)
(*                                                                         *)
(*   disk edits -> debouncer -> bounded channel -> consumer -> pipeline    *)
(*   rescan gate, retry timer, cold queries, users  ---^                   *)
(*   consumer -> status table, retry timer, caches (IndexCaches)           *)
(*                                                                         *)
(* A run is abstract here: it takes a set of edits into the index or fails *)
(* (IndexPipeline has its statements).  Concurrent actors: the consumer,   *)
(* the watcher thread, the tasks that wait for room in the channel, the    *)
(* handler that cancels a run and the handler that removes the index.      *)
(***************************************************************************)
EXTENDS Naturals, Sequences, FiniteSets

CONSTANTS
    Edits,          \* file edits made during a behaviour
    ChannelCap,     \* capacity of the trigger channel (256 in the code)
    MaxUpsets       \* bound on what disturbs a behaviour: failing runs, skipped
                    \* files, lost events, handlers, cancels and removing the index

ASSUME EngineAssumption ==
    /\ ChannelCap \in Nat \ {0}
    /\ MaxUpsets \in Nat

VARIABLES
    made,       \* edits made so far
    pending,    \* edits the index does not hold
    retryq,     \* the durable pending_retry queue
    rebuildflag,\* the durable needs_rebuild flag
    events,     \* edits in the debouncer
    watcher,    \* "live" | "polling"
    channel,    \* the trigger channel
    waiting,    \* senders that wait for room in it
    retry,      \* RetryBackoff: a retry is pending
    reserved,   \* IdentityRebuildGuard: the repository is reserved
    lock,       \* the run lock: "free" | "run"
    run,        \* the consumer: [pc, trigger, todo, forced, gen]
    token,      \* the cancellation token: "none" | "live" | "cancelled"
    status,     \* RepoStatus: [state, phase]
    canceller,  \* cancel_index: "idle" | "saw" | "late"
    remover,    \* remove_index: "idle" | "close" | "clear"
    gen,        \* index generation
    waived,     \* edits no component is obliged to remember (history)
    bailed,     \* the last run ended without releasing (history)
    upsets      \* how many disturbances have happened

edits == <<made, pending, retryq, rebuildflag, events, waived>>
triggers == <<watcher, channel, waiting, retry, reserved>>
control == <<lock, run, token, status, canceller, remover, gen, bailed>>
vars == <<edits, triggers, control, upsets>>

-----------------------------------------------------------------------------
(* Triggers and the channel. *)

Trigger == [walk : BOOLEAN, files : SUBSET Edits, rebuild : BOOLEAN, auto : BOOLEAN]
\* IndexTrigger { changes: None }: a scan of the whole repository.
Scan == [walk |-> TRUE, files |-> {}, rebuild |-> FALSE, auto |-> FALSE]
Batch(F) == [Scan EXCEPT !.walk = FALSE, !.files = F]
Rebuild == [Scan EXCEPT !.rebuild = TRUE]
Identity(rebuild) == [Scan EXCEPT !.rebuild = rebuild, !.auto = TRUE]

\* Tasks whose `send` has not completed yet.  `gate` is the watcher's rescan
\* gate, at most one; the retry task; the poller; handlers and cold queries.
Senders == {"gate", "retry", "poll", "user", "identity"}
NoTrigger == Batch({})

\* A permit that becomes free belongs to a waiting sender first.
Full == Len(channel) + Cardinality({s \in Senders : waiting[s] # NoTrigger}) >= ChannelCap

\* tx.send(trigger).await begins; the same sender is not already waiting.
Send(s, t) ==
    /\ waiting[s] = NoTrigger
    /\ waiting' = [waiting EXCEPT ![s] = t]

\* Mutant: a sender does not wait for room.
SendWithoutRoom(s) ==
    /\ waiting[s] # NoTrigger
    /\ channel' = Append(channel, waiting[s])
    /\ waiting' = [waiting EXCEPT ![s] = NoTrigger]
    /\ UNCHANGED <<edits, watcher, retry, reserved, control, upsets>>

\* ... and completes once there is room.
SendCompletes(s) ==
    /\ waiting[s] # NoTrigger
    /\ Len(channel) < ChannelCap
    /\ channel' = Append(channel, waiting[s])
    /\ waiting' = [waiting EXCEPT ![s] = NoTrigger]
    /\ UNCHANGED <<edits, watcher, retry, reserved, control, upsets>>

Covers(t, e) == t.walk \/ t.rebuild \/ e \in t.files

-----------------------------------------------------------------------------
(* The watcher. *)

Edit(e) ==
    /\ e \notin made
    /\ made' = made \cup {e}
    /\ pending' = pending \cup {e}
    /\ events' = IF watcher = "live" THEN events \cup {e} ELSE events
    /\ waived' = IF watcher = "live" THEN waived ELSE waived \cup {e}
    /\ UNCHANGED <<retryq, rebuildflag, triggers, control, upsets>>

\* The operating system overflows its buffer without telling anyone.
LoseEvent(e) ==
    /\ e \in events /\ upsets < MaxUpsets
    /\ events' = events \ {e}
    /\ waived' = waived \cup {e}
    /\ upsets' = upsets + 1
    /\ UNCHANGED <<made, pending, retryq, rebuildflag, triggers, control>>

\* RescanGate::request: nothing if a rescan is already on its way, else a task
\* that sends a scan and then lowers the flag.
request == IF waiting["gate"] # NoTrigger THEN UNCHANGED waiting ELSE Send("gate", Scan)

\* Mutant: a full channel drops the batch.
DispatchDrops ==
    /\ events # {}
    /\ events' = {}
    /\ IF Full THEN UNCHANGED <<channel, waiting>>
               ELSE channel' = Append(channel, Batch(events)) /\ UNCHANGED waiting
    /\ UNCHANGED <<made, pending, retryq, rebuildflag, waived, watcher, retry, reserved,
                   control, upsets>>

\* dispatch, Ok: one batch is offered to the channel; a full channel turns it
\* into a rescan.
dispatch ==
    /\ events # {}
    /\ events' = {}
    /\ IF Full THEN request /\ UNCHANGED channel
               ELSE channel' = Append(channel, Batch(events)) /\ UNCHANGED waiting
    /\ UNCHANGED <<made, pending, retryq, rebuildflag, waived, watcher, retry, reserved,
                   control, upsets>>

\* dispatch, Err: the batch is gone, a rescan replaces it.
DispatchError ==
    /\ events # {} /\ upsets < MaxUpsets
    /\ events' = {}
    /\ request
    /\ upsets' = upsets + 1
    /\ UNCHANGED <<made, pending, retryq, rebuildflag, waived, watcher, channel, retry,
                   reserved, control>>

\* start_watcher, the parked task: a rescan on every tick of the safety net.
SafetyNet ==
    /\ watcher = "live"
    /\ waiting["gate"] = NoTrigger
    /\ request
    /\ UNCHANGED <<edits, watcher, channel, retry, reserved, control, upsets>>

\* run_polling_fallback: a scan every 30 seconds.
Poll ==
    /\ watcher = "polling"
    /\ Send("poll", Scan)
    /\ UNCHANGED <<edits, watcher, channel, retry, reserved, control, upsets>>

-----------------------------------------------------------------------------
(* Requests: handlers and cold queries. *)

\* trigger_index and trigger_rebuild.
trigger_index(rebuild) ==
    /\ upsets < MaxUpsets
    /\ Send("user", IF rebuild THEN Rebuild ELSE Scan)
    /\ upsets' = upsets + 1
    /\ UNCHANGED <<edits, watcher, channel, retry, reserved, control>>

post_index_repo == trigger_index(FALSE)
post_rebuild_repo == trigger_index(TRUE)

\* request_identity_rebuild / request_identity_check of a cold query: only the
\* first one queues a trigger.
request_identity(rebuild) ==
    /\ upsets < MaxUpsets
    /\ ~reserved
    /\ reserved' = TRUE
    /\ Send("identity", Identity(rebuild))
    /\ upsets' = upsets + 1
    /\ UNCHANGED <<edits, watcher, channel, retry, control>>

\* cancel_index, first half: the status says a run is on.
CancelSees ==
    /\ canceller = "idle" /\ upsets < MaxUpsets
    /\ status.state = "Indexing"
    /\ canceller' = "saw"
    /\ upsets' = upsets + 1
    /\ UNCHANGED <<edits, triggers, lock, run, token, status, remover, gen, bailed>>

\* The token leaves the map; a run that holds it stops.
TakeToken == token' = IF token = "live" THEN "cancelled" ELSE token

\* cancel_index, second half: whatever token is in the map now.
CancelTakes ==
    /\ canceller # "idle"
    /\ TakeToken
    /\ canceller' = "idle"
    /\ UNCHANGED <<edits, triggers, lock, run, status, remover, gen, bailed, upsets>>

-----------------------------------------------------------------------------
(* The consumer. *)

Idle == [pc |-> "recv", trigger |-> NoTrigger, todo |-> {}, forced |-> FALSE, gen |-> 0]
At(pc) == run.pc = pc
Goto(pc) == run' = [run EXCEPT !.pc = pc]

\* rx.recv(), and a snapshot of the settings, the generation included.
Receive ==
    /\ At("recv") /\ channel # <<>>
    /\ run' = [Idle EXCEPT !.pc = "lock", !.trigger = Head(channel), !.gen = gen]
    /\ channel' = Tail(channel)
    /\ UNCHANGED <<edits, watcher, waiting, retry, reserved, lock, token, status, canceller,
                   remover, gen, bailed, upsets>>

\* The run lock, then a fresh cancellation token.
new_cancel_token ==
    /\ At("lock") /\ lock = "free"
    /\ lock' = "run"
    /\ token' = "live"
    /\ Goto("mark")
    /\ UNCHANGED <<edits, triggers, status, canceller, remover, gen, bailed, upsets>>

MarkIndexing ==
    /\ At("mark")
    /\ status' = [state |-> "Indexing", phase |-> "Embedding"]
    /\ Goto("client")
    /\ UNCHANGED <<edits, triggers, lock, token, canceller, remover, gen, bailed, upsets>>

\* The edits a trigger names, which the run that ends will not take.
Named == {e \in pending : Covers(run.trigger, e)} \cup retryq

\* Leaving the loop body early: the token is cleared and the run lock dropped.
\* A canceller that saw this run is late from here on.
LeaveRun ==
    /\ run' = Idle
    /\ lock' = "free"
    /\ token' = "none"
    /\ canceller' = IF canceller = "saw" THEN "late" ELSE canceller

\* No keys: Error, the reservation is released.
NoKeys ==
    /\ At("client") /\ upsets < MaxUpsets
    /\ status' = [state |-> "Error", phase |-> "Idle"]
    /\ reserved' = FALSE /\ bailed' = FALSE
    /\ waived' = waived \cup Named
    /\ upsets' = upsets + 1
    /\ LeaveRun
    /\ UNCHANGED <<made, pending, retryq, rebuildflag, events, watcher, channel, waiting,
                   retry, remover, gen>>

\* VoyageClient::new_for_provider or open_or_reset_index fails: Error, and the
\* reservation is NOT released.  The second leaves the phase as it was.
Bail(pc, phase) ==
    /\ At(pc) /\ upsets < MaxUpsets
    /\ status' = [state |-> "Error", phase |-> phase]
    /\ bailed' = TRUE
    /\ waived' = waived \cup Named
    /\ upsets' = upsets + 1
    /\ LeaveRun
    /\ UNCHANGED <<made, pending, retryq, rebuildflag, events, watcher, channel, waiting,
                   retry, reserved, remover, gen>>

ClientFails == Bail("client", "Idle")
OpenFails == Bail("open", status.phase)

ClientBuilt ==
    /\ At("client")
    /\ Goto("open")
    /\ UNCHANGED <<edits, triggers, lock, token, status, canceller, remover, gen, bailed,
                   upsets>>

\* The database of the run is the repository's index (it was not removed after
\* the settings were read).
Current == run.gen = gen

\* Mutant: a scan takes only what its trigger names.
ScanTakesNothing ==
    /\ At("open")
    /\ run' = [run EXCEPT !.pc = "run", !.todo = retryq \cup run.trigger.files]
    /\ UNCHANGED <<edits, triggers, lock, token, status, canceller, remover, gen, bailed, upsets>>

\* The database is open and no migration runs: the durable flag forces a
\* rebuild, which deletes everything first; otherwise the run takes the edits
\* of its trigger and the retry queue.
StartRun ==
    /\ At("open")
    /\ LET forced == run.trigger.rebuild \/ (rebuildflag /\ Current)
           walked == forced \/ run.trigger.walk
       IN  /\ pending' = IF forced /\ Current THEN made ELSE pending
           /\ run' = [run EXCEPT !.pc = "run", !.forced = forced,
                        !.todo = retryq \cup (IF walked THEN pending' ELSE run.trigger.files)]
    /\ UNCHANGED <<made, retryq, rebuildflag, events, waived, triggers, lock, token, status,
                   canceller, remover, gen, bailed, upsets>>

\* ProgressHandle::set_phase, as the pipeline reaches its stages.
set_phase ==
    /\ At("run")
    /\ \/ status.phase = "Embedding" /\ status' = [status EXCEPT !.phase = "SymbolIndex"]
       \/ status.phase = "SymbolIndex" /\ status' = [status EXCEPT !.phase = "ResolveEdges"]
    /\ UNCHANGED <<edits, triggers, lock, run, token, canceller, remover, gen, bailed,
                   upsets>>

\* RetryBackoff::schedule: at most one pending retry.  (The attempt count only
\* sets the delay, and RetryBackoff::reset only the attempt count.)
schedule == retry' = TRUE

\* The pipeline returns Ok: all of todo is in the index except the files it
\* skipped for a transient reason, which are queued.
RunOk(skipped) ==
    /\ At("run")
    /\ skipped \subseteq run.todo \cap pending /\ upsets + Cardinality(skipped) <= MaxUpsets
    /\ upsets' = upsets + Cardinality(skipped)
    /\ IF Current
       THEN /\ pending' = pending \ (run.todo \ skipped)
            /\ retryq' = (retryq \ run.todo) \cup skipped
            /\ waived' = waived \ run.todo
       ELSE waived' = waived \cup run.todo /\ UNCHANGED <<pending, retryq>>
    /\ status' = [state |-> "Idle", phase |-> "Idle"]
    /\ Goto("settle")
    /\ UNCHANGED <<made, rebuildflag, events, triggers, lock, token, canceller, remover, gen,
                   bailed>>

\* The rest of the Ok branch: retry what was skipped or reset the backoff,
\* clear the flag of a forced run (IndexCaches has what else is published).
Settle ==
    /\ At("settle")
    /\ IF retryq # {} /\ Current THEN schedule ELSE UNCHANGED retry
    /\ rebuildflag' = (rebuildflag /\ ~(run.forced /\ Current))
    /\ Goto("release")
    /\ UNCHANGED <<made, pending, retryq, events, waived, watcher, channel, waiting, reserved,
                   lock, token, status, canceller, remover, gen, bailed, upsets>>

\* The pipeline sees its token cancelled: Idle, no retry.
RunCancelled ==
    /\ At("run") /\ token = "cancelled"
    /\ status' = [state |-> "Idle", phase |-> "Idle"]
    /\ waived' = waived \cup run.todo
    /\ Goto("release")
    /\ UNCHANGED <<made, pending, retryq, rebuildflag, events, triggers, lock, token,
                   canceller, remover, gen, bailed, upsets>>

\* The pipeline fails: the next run rebuilds (a best-effort write), and unless
\* the embedding client is to blame a retry is scheduled.
RunFails(flagged, fatal) ==
    /\ At("run") /\ upsets < MaxUpsets
    /\ rebuildflag' = (rebuildflag \/ (flagged /\ Current))
    /\ status' = [state |-> "Error", phase |-> "Idle"]
    /\ IF fatal THEN UNCHANGED retry ELSE schedule
    /\ waived' = IF fatal THEN waived \cup run.todo ELSE waived
    /\ upsets' = upsets + 1
    /\ Goto("release")
    /\ UNCHANGED <<made, pending, retryq, events, watcher, channel, waiting, reserved, lock,
                   token, canceller, remover, gen, bailed>>

\* Mutant: the reservation survives the run.
KeepReservation ==
    /\ At("release")
    /\ bailed' = FALSE
    /\ LeaveRun
    /\ UNCHANGED <<edits, triggers, status, remover, gen, upsets>>

\* The end of the loop body.
Release ==
    /\ At("release")
    /\ reserved' = FALSE /\ bailed' = FALSE
    /\ LeaveRun
    /\ UNCHANGED <<edits, watcher, channel, waiting, retry, status, remover, gen, upsets>>

\* The retry's timer: it is no longer pending, then its trigger is sent.
RetryFires ==
    /\ retry
    /\ retry' = FALSE
    /\ Send("retry", Scan)
    /\ UNCHANGED <<edits, watcher, channel, reserved, control, upsets>>

-----------------------------------------------------------------------------
(* Removal of the index. *)

\* close_repo_db: cancel what runs, then wait for the run lock ...
RemoveCancels ==
    /\ remover = "idle" /\ upsets < MaxUpsets
    /\ upsets' = upsets + 1
    /\ IF status.state = "Indexing" THEN TakeToken ELSE UNCHANGED token
    /\ remover' = "close"
    /\ UNCHANGED <<edits, triggers, lock, run, status, canceller, gen, bailed>>

\* ... and drop the handle under it.
RemoveCloses ==
    /\ remover = "close" /\ lock = "free"
    /\ remover' = "clear"
    /\ UNCHANGED <<edits, triggers, lock, run, token, status, canceller, gen, bailed,
                   upsets>>

\* clear_repo_index and the generation bump: the status is reset whatever runs
\* by then, the new database is empty.
clear_repo_index ==
    /\ remover = "clear"
    /\ status' = [state |-> "Idle", phase |-> "Idle"]
    /\ gen' = gen + 1
    /\ pending' = made /\ retryq' = {} /\ rebuildflag' = FALSE
    /\ waived' = made
    /\ remover' = "idle"
    /\ UNCHANGED <<made, events, triggers, lock, run, token, canceller, bailed, upsets>>

-----------------------------------------------------------------------------
(* Specification. *)

Init ==
    /\ made = {} /\ pending = {} /\ retryq = {} /\ rebuildflag = FALSE /\ events = {}
    /\ watcher \in {"live", "polling"}
    /\ channel = <<>> /\ waiting = [s \in Senders |-> NoTrigger]
    /\ retry = FALSE
    /\ reserved = FALSE
    /\ lock = "free" /\ run = Idle /\ token = "none"
    /\ status = [state |-> "Idle", phase |-> "Idle"]
    /\ canceller = "idle" /\ remover = "idle" /\ gen = 0
    /\ waived = {} /\ bailed = FALSE
    /\ upsets = 0

Watching ==
    \/ \E e \in Edits : Edit(e) \/ LoseEvent(e)
    \/ dispatch \/ DispatchError \/ SafetyNet \/ Poll

Requests ==
    \/ post_index_repo \/ post_rebuild_repo
    \/ \E rebuild \in BOOLEAN : request_identity(rebuild)
    \/ CancelSees \/ CancelTakes
    \/ RemoveCancels \/ RemoveCloses \/ clear_repo_index
    \/ \E s \in Senders : SendCompletes(s)
    \/ RetryFires

Consumer ==
    \/ Receive \/ new_cancel_token \/ MarkIndexing
    \/ NoKeys \/ ClientFails \/ ClientBuilt \/ OpenFails \/ StartRun \/ set_phase
    \/ \E skipped \in SUBSET run.todo : RunOk(skipped)
    \/ Settle \/ RunCancelled
    \/ \E flagged, fatal \in BOOLEAN : RunFails(flagged, fatal)
    \/ Release

Next == Watching \/ Requests \/ Consumer

\* The consumer goes on and a run that meets no fault ends.
Progress ==
    \/ Receive \/ new_cancel_token \/ MarkIndexing \/ ClientBuilt \/ StartRun \/ RunOk({})
    \/ Settle \/ Release

\* The tasks are spawned and run to completion: timers fire, a waiting send gets
\* its permit (tokio queues senders fairly), the consumer goes on.  Nothing
\* forces an edit, a request or a fault, and no event has to arrive.
Fairness ==
    /\ WF_vars(SafetyNet) /\ WF_vars(Poll)
    /\ SF_vars(SendCompletes("gate")) /\ SF_vars(SendCompletes("poll"))
    /\ WF_vars(Progress)

Spec == Init /\ [][Next]_vars /\ Fairness

-----------------------------------------------------------------------------
(* Properties. *)

\* Type invariant; no trigger in the channel is empty and its capacity holds.
TypeOK ==
    /\ pending \subseteq made /\ made \subseteq Edits /\ events \subseteq made
    /\ retryq \subseteq made /\ waived \subseteq Edits
    /\ channel \in Seq(Trigger \ {NoTrigger}) /\ Len(channel) <= ChannelCap
    /\ waiting \in [Senders -> Trigger]
    /\ watcher \in {"live", "polling"}
    /\ retry \in BOOLEAN /\ reserved \in BOOLEAN /\ bailed \in BOOLEAN
    /\ lock \in {"free", "run"}
    /\ (lock = "run") = (run.pc \notin {"recv", "lock"})
    /\ run.todo \subseteq made /\ run.trigger \in Trigger
    /\ token \in {"none", "live", "cancelled"}
    /\ status.state \in {"Idle", "Indexing", "Error"}
    /\ canceller \in {"idle", "saw", "late"}

\* No edit is forgotten: an edit the index does not hold is in the debouncer,
\* or covered by a trigger that is queued or waits for room, or by the current
\* run, or by an armed retry; otherwise the operating system lost its event,
\* or its run was cancelled or could not start, and the next scan is due for it.
EditTracked ==
    \A e \in pending :
        \/ e \in waived \cup events
        \/ \E i \in DOMAIN channel : Covers(channel[i], e) \/ e \in retryq
        \/ \E s \in Senders : Covers(waiting[s], e)
        \/ retry
        \/ run.pc \in {"lock", "mark", "client", "open"}
             /\ (Covers(run.trigger, e) \/ e \in retryq)
        \/ run.pc = "run" /\ e \in run.todo
        \/ run.pc = "settle" /\ e \in retryq

\* The single-flight reservation of an identity rebuild belongs to a trigger
\* under way or to a run that will release it, unless the last run could not
\* build its client or open its database and left without releasing it.
ReservationOwned ==
    reserved =>
        \/ waiting["identity"] # NoTrigger
        \/ \E i \in DOMAIN channel : channel[i].auto
        \/ run.pc # "recv"
        \/ bailed

\* An edit that is made becomes part of the index, whatever was lost on the
\* way: the safety-net scan and the poller repair what triggers missed.
EventuallyIndexed == \A e \in Edits : e \in pending ~> e \notin pending

\* `phase` is Idle unless the repository is indexing.
PhaseIdleUnlessIndexing == status.state # "Indexing" => status.phase = "Idle"

\* Cancelling affects the run the canceller saw, not a later one.
CancelHitsItsRun == [][canceller = "late" /\ canceller' = "idle" => token' = token]_vars
=============================================================================
