---------------------------- MODULE EngineProofs ----------------------------
(***************************************************************************)
(* Proofs about IndexEngine, for any set of edits, any capacity of the     *)
(* trigger channel and any number of disturbances: no edit is forgotten    *)
(* and no rebuild reservation is left without an owner.  And about         *)
(* IndexCaches: the statistics catch up with the last completed run.       *)
(***************************************************************************)
EXTENDS IndexEngine, IndexCaches, FiniteSetTheorems, TLAPS

Places == {"recv", "lock", "mark", "client", "open", "run", "settle", "release"}
Runs == [pc : Places, trigger : Trigger, todo : SUBSET Edits, forced : BOOLEAN, gen : Nat]
Statuses == [state : {"Idle", "Indexing", "Error"},
             phase : {"Idle", "Embedding", "SymbolIndex", "ResolveEdges"}]

\* The types the steps below rest on: TypeOK with the fields it leaves out.
TypeInv ==
    /\ TypeOK
    /\ run \in Runs /\ status \in Statuses /\ gen \in Nat
    /\ rebuildflag \in BOOLEAN

\* What a waiting sender carries: timers and the watcher send scans, a cold
\* query a trigger that owns the reservation.
SendersCarry ==
    /\ \A s \in {"gate", "retry", "poll"} : waiting[s] \in {NoTrigger, Scan}
    /\ waiting["identity"] # NoTrigger => waiting["identity"].auto

\* A trigger names only edits that were made.
FilesMade ==
    /\ \A i \in DOMAIN channel : channel[i].files \subseteq made
    /\ \A s \in Senders : waiting[s].files \subseteq made
    /\ run.trigger.files \subseteq made

\* A run that outlived its index finds nothing in the retry queue of the new one.
RetryQueueOfRun == run.pc # "recv" /\ run.gen # gen => retryq = {}

\* The inductive invariant.
Shape == TypeInv /\ SendersCarry /\ FilesMade
EngineInv == Shape /\ RetryQueueOfRun /\ EditTracked /\ ReservationOwned

-----------------------------------------------------------------------------
(* Triggers and the channel                                                *)

\* The triggers the senders build: what they carry and that none is empty.
LEMMA TriggerFacts ==
  /\ NoTrigger \in Trigger /\ NoTrigger.files = {}
  /\ ~NoTrigger.walk /\ ~NoTrigger.rebuild /\ ~NoTrigger.auto
  /\ Scan \in Trigger \ {NoTrigger} /\ Scan.walk /\ Scan.files = {}
  /\ Rebuild \in Trigger \ {NoTrigger} /\ Rebuild.files = {}
  /\ \A b \in BOOLEAN : /\ Identity(b) \in Trigger \ {NoTrigger}
                        /\ Identity(b).auto /\ Identity(b).files = {}
  /\ \A F \in SUBSET Edits : /\ Batch(F) \in Trigger /\ Batch(F).files = F
                             /\ F # {} => Batch(F) # NoTrigger
BY DEF NoTrigger, Trigger, Scan, Rebuild, Identity, Batch

\* A trigger more in the channel keeps those before it.
LEMMA AppendFacts ==
  ASSUME NEW c \in Seq(Trigger \ {NoTrigger}), NEW t \in Trigger \ {NoTrigger}
  PROVE  /\ Append(c, t) \in Seq(Trigger \ {NoTrigger})
         /\ Len(Append(c, t)) = Len(c) + 1
         /\ DOMAIN Append(c, t) = DOMAIN c \cup {Len(c) + 1}
         /\ \A i \in DOMAIN c : Append(c, t)[i] = c[i]
         /\ Append(c, t)[Len(c) + 1] = t
OBVIOUS

\* Taking the first trigger moves the others up by one.
LEMMA TailFacts ==
  ASSUME NEW c \in Seq(Trigger \ {NoTrigger}), c # <<>>
  PROVE  /\ Tail(c) \in Seq(Trigger \ {NoTrigger})
         /\ Len(Tail(c)) = Len(c) - 1 /\ Len(c) \in Nat /\ 1 \in DOMAIN c
         /\ Head(c) = c[1] /\ c[1] \in Trigger \ {NoTrigger}
         /\ \A i \in DOMAIN Tail(c) : i + 1 \in DOMAIN c /\ Tail(c)[i] = c[i + 1]
         /\ \A i \in DOMAIN c : i = 1 \/ (i - 1 \in DOMAIN Tail(c) /\ Tail(c)[i - 1] = c[i])
OBVIOUS

\* A channel that is not full has room for one trigger more.
LEMMA RoomWhenNotFull ==
  ASSUME ~Full, channel \in Seq(Trigger \ {NoTrigger})
  PROVE  Len(channel) < ChannelCap
<1> DEFINE W == {s \in Senders : waiting[s] # NoTrigger}
<1>1. IsFiniteSet(Senders)
  <2>1. Senders = (((({} \cup {"gate"}) \cup {"retry"}) \cup {"poll"}) \cup {"user"})
                    \cup {"identity"}
    BY DEF Senders
  <2>2. \A S, x : IsFiniteSet(S) => IsFiniteSet(S \cup {x})
    BY FS_AddElement
  <2> QED
    BY <2>1, <2>2, FS_EmptySet
<1>2. Cardinality(W) \in Nat
  BY <1>1, FS_Subset, FS_CardinalityType
<1>3. ~(Len(channel) + Cardinality(W) >= ChannelCap)
  BY DEF Full
<1> HIDE DEF W
<1> QED
  BY <1>2, <1>3, EngineAssumption

\* A sender that starts to wait.
LEMMA SendFacts ==
  ASSUME Shape, NEW s \in Senders, NEW t \in Trigger \ {NoTrigger}, Send(s, t)
  PROVE  /\ waiting' \in [Senders -> Trigger] /\ waiting'[s] = t
         /\ waiting[s] = NoTrigger
         /\ \A r \in Senders \ {s} : waiting'[r] = waiting[r]
BY DEF Shape, TypeInv, TypeOK, Send

-----------------------------------------------------------------------------
(* Types: the shape of the state is kept by every step                     *)

\* Steps that leave the triggers alone and move neither lock nor run.
LEMMA ShapeFrame ==
  ASSUME Shape, UNCHANGED <<triggers, lock, run, gen, bailed>>,
         made \subseteq made', made' \subseteq Edits,
         pending' \subseteq made', events' \subseteq made', retryq' \subseteq made',
         waived' \subseteq Edits, rebuildflag' \in BOOLEAN, status' \in Statuses,
         token' \in {"none", "live", "cancelled"}, canceller' \in {"idle", "saw", "late"}
  PROVE  Shape'
<1>1. TypeOK'
  BY DEF Shape, TypeInv, TypeOK, triggers, Statuses
<1>2. TypeInv'
  BY <1>1 DEF Shape, TypeInv
<1>3. SendersCarry' /\ FilesMade'
  BY DEF Shape, SendersCarry, FilesMade, triggers
<1> QED
  BY <1>2, <1>3 DEF Shape

\* Steps that change only the channel, the waiting senders and single bits.
LEMMA ShapeSend ==
  ASSUME Shape, UNCHANGED <<made, pending, retryq, rebuildflag, waived, watcher, control>>,
         events' \subseteq events, retry' \in BOOLEAN, reserved' \in BOOLEAN,
         channel' \in Seq(Trigger \ {NoTrigger}), Len(channel') <= ChannelCap,
         waiting' \in [Senders -> Trigger], SendersCarry',
         \A i \in DOMAIN channel' : channel'[i].files \subseteq made,
         \A s \in Senders : waiting'[s].files \subseteq made
  PROVE  Shape'
<1>1. TypeOK'
  BY DEF Shape, TypeInv, TypeOK, control
<1>2. TypeInv'
  BY <1>1 DEF Shape, TypeInv, control
<1>3. FilesMade'
  BY DEF Shape, FilesMade, control
<1> QED
  BY <1>2, <1>3 DEF Shape

\* A waiting sender keeps what senders carry.
LEMMA SendCarries ==
  ASSUME Shape, NEW s \in Senders, NEW t \in Trigger \ {NoTrigger}, Send(s, t),
         t.files \subseteq made,
         s \in {"gate", "retry", "poll"} => t = Scan,
         s = "identity" => t.auto
  PROVE  /\ SendersCarry' /\ waiting' \in [Senders -> Trigger]
         /\ \A r \in Senders : waiting'[r].files \subseteq made
<1>1. /\ waiting' \in [Senders -> Trigger] /\ waiting'[s] = t
      /\ \A r \in Senders \ {s} : waiting'[r] = waiting[r]
  BY SendFacts
<1>2. SendersCarry'
  BY <1>1 DEF Shape, SendersCarry, Senders
<1> QED
  BY <1>1, <1>2 DEF Shape, FilesMade

\* request: the gate waits afterwards with a scan, and nobody else moves.
LEMMA RequestFacts ==
  ASSUME Shape, request
  PROVE  /\ SendersCarry' /\ waiting' \in [Senders -> Trigger] /\ waiting'["gate"] = Scan
         /\ \A r \in Senders : waiting'[r].files \subseteq made
         /\ \A r \in Senders \ {"gate"} : waiting'[r] = waiting[r]
<1>1. "gate" \in Senders
  BY DEF Senders
<1>2. CASE waiting["gate"] # NoTrigger
  BY <1>1, <1>2 DEF request, Shape, TypeInv, TypeOK, SendersCarry, FilesMade
<1>3. CASE waiting["gate"] = NoTrigger
  <2>1. Send("gate", Scan)
    BY <1>3 DEF request
  <2> QED
    BY <1>1, <2>1, SendCarries, SendFacts, TriggerFacts
<1> QED
  BY <1>2, <1>3

LEMMA ShapeWatching ==
  ASSUME Shape, Watching
  PROVE  Shape'
<1> USE DEF Shape, TypeInv, TypeOK
<1>1. CASE \E e \in Edits : Edit(e) \/ LoseEvent(e)
  BY <1>1, ShapeFrame DEF Edit, LoseEvent, triggers, control
<1>2. CASE dispatch
  <2>1. CASE Full
    BY <1>2, <2>1, RequestFacts, ShapeSend DEF dispatch, FilesMade
  <2>2. CASE ~Full
    <3>1. Batch(events) \in Trigger \ {NoTrigger} /\ Batch(events).files = events
      BY <1>2, TriggerFacts DEF dispatch
    <3>2. Len(channel) < ChannelCap /\ channel' = Append(channel, Batch(events))
      BY <1>2, <2>2, RoomWhenNotFull DEF dispatch
    <3>3. channel' \in Seq(Trigger \ {NoTrigger}) /\ Len(channel') <= ChannelCap
      BY <3>1, <3>2, AppendFacts, EngineAssumption
    <3>4. \A i \in DOMAIN channel' : channel'[i].files \subseteq made
      BY <3>1, <3>2, AppendFacts DEF FilesMade
    <3> QED
      BY <1>2, <2>2, <3>3, <3>4, ShapeSend DEF dispatch, FilesMade, SendersCarry
  <2> QED
    BY <2>1, <2>2
<1>3. CASE DispatchError
  BY <1>3, RequestFacts, ShapeSend DEF DispatchError, FilesMade
<1>4. CASE SafetyNet
  BY <1>4, RequestFacts, ShapeSend DEF SafetyNet, FilesMade, edits
<1>5. CASE Poll
  <2>1. "poll" \in Senders
    BY DEF Senders
  <2>2. SendersCarry' /\ waiting' \in [Senders -> Trigger]
        /\ \A r \in Senders : waiting'[r].files \subseteq made
    BY <1>5, <2>1, SendCarries, TriggerFacts DEF Poll
  <2> QED
    BY <1>5, <2>2, ShapeSend DEF Poll, FilesMade, edits
<1> QED
  BY <1>1, <1>2, <1>3, <1>4, <1>5 DEF Watching

\* Handlers, cold queries, the timers and the removal of the index.
LEMMA ShapeRequests ==
  ASSUME Shape, Requests
  PROVE  Shape'
<1> USE DEF Shape, TypeInv, TypeOK
<1>1. \A x \in Senders : x \in {"gate", "retry", "poll", "user", "identity"}
  BY DEF Senders
<1>2. CASE post_index_repo \/ post_rebuild_repo
  <2>1. PICK b \in BOOLEAN : trigger_index(b)
    BY <1>2 DEF post_index_repo, post_rebuild_repo
  <2>2. "user" \in Senders /\ (IF b THEN Rebuild ELSE Scan) \in Trigger \ {NoTrigger}
        /\ (IF b THEN Rebuild ELSE Scan).files \subseteq made
    BY TriggerFacts DEF Senders
  <2>3. SendersCarry' /\ waiting' \in [Senders -> Trigger]
        /\ \A r \in Senders : waiting'[r].files \subseteq made
    BY <2>1, <2>2, SendCarries DEF trigger_index
  <2> QED
    BY <2>1, <2>3, ShapeSend DEF trigger_index, FilesMade, edits
<1>3. CASE \E rebuild \in BOOLEAN : request_identity(rebuild)
  <2>1. PICK b \in BOOLEAN : request_identity(b)
    BY <1>3
  <2>2. "identity" \in Senders /\ Identity(b) \in Trigger \ {NoTrigger}
        /\ Identity(b).files \subseteq made /\ Identity(b).auto
    BY TriggerFacts DEF Senders
  <2>3. SendersCarry' /\ waiting' \in [Senders -> Trigger]
        /\ \A r \in Senders : waiting'[r].files \subseteq made
    BY <2>1, <2>2, SendCarries DEF request_identity
  <2> QED
    BY <2>1, <2>3, ShapeSend DEF request_identity, FilesMade, edits
<1>4. CASE CancelSees \/ CancelTakes
  BY <1>4, ShapeFrame DEF CancelSees, CancelTakes, TakeToken, edits
<1>5. CASE RemoveCancels \/ RemoveCloses
  BY <1>5, ShapeFrame DEF RemoveCancels, RemoveCloses, TakeToken, edits
<1>6. CASE clear_repo_index
  <2>1. TypeOK'
    BY <1>6 DEF clear_repo_index, triggers
  <2>2. gen \in Nat /\ gen' = gen + 1 /\ run' = run
    BY <1>6 DEF clear_repo_index
  <2>3. gen' \in Nat
    BY <2>2
  <2>4. rebuildflag' \in BOOLEAN
    BY <1>6 DEF clear_repo_index
  <2>5. status' \in Statuses
    BY <1>6 DEF clear_repo_index, Statuses
  <2>6. TypeInv'
    BY <2>1, <2>2, <2>3, <2>4, <2>5
  <2> QED
    BY <1>6, <2>6 DEF clear_repo_index, triggers, SendersCarry, FilesMade
<1>7. CASE \E s \in Senders : SendCompletes(s)
  <2>1. PICK s \in Senders : SendCompletes(s)
    BY <1>7
  <2>2. waiting[s] \in Trigger \ {NoTrigger} /\ waiting[s].files \subseteq made
    BY <2>1 DEF SendCompletes, FilesMade
  <2>3. channel' \in Seq(Trigger \ {NoTrigger}) /\ Len(channel') <= ChannelCap
        /\ \A i \in DOMAIN channel' : channel'[i].files \subseteq made
    <3>1. channel' = Append(channel, waiting[s]) /\ Len(channel) < ChannelCap
      BY <2>1 DEF SendCompletes
    <3> QED
      BY <2>2, <3>1, AppendFacts, EngineAssumption DEF FilesMade
  <2>4. /\ waiting' \in [Senders -> Trigger] /\ waiting'[s] = NoTrigger
        /\ \A r \in Senders \ {s} : waiting'[r] = waiting[r]
    BY <2>1, TriggerFacts DEF SendCompletes
  <2>5. SendersCarry'
    BY <1>1, <2>4 DEF SendersCarry, Senders
  <2>6. \A r \in Senders : waiting'[r].files \subseteq made
    BY <2>4, TriggerFacts DEF FilesMade
  <2> QED
    BY <2>1, <2>3, <2>4, <2>5, <2>6, ShapeSend DEF SendCompletes, edits
<1>8. CASE RetryFires
  <2>1. "retry" \in Senders
    BY DEF Senders
  <2>2. SendersCarry' /\ waiting' \in [Senders -> Trigger]
        /\ \A r \in Senders : waiting'[r].files \subseteq made
    BY <1>8, <2>1, SendCarries, TriggerFacts DEF RetryFires
  <2> QED
    BY <1>8, <2>2, ShapeSend DEF RetryFires, FilesMade, edits
<1> QED
  BY <1>2, <1>3, <1>4, <1>5, <1>6, <1>7, <1>8 DEF Requests

\* A run that moves keeps the trigger it has, or takes one from the channel.
LEMMA ShapeRun ==
  ASSUME Shape, UNCHANGED <<made, events, watcher, waiting, gen>>,
         pending' \subseteq made, retryq' \subseteq made, waived' \subseteq Edits,
         rebuildflag' \in BOOLEAN, retry' \in BOOLEAN, reserved' \in BOOLEAN,
         bailed' \in BOOLEAN, lock' \in {"free", "run"},
         token' \in {"none", "live", "cancelled"}, canceller' \in {"idle", "saw", "late"},
         status' \in Statuses, run' \in Runs,
         (lock' = "run") = (run'.pc \notin {"recv", "lock"}),
         run'.todo \subseteq made, run'.trigger.files \subseteq made,
         channel' = channel \/ (channel # <<>> /\ channel' = Tail(channel))
  PROVE  Shape'
<1>1. channel' \in Seq(Trigger \ {NoTrigger}) /\ Len(channel') <= ChannelCap
      /\ \A i \in DOMAIN channel' : channel'[i].files \subseteq made
  <2>1. CASE channel' = channel
    BY <2>1 DEF Shape, TypeInv, TypeOK, FilesMade
  <2>2. CASE channel # <<>> /\ channel' = Tail(channel)
    BY <2>2, TailFacts, EngineAssumption DEF Shape, TypeInv, TypeOK, FilesMade
  <2> QED
    BY <2>1, <2>2
<1>2. TypeOK'
  BY <1>1 DEF Shape, TypeInv, TypeOK, Statuses, Runs
<1>3. TypeInv'
  BY <1>2 DEF Shape, TypeInv
<1>4. SendersCarry' /\ FilesMade'
  BY <1>1 DEF Shape, SendersCarry, FilesMade
<1> QED
  BY <1>3, <1>4 DEF Shape

\* The consumer.
LEMMA ShapeConsumer ==
  ASSUME Shape, Consumer
  PROVE  Shape'
<1> USE DEF Shape, TypeInv, TypeOK, Runs, Places
<1>0. /\ Idle \in Runs /\ Idle.pc = "recv" /\ Idle.todo = {} /\ Idle.trigger.files = {}
      /\ run.trigger.files \subseteq made /\ run.todo \subseteq made
      /\ Named \subseteq Edits
  BY TriggerFacts DEF Idle, FilesMade, Named
<1>1. CASE Receive
  <2>1. channel # <<>> /\ channel' = Tail(channel)
    BY <1>1 DEF Receive
  <2>2. Head(channel) \in Trigger /\ Head(channel).files \subseteq made
    BY <2>1, TailFacts DEF FilesMade
  <2>3. run' \in Runs /\ run'.pc = "lock" /\ run'.todo = {} /\ run'.trigger = Head(channel)
    BY <1>1, <2>2 DEF Receive, Idle
  <2> QED
    BY <1>1, <2>1, <2>2, <2>3, ShapeRun DEF Receive, At, edits
<1>2. CASE new_cancel_token
  BY <1>0, <1>2, ShapeRun DEF new_cancel_token, At, Goto, edits, triggers
<1>3. CASE MarkIndexing
  BY ZenonT(60), SMTT(60), <1>0, <1>3, ShapeRun DEF MarkIndexing, At, Goto, edits, triggers, Statuses
<1>4. CASE NoKeys
  BY <1>0, <1>4, ShapeRun DEF NoKeys, At, LeaveRun, Statuses
<1>5. CASE ClientFails \/ OpenFails
  <2>1. PICK pc \in {"client", "open"}, phase \in {"Idle", status.phase} : Bail(pc, phase)
    BY <1>5 DEF ClientFails, OpenFails
  <2>2. status' \in Statuses
    BY <2>1 DEF Bail, Statuses
  <2> QED
    BY <1>0, <2>1, <2>2, ShapeRun DEF Bail, At, LeaveRun
<1>6. CASE ClientBuilt
  BY <1>0, <1>6, ShapeRun DEF ClientBuilt, At, Goto, edits, triggers
<1>7. CASE StartRun
  <2>1. PICK f \in BOOLEAN, T \in SUBSET made :
            run' = [run EXCEPT !.pc = "run", !.forced = f, !.todo = T]
    BY <1>0, <1>7 DEF StartRun
  <2>2. run' \in Runs /\ run'.pc = "run" /\ run'.todo = T /\ run'.trigger = run.trigger
    BY <2>1
  <2>3. pending' \subseteq made
    BY <1>7 DEF StartRun
  <2> QED
    BY ZenonT(60), <1>0, <1>7, <2>2, <2>3, ShapeRun DEF StartRun, At, triggers
<1>8. CASE set_phase
  BY <1>8, ShapeFrame DEF set_phase, edits, Statuses
<1>9. CASE \E skipped \in SUBSET run.todo : RunOk(skipped)
  <2>1. PICK skipped \in SUBSET run.todo : RunOk(skipped)
    BY <1>9
  <2>2. run' \in Runs /\ run'.pc = "settle" /\ run'.todo = run.todo /\ run'.trigger = run.trigger
    BY <2>1 DEF RunOk, Goto
  <2>3. pending' \subseteq made /\ retryq' \subseteq made /\ waived' \subseteq Edits
    BY <2>1 DEF RunOk
  <2> QED
    BY <1>0, <2>1, <2>2, <2>3, ShapeRun DEF RunOk, At, triggers, Statuses
<1>10. CASE Settle
  BY ZenonT(60), <1>0, <1>10, ShapeRun DEF Settle, schedule, At, Goto
<1>11. CASE RunCancelled
  BY ZenonT(60), <1>0, <1>11, ShapeRun DEF RunCancelled, At, Goto, triggers, Statuses
<1>12. CASE \E flagged, fatal \in BOOLEAN : RunFails(flagged, fatal)
  <2>1. PICK flagged \in BOOLEAN, fatal \in BOOLEAN : RunFails(flagged, fatal)
    BY <1>12
  <2>2. run' \in Runs /\ run'.pc = "release" /\ run'.todo = run.todo /\ run'.trigger = run.trigger
    BY <2>1 DEF RunFails, Goto
  <2>3. waived' \subseteq Edits /\ retry' \in BOOLEAN /\ rebuildflag' \in BOOLEAN
        /\ status' \in Statuses
    BY <2>1 DEF RunFails, schedule, Statuses
  <2> QED
    BY <1>0, <2>1, <2>2, <2>3, ShapeRun DEF RunFails, At
<1>13. CASE Release
  BY <1>0, <1>13, ShapeRun DEF Release, At, LeaveRun, edits
<1> QED
  BY <1>1, <1>2, <1>3, <1>4, <1>5, <1>6, <1>7, <1>8, <1>9, <1>10, <1>11, <1>12, <1>13
     DEF Consumer

-----------------------------------------------------------------------------
(* No edit is forgotten                                                    *)

\* Where an edit the index does not hold is remembered (EditTracked for one edit).
Tracked(e) ==
    \/ e \in waived \cup events
    \/ \E i \in DOMAIN channel : Covers(channel[i], e) \/ e \in retryq
    \/ \E s \in Senders : Covers(waiting[s], e)
    \/ retry
    \/ run.pc \in {"lock", "mark", "client", "open"}
         /\ (Covers(run.trigger, e) \/ e \in retryq)
    \/ run.pc = "run" /\ e \in run.todo
    \/ run.pc = "settle" /\ e \in retryq

LEMMA TrackedEach == EditTracked <=> \A e \in pending : Tracked(e)
BY DEF EditTracked, Tracked

LEMMA TrackedNext == (\A e \in pending' : (Tracked(e))') => EditTracked'
BY DEF EditTracked, Tracked

\* An edit that stays where it was, or moves on to the channel, a sender or
\* the history variable, while the run and the retry queue stay.
LEMMA StillTracked ==
  ASSUME NEW e, Tracked(e), UNCHANGED <<retryq, run>>,
         waived \subseteq waived', e \in events => (Tracked(e))',
         \A i \in DOMAIN channel : i \in DOMAIN channel' /\ channel'[i] = channel[i],
         \A s \in Senders : Covers(waiting[s], e) => (Tracked(e))',
         retry => (Tracked(e))'
  PROVE  (Tracked(e))'
BY DEF Tracked, Covers

\* A trigger that is queued or waits covers its edits.
LEMMA QueuedTracks ==
  ASSUME NEW e, NEW i \in DOMAIN channel', Covers(channel'[i], e)
  PROVE  (Tracked(e))'
BY DEF Tracked

LEMMA WaitingTracks ==
  ASSUME NEW e, NEW s \in Senders, Covers(waiting'[s], e)
  PROVE  (Tracked(e))'
BY DEF Tracked

\* Starting to wait loses nothing.
LEMMA SendTracks ==
  ASSUME Shape, EditTracked, NEW s \in Senders, NEW t \in Trigger \ {NoTrigger}, Send(s, t),
         UNCHANGED <<pending, retryq, events, waived, channel, run>>,
         retry => retry' \/ t = Scan
  PROVE  EditTracked'
<1> SUFFICES ASSUME NEW e \in pending PROVE (Tracked(e))'
  BY TrackedNext
<1>1. Tracked(e)
  BY TrackedEach
<1>2. /\ waiting'[s] = t /\ waiting[s] = NoTrigger
      /\ \A r \in Senders \ {s} : waiting'[r] = waiting[r]
  BY SendFacts
<1>3. \A r \in Senders : Covers(waiting[r], e) => (Tracked(e))'
  BY <1>2, TriggerFacts, WaitingTracks DEF Covers
<1>4. retry => (Tracked(e))'
  <2>1. t = Scan => Covers(waiting'[s], e)
    BY <1>2, TriggerFacts DEF Covers
  <2> QED
    BY <2>1, WaitingTracks DEF Tracked
<1>5. e \in events => (Tracked(e))'
  BY DEF Tracked
<1> QED
  BY <1>1, <1>3, <1>4, <1>5, StillTracked

\* A pending rescan covers every edit.
LEMMA RequestTracks ==
  ASSUME Shape, request, NEW e
  PROVE  (Tracked(e))'
<1>1. "gate" \in Senders /\ waiting'["gate"] = Scan
  BY RequestFacts DEF Senders
<1>2. Covers(waiting'["gate"], e)
  BY <1>1, TriggerFacts DEF Covers
<1> QED
  BY <1>1, <1>2, WaitingTracks

LEMMA WatchingTracks ==
  ASSUME Shape, EditTracked, Watching
  PROVE  EditTracked'
<1> SUFFICES ASSUME NEW e \in pending' PROVE (Tracked(e))'
  BY TrackedNext
<1>0. e \in pending => Tracked(e)
  BY TrackedEach
<1>1. CASE \E x \in Edits : Edit(x) \/ LoseEvent(x)
  <2>1. CASE \E x \in Edits : Edit(x)
    BY <1>0, <2>1 DEF Edit, Tracked, Covers, triggers, control
  <2>2. CASE \E x \in Edits : LoseEvent(x)
    BY <1>0, <2>2 DEF LoseEvent, Tracked, Covers, triggers, control
  <2> QED
    BY <1>1, <2>1, <2>2
<1>2. CASE dispatch
  <2>1. CASE Full
    BY <1>2, <2>1, RequestTracks DEF dispatch
  <2>2. CASE ~Full
    <3>1. /\ Batch(events) \in Trigger \ {NoTrigger} /\ Batch(events).files = events
          /\ channel' = Append(channel, Batch(events)) /\ channel \in Seq(Trigger \ {NoTrigger})
      BY <1>2, <2>2, TriggerFacts DEF dispatch, Shape, TypeInv, TypeOK
    <3>2. /\ \A i \in DOMAIN channel : i \in DOMAIN channel' /\ channel'[i] = channel[i]
          /\ Len(channel) + 1 \in DOMAIN channel'
          /\ channel'[Len(channel) + 1] = Batch(events)
      BY <3>1, AppendFacts
    <3>3. e \in events => (Tracked(e))'
      BY <3>1, <3>2, QueuedTracks DEF Covers
    <3>4. /\ e \in pending /\ UNCHANGED <<retryq, run, waived, waiting, retry>>
      BY <1>2, <2>2 DEF dispatch, control
    <3>5. \A s \in Senders : Covers(waiting[s], e) => (Tracked(e))'
      BY <3>4, WaitingTracks
    <3>6. retry => (Tracked(e))'
      BY <3>4 DEF Tracked
    <3> QED
      BY <1>0, <3>2, <3>3, <3>4, <3>5, <3>6, StillTracked
  <2> QED
    BY <2>1, <2>2
<1>3. CASE DispatchError
  BY <1>3, RequestTracks DEF DispatchError
<1>4. CASE SafetyNet
  BY <1>4, RequestTracks DEF SafetyNet
<1>5. CASE Poll
  <2>1. "poll" \in Senders
    BY DEF Senders
  <2>2. EditTracked'
    BY <1>5, <2>1, SendTracks, TriggerFacts DEF Poll, edits, control
  <2> QED
    BY <2>2 DEF EditTracked, Tracked
<1> QED
  BY <1>1, <1>2, <1>3, <1>4, <1>5 DEF Watching

LEMMA RequestsTrack ==
  ASSUME Shape, EditTracked, Requests
  PROVE  EditTracked'
<1>1. CASE post_index_repo \/ post_rebuild_repo
  <2>1. PICK b \in BOOLEAN : trigger_index(b)
    BY <1>1 DEF post_index_repo, post_rebuild_repo
  <2>2. "user" \in Senders /\ (IF b THEN Rebuild ELSE Scan) \in Trigger \ {NoTrigger}
    BY TriggerFacts DEF Senders
  <2> QED
    BY <2>1, <2>2, SendTracks DEF trigger_index, edits, control
<1>2. CASE \E rebuild \in BOOLEAN : request_identity(rebuild)
  <2>1. PICK b \in BOOLEAN : request_identity(b)
    BY <1>2
  <2>2. "identity" \in Senders /\ Identity(b) \in Trigger \ {NoTrigger}
    BY TriggerFacts DEF Senders
  <2> QED
    BY <2>1, <2>2, SendTracks DEF request_identity, edits, control
<1>3. CASE CancelSees \/ CancelTakes \/ RemoveCancels \/ RemoveCloses
  BY <1>3 DEF CancelSees, CancelTakes, RemoveCancels, RemoveCloses, EditTracked, Covers,
              edits, triggers
<1>4. CASE clear_repo_index
  BY <1>4 DEF clear_repo_index, EditTracked
<1>5. CASE \E s \in Senders : SendCompletes(s)
  <2> SUFFICES ASSUME NEW e \in pending' PROVE (Tracked(e))'
    BY TrackedNext
  <2>1. PICK s \in Senders : SendCompletes(s)
    BY <1>5
  <2>2. /\ UNCHANGED <<pending, retryq, run, waived, events, retry>>
        /\ \A r \in Senders \ {s} : waiting'[r] = waiting[r]
    BY <2>1 DEF SendCompletes, edits, control, Shape, TypeInv, TypeOK
  <2>3. /\ waiting[s] \in Trigger \ {NoTrigger} /\ channel' = Append(channel, waiting[s])
        /\ channel \in Seq(Trigger \ {NoTrigger})
    BY <2>1 DEF SendCompletes, Shape, TypeInv, TypeOK
  <2>4. /\ \A i \in DOMAIN channel : i \in DOMAIN channel' /\ channel'[i] = channel[i]
        /\ Len(channel) + 1 \in DOMAIN channel'
        /\ channel'[Len(channel) + 1] = waiting[s]
    BY <2>3, AppendFacts
  <2>5. \A r \in Senders : Covers(waiting[r], e) => (Tracked(e))'
    BY <2>2, <2>4, QueuedTracks, WaitingTracks
  <2>6. Tracked(e) /\ (e \in events \/ retry => (Tracked(e))')
    BY <2>2, TrackedEach DEF Tracked
  <2> QED
    BY <2>2, <2>4, <2>5, <2>6, StillTracked
<1>6. CASE RetryFires
  <2>1. "retry" \in Senders
    BY DEF Senders
  <2> QED
    BY <1>6, <2>1, SendTracks, TriggerFacts DEF RetryFires, edits, control
<1> QED
  BY <1>1, <1>2, <1>3, <1>4, <1>5, <1>6 DEF Requests

\* The consumer: a received trigger becomes the run's, the run's edits its todo,
\* and what a run does not take is queued for a retry or excused.
LEMMA ConsumerTracks ==
  ASSUME Shape, EditTracked, RetryQueueOfRun, Consumer
  PROVE  EditTracked'
<1> SUFFICES ASSUME NEW e \in pending' PROVE (Tracked(e))'
  BY TrackedNext
<1>0. e \in pending => Tracked(e)
  BY TrackedEach
<1> USE DEF Tracked, At, Goto, edits, triggers
<1>1. CASE Receive
  <2>1. /\ channel # <<>> /\ channel' = Tail(channel) /\ run'.trigger = Head(channel)
        /\ run'.pc = "lock" /\ run.pc = "recv" /\ channel \in Seq(Trigger \ {NoTrigger})
        /\ UNCHANGED <<pending, retryq, waived, events, waiting, retry>>
    BY <1>1 DEF Receive, Idle, Shape, TypeInv, TypeOK
  <2>2. \A i \in DOMAIN channel : Covers(channel[i], e) \/ e \in retryq => (Tracked(e))'
    <3> SUFFICES ASSUME NEW i \in DOMAIN channel, Covers(channel[i], e) \/ e \in retryq
                 PROVE  (Tracked(e))'
      OBVIOUS
    <3>1. Head(channel) = channel[1]
      BY <2>1, TailFacts
    <3>2. CASE i = 1 \/ e \in retryq
      BY <2>1, <3>1, <3>2 DEF Covers
    <3>3. CASE i # 1 /\ Covers(channel[i], e)
      <4>1. i - 1 \in DOMAIN channel' /\ channel'[i - 1] = channel[i]
        BY <2>1, <3>3, TailFacts
      <4> QED
        BY <3>3, <4>1, QueuedTracks
    <3> QED
      BY <3>2, <3>3
  <2> QED
    BY <1>0, <2>1, <2>2 DEF Covers
<1>2. CASE new_cancel_token
  BY <1>0, <1>2 DEF new_cancel_token, Covers, Shape, TypeInv, Runs
<1>3. CASE MarkIndexing
  BY <1>0, <1>3 DEF MarkIndexing, Covers, Shape, TypeInv, Runs
<1>4. CASE NoKeys
  BY <1>0, <1>4 DEF NoKeys, LeaveRun, Named, Covers
<1>5. CASE ClientFails \/ OpenFails
  BY <1>0, <1>5 DEF ClientFails, OpenFails, Bail, LeaveRun, Named, Covers
<1>6. CASE ClientBuilt
  BY <1>0, <1>6 DEF ClientBuilt, Covers, Shape, TypeInv, Runs
<1>7. CASE StartRun
  <2>1. /\ run'.pc = "run" /\ run.pc = "open"
        /\ e \in made \/ e \in pending
        /\ pending' # pending => run'.todo = retryq \cup pending'
        /\ e \in pending /\ (Covers(run.trigger, e) \/ e \in retryq) => e \in run'.todo
    BY <1>7 DEF StartRun, Shape, TypeInv, TypeOK, Runs, Covers
  <2>2. UNCHANGED <<retryq, events, waived, channel, waiting, retry>>
    BY <1>7 DEF StartRun
  <2> QED
    BY <1>0, <2>1, <2>2 DEF Covers
<1>8. CASE set_phase
  BY <1>0, <1>8 DEF set_phase, Covers
<1>9. CASE \E skipped \in SUBSET run.todo : RunOk(skipped)
  <2>1. PICK skipped \in SUBSET run.todo : RunOk(skipped)
    BY <1>9
  <2>2. run.pc = "run" /\ run'.pc = "settle"
        /\ UNCHANGED <<events, channel, waiting, retry>>
    BY <2>1 DEF RunOk, Shape, TypeInv, Runs
  <2>3. CASE Current
    BY <1>0, <2>1, <2>2, <2>3 DEF RunOk, Covers
  <2>4. CASE ~Current
    BY <1>0, <2>1, <2>2, <2>4 DEF RunOk, Covers
  <2> QED
    BY <2>3, <2>4
<1>10. CASE Settle
  BY <1>0, <1>10 DEF Settle, schedule, Current, RetryQueueOfRun, Covers, Shape, TypeInv, Runs
<1>11. CASE RunCancelled
  BY <1>0, <1>11 DEF RunCancelled, Covers
<1>12. CASE \E flagged, fatal \in BOOLEAN : RunFails(flagged, fatal)
  BY <1>0, <1>12 DEF RunFails, schedule, Covers
<1>13. CASE Release
  BY <1>0, <1>13 DEF Release, LeaveRun, Covers
<1> QED
  BY <1>1, <1>2, <1>3, <1>4, <1>5, <1>6, <1>7, <1>8, <1>9, <1>10, <1>11, <1>12, <1>13
     DEF Consumer

-----------------------------------------------------------------------------
(* The retry queue and the reservation                                     *)

\* Only a run on the current index touches the retry queue, and a removal
\* empties it.
LEMMA RetryQueueStep ==
  ASSUME Shape, RetryQueueOfRun, Next
  PROVE  RetryQueueOfRun'
<1> USE DEF RetryQueueOfRun, edits, control, triggers, At, Goto
<1>1. CASE Watching
  BY <1>1 DEF Watching, Edit, LoseEvent, dispatch, DispatchError, SafetyNet, Poll
<1>2. CASE Requests
  <2>1. CASE clear_repo_index
    BY <2>1 DEF clear_repo_index
  <2>2. CASE ~clear_repo_index
    BY <1>2, <2>2 DEF Requests, post_index_repo, post_rebuild_repo, trigger_index,
       request_identity, CancelSees, CancelTakes, RemoveCancels, RemoveCloses,
       SendCompletes, RetryFires
  <2> QED
    BY <2>1, <2>2
<1>3. CASE Consumer
  <2> USE DEF Shape, TypeInv, Runs
  <2>1. CASE Receive
    BY <2>1 DEF Receive, Idle
  <2>2. CASE new_cancel_token \/ MarkIndexing \/ ClientBuilt
    BY <2>2 DEF new_cancel_token, MarkIndexing, ClientBuilt
  <2>3. CASE NoKeys \/ ClientFails \/ OpenFails \/ Release
    BY <2>3 DEF NoKeys, ClientFails, OpenFails, Bail, Release, LeaveRun, Idle
  <2>4. CASE StartRun
    BY <2>4 DEF StartRun
  <2>5. CASE \E skipped \in SUBSET run.todo : RunOk(skipped)
    BY <2>5 DEF RunOk, Current
  <2>6. CASE set_phase \/ Settle \/ RunCancelled
    BY <2>6 DEF set_phase, Settle, RunCancelled
  <2>7. CASE \E flagged, fatal \in BOOLEAN : RunFails(flagged, fatal)
    BY <2>7 DEF RunFails
  <2> QED
    BY <1>3, <2>1, <2>2, <2>3, <2>4, <2>5, <2>6, <2>7 DEF Consumer
<1> QED
  BY <1>1, <1>2, <1>3 DEF Next

\* What keeps the owner of a reservation: the trigger of the cold query goes to
\* the channel and from there to the run.
LEMMA OwnerKept ==
  ASSUME ReservationOwned, reserved' => reserved,
         waiting["identity"] # NoTrigger => waiting'["identity"] # NoTrigger,
         \A i \in DOMAIN channel : channel[i].auto =>
            \/ \E j \in DOMAIN channel' : channel'[j].auto
            \/ run'.pc # "recv",
         run.pc # "recv" => run'.pc # "recv", bailed => bailed'
  PROVE  ReservationOwned'
BY DEF ReservationOwned

LEMMA ReservationStep ==
  ASSUME Shape, ReservationOwned, Next
  PROVE  ReservationOwned'
<1> USE DEF edits, control, triggers, At, Goto
<1>1. CASE Watching
  <2>1. CASE \E e \in Edits : Edit(e) \/ LoseEvent(e)
    BY <2>1, OwnerKept DEF Edit, LoseEvent
  <2>2. CASE dispatch
    <3>1. CASE Full
      BY <2>2, <3>1, RequestFacts, OwnerKept DEF dispatch, Senders
    <3>2. CASE ~Full
      <4>1. /\ Batch(events) \in Trigger \ {NoTrigger}
            /\ channel' = Append(channel, Batch(events))
            /\ channel \in Seq(Trigger \ {NoTrigger})
        BY <2>2, <3>2, TriggerFacts DEF dispatch, Shape, TypeInv, TypeOK
      <4>2. \A i \in DOMAIN channel : i \in DOMAIN channel' /\ channel'[i] = channel[i]
        BY <4>1, AppendFacts
      <4> QED
        BY <2>2, <3>2, <4>2, OwnerKept DEF dispatch
    <3> QED
      BY <3>1, <3>2
  <2>3. CASE DispatchError \/ SafetyNet
    BY <2>3, RequestFacts, OwnerKept DEF DispatchError, SafetyNet, Senders
  <2>4. CASE Poll
    <3>1. waiting'["identity"] = waiting["identity"]
      BY <2>4, SendFacts, TriggerFacts DEF Poll, Senders
    <3> QED
      BY <2>4, <3>1, OwnerKept DEF Poll
  <2> QED
    BY <1>1, <2>1, <2>2, <2>3, <2>4 DEF Watching
<1>2. CASE Requests
  <2>1. CASE post_index_repo \/ post_rebuild_repo
    <3>1. PICK b \in BOOLEAN : trigger_index(b)
      BY <2>1 DEF post_index_repo, post_rebuild_repo
    <3>2. waiting'["identity"] = waiting["identity"]
      BY <3>1, SendFacts, TriggerFacts DEF trigger_index, Senders
    <3> QED
      BY <3>1, <3>2, OwnerKept DEF trigger_index
  <2>2. CASE \E rebuild \in BOOLEAN : request_identity(rebuild)
    <3>1. waiting'["identity"] # NoTrigger
      BY <2>2, SendFacts, TriggerFacts DEF request_identity, Senders
    <3> QED
      BY <3>1 DEF ReservationOwned
  <2>3. CASE CancelSees \/ CancelTakes \/ RemoveCancels \/ RemoveCloses \/ clear_repo_index
    BY <2>3, OwnerKept DEF CancelSees, CancelTakes, RemoveCancels, RemoveCloses,
       clear_repo_index
  <2>4. CASE \E s \in Senders : SendCompletes(s)
    <3>1. PICK s \in Senders : SendCompletes(s)
      BY <2>4
    <3>2. /\ waiting[s] \in Trigger \ {NoTrigger} /\ channel' = Append(channel, waiting[s])
          /\ channel \in Seq(Trigger \ {NoTrigger})
          /\ \A r \in Senders \ {s} : waiting'[r] = waiting[r]
      BY <3>1 DEF SendCompletes, Shape, TypeInv, TypeOK
    <3>3. /\ \A i \in DOMAIN channel : i \in DOMAIN channel' /\ channel'[i] = channel[i]
          /\ Len(channel) + 1 \in DOMAIN channel'
          /\ channel'[Len(channel) + 1] = waiting[s]
      BY <3>2, AppendFacts
    <3>4. CASE s = "identity"
      <4>1. waiting[s].auto
        BY <3>1, <3>4 DEF SendCompletes, Shape, SendersCarry
      <4> QED
        BY <3>3, <4>1 DEF ReservationOwned
    <3>5. CASE s # "identity"
      BY <3>1, <3>2, <3>3, <3>5, OwnerKept DEF SendCompletes, Senders
    <3> QED
      BY <3>4, <3>5
  <2>5. CASE RetryFires
    <3>1. waiting'["identity"] = waiting["identity"]
      BY <2>5, SendFacts, TriggerFacts DEF RetryFires, Senders
    <3> QED
      BY <2>5, <3>1, OwnerKept DEF RetryFires
  <2> QED
    BY <1>2, <2>1, <2>2, <2>3, <2>4, <2>5 DEF Requests
<1>3. CASE Consumer
  <2>1. CASE Receive
    <3>1. run'.pc = "lock"
      BY <2>1 DEF Receive, Idle
    <3> QED
      BY <3>1 DEF ReservationOwned
  <2>2. CASE NoKeys \/ Release
    BY <2>2 DEF NoKeys, Release, ReservationOwned
  <2>3. CASE ClientFails \/ OpenFails
    BY <2>3 DEF ClientFails, OpenFails, Bail, ReservationOwned
  <2>4. ASSUME run' = run \/ run'.pc # "recv", UNCHANGED <<waiting, channel, reserved, bailed>>
        PROVE  ReservationOwned'
    BY <2>4, OwnerKept
  <2> USE DEF Shape, TypeInv, Runs
  <2>5. CASE new_cancel_token \/ MarkIndexing \/ ClientBuilt
    BY <2>4, <2>5 DEF new_cancel_token, MarkIndexing, ClientBuilt
  <2>6. CASE StartRun
    <3>1. run'.pc = "run"
      BY <2>6 DEF StartRun
    <3> QED
      BY <2>4, <2>6, <3>1 DEF StartRun
  <2>7. CASE \E skipped \in SUBSET run.todo : RunOk(skipped)
    BY <2>4, <2>7 DEF RunOk
  <2>8. CASE set_phase \/ Settle \/ RunCancelled
    BY <2>4, <2>8 DEF set_phase, Settle, RunCancelled
  <2>9. CASE \E flagged, fatal \in BOOLEAN : RunFails(flagged, fatal)
    BY <2>4, <2>9 DEF RunFails
  <2> QED
    BY <1>3, <2>1, <2>2, <2>3, <2>5, <2>6, <2>7, <2>8, <2>9 DEF Consumer
<1> QED
  BY <1>1, <1>2, <1>3 DEF Next

-----------------------------------------------------------------------------
(* The engine's theorems                                                   *)

LEMMA EngineInit == Init => EngineInv
<1> SUFFICES ASSUME Init PROVE EngineInv
  OBVIOUS
<1> USE DEF Init
<1>1. TypeOK
  <2>1. <<>> \in Seq(Trigger \ {NoTrigger}) /\ Len(<<>>) <= ChannelCap
    BY EngineAssumption
  <2>2. [s \in Senders |-> NoTrigger] \in [Senders -> Trigger]
    BY TriggerFacts
  <2>3. Idle.pc = "recv" /\ Idle.todo = {} /\ Idle.trigger \in Trigger
    BY TriggerFacts DEF Idle
  <2> QED
    BY <2>1, <2>2, <2>3 DEF TypeOK
<1>2. TypeInv
  BY <1>1, TriggerFacts DEF TypeInv, Idle, Runs, Places, Statuses
<1>3. SendersCarry /\ FilesMade
  BY TriggerFacts DEF SendersCarry, FilesMade, Idle, Senders
<1> QED
  BY <1>2, <1>3 DEF EngineInv, Shape, RetryQueueOfRun, EditTracked, ReservationOwned, Idle

LEMMA EngineStep == EngineInv /\ [Next]_vars => EngineInv'
<1> SUFFICES ASSUME EngineInv, [Next]_vars PROVE EngineInv'
  OBVIOUS
<1> USE DEF EngineInv
<1>1. CASE Next
  <2>1. Shape'
    BY <1>1, ShapeWatching, ShapeRequests, ShapeConsumer DEF Next
  <2>2. EditTracked'
    BY <1>1, WatchingTracks, RequestsTrack, ConsumerTracks DEF Next
  <2> QED
    BY <1>1, <2>1, <2>2, RetryQueueStep, ReservationStep
<1>2. CASE UNCHANGED vars
  <2> USE <1>2 DEF vars, edits, triggers, control
  <2>1. Shape'
    BY ShapeFrame DEF Shape, TypeInv, TypeOK
  <2>2. EditTracked'
    BY DEF EditTracked, Covers
  <2> QED
    BY <2>1, <2>2 DEF RetryQueueOfRun, ReservationOwned
<1> QED
  BY <1>1, <1>2

\* The inductive invariant holds in every reachable state.
THEOREM EngineInvariant == Spec => []EngineInv
BY EngineInit, EngineStep, PTL DEF Spec

\* No edit is forgotten, whatever the capacity of the trigger channel, however
\* many edits there are and however often runs fail, are cancelled or lose
\* their index (watcher.rs dispatch, mod.rs run_consumer).
THEOREM EditsTracked == Spec => []EditTracked
<1>1. EngineInv => EditTracked
  BY DEF EngineInv
<1> QED
  BY EngineInvariant, <1>1, PTL

\* The reservation of an identity rebuild always has an owner that will release
\* it, but for a run that could not start (rebuild_guard.rs, mod.rs run_consumer).
THEOREM ReservationsOwned == Spec => []ReservationOwned
<1>1. EngineInv => ReservationOwned
  BY DEF EngineInv
<1> QED
  BY EngineInvariant, <1>1, PTL

\* The channel never exceeds its capacity, holds no empty trigger, and the run
\* lock is held exactly while a run is past it.
THEOREM EngineTypes == Spec => []TypeOK
<1>1. EngineInv => TypeOK
  BY DEF EngineInv, Shape, TypeInv
<1> QED
  BY EngineInvariant, <1>1, PTL

-----------------------------------------------------------------------------
(* The statistics                                                          *)

\* Statistics that miss a run without an excuse are owed by someone: the run
\* has yet to publish, a recompute is yet to store, or one is re-armed.
RecomputeOwed ==
    stats = "stale" /\ ~excused =>
        \/ ending # {}
        \/ slot.task \in {"sleeping", "computing"}
        \/ slot.task = "deciding" /\ slot.rearm

CachesInv ==
    /\ slot \in [task : {"none", "sleeping", "computing", "deciding"}, rearm : BOOLEAN,
                 gen : Nat]
    /\ dbgen \in Nat /\ ending \subseteq Nat
    /\ stats \in {"none", "fresh", "stale"} /\ reader \in {"none", "fresh", "stale"}
    /\ RecomputeOwed

LEMMA CachesStep == CachesInv /\ [CNext]_cvars => CachesInv'
<1> SUFFICES ASSUME CachesInv, [CNext]_cvars PROVE CachesInv'
  OBVIOUS
<1> USE DEF CachesInv, RecomputeOwed
<1>1. CASE \E g \in 0 .. dbgen : RunCompletes(g)
  BY <1>1 DEF RunCompletes, Aged
<1>2. CASE Publish
  <2>1. PICK g \in Nat : note_index_completion(g)
    BY <1>2 DEF Publish
  <2>2. /\ slot' \in [task : {"none", "sleeping", "computing", "deciding"}, rearm : BOOLEAN,
                      gen : Nat]
        /\ slot'.task \in {"sleeping", "computing"} \/ (slot'.task = "deciding" /\ slot'.rearm)
    BY <2>1 DEF note_index_completion
  <2> QED
    BY <1>2, <2>2 DEF Publish
<1>3. CASE RecomputeStarts
  BY <1>3 DEF RecomputeStarts
<1>4. CASE RecomputeStores
  BY <1>4 DEF RecomputeStores
<1>5. CASE RecomputeDecides
  BY <1>5 DEF RecomputeDecides
<1>6. CASE StatsMiss
  BY <1>6 DEF StatsMiss
<1>7. CASE StatsStore
  BY <1>7 DEF StatsStore
<1>8. CASE SeedCounts \/ SeedWrites
  BY <1>8 DEF SeedCounts, SeedWrites
<1>9. CASE RemoveIndex
  BY <1>9 DEF RemoveIndex
<1>10. CASE UNCHANGED cvars
  BY <1>10 DEF cvars
<1> QED
  BY <1>1, <1>2, <1>3, <1>4, <1>5, <1>6, <1>7, <1>8, <1>9, <1>10 DEF CNext

\* The cached statistics catch up with the last completed run: a completion that
\* lands in an aggregation is never lost (mod.rs note_index_completion and
\* run_debounced_recompute), for any number of runs, removals and failures.
THEOREM StatisticsCatchUp == CSpec => []RecomputeCaughtUp
<1>1. CInit => CachesInv
  BY DEF CInit, CachesInv, RecomputeOwed
<1>2. CachesInv => RecomputeCaughtUp
  BY DEF CachesInv, RecomputeOwed, RecomputeCaughtUp
<1> QED
  BY <1>1, <1>2, CachesStep, PTL DEF CSpec
=============================================================================
