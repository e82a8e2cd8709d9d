--------------------------- MODULE WorkerRegistry ---------------------------
(***************************************************************************)
(* The router's registry of worker processes (router/registry.rs), the     *)
(* requests that obtain a worker from it (router/proxy.rs, router/spawn.rs)*)
(* and the worker's idle watchdog (router/worker.rs), for one repository:  *)
(* entries of different repositories are independent.                      *)
(*                                                                         *)
(* A spawn is named by its number; the number is the identity token (the   *)
(* Arc<Notify> that Arc::ptr_eq compares) and the process it launches.  A  *)
(* step is what happens between two awaits; the registry lock is held for  *)
(* a whole step, and notify_waiters belongs to the step that releases it,  *)
(* because nobody is handed the token once the entry has changed.          *)
(*                                                                         *)
(* Time.  A request whose spawn succeeds or fails in time is done with it  *)
(* long before SPAWN_ORPHAN_AFTER; an entry reaped under a driver that is  *)
(* still there is a fault (the machine slept, the runtime was starved).  A *)
(* worker is not idle for a whole window while a request lasts that was    *)
(* under way when the worker came up.  try_wait on an owned handle does    *)
(* not fail.                                                               *)
(***************************************************************************)
EXTENDS Naturals, FiniteSets

CONSTANTS
    Callers,                \* the requests of this repository that may spawn
    MaxSpawns,              \* bound on elections
    MaxFaults,              \* bound on faults: crashes, kills, drops, delays
    AcquireRounds,          \* rounds of obtain_worker
    WORKER_LOST_RETRIES

ASSUME RegistryAssumption ==
    /\ IsFiniteSet(Callers)
    /\ MaxSpawns \in Nat /\ MaxFaults \in Nat
    /\ AcquireRounds \in Nat \ {0} /\ WORKER_LOST_RETRIES \in Nat

Tokens == 1..MaxSpawns

VARIABLES
    entry,      \* the map's WorkerState for the repository
    proc,       \* the process of each spawn
    req,        \* the requests
    inflight,   \* the in-flight count of each worker (IdleTracker)
    killing,    \* workers taken from the map by kill, whose child still runs
    fresh,      \* requests that were under way when the Ready worker came up
    detached,   \* history: spawns whose entry was deleted by somebody else
    unheld,     \* history: spawns and killed workers whose holder was dropped
    spawns,     \* elections so far
    faults      \* faults so far

vars == <<entry, proc, req, inflight, killing, fresh, detached, unheld, spawns, faults>>

Absent == [st |-> "absent", token |-> 0]
Spawning(t) == [st |-> "spawning", token |-> t]
Ready(t) == [st |-> "ready", token |-> t]

ProcStates == {"none", "booting", "wedged", "up", "closing", "dead"}
Alive(t) == proc[t] \in {"booting", "wedged", "up", "closing"}
Serving(t) == proc[t] \in {"up", "closing"}

\* Places of a request.  From "launch" to "kill" it drives the spawn it holds; in
\* "send" and "inflight" it uses the worker it holds.
Driving == {"launch", "handshake", "publish", "abandon", "kill"}
Ended == {"answered", "degraded", "dropped"}
Places == {"idle", "acquire", "elect", "await", "waiting", "send", "inflight"}
            \cup Driving \cup Ended
NewCaller == [pc |-> "idle", token |-> 0, round |-> 0, attempt |-> 0]

UnderWay == {r \in Callers : req[r].pc \notin {"idle"} \cup Ended}
Drives(r, t) == req[r].pc \in Driving /\ req[r].token = t
Driven(t) == \E r \in Callers : Drives(r, t)

Fault == faults < MaxFaults /\ faults' = faults + 1

Init ==
    /\ entry = Absent
    /\ proc = [t \in Tokens |-> "none"]
    /\ req = [r \in Callers |-> NewCaller]
    /\ inflight = [t \in Tokens |-> 0]
    /\ killing = {} /\ fresh = {} /\ detached = {} /\ unheld = {}
    /\ spawns = 0 /\ faults = 0

-----------------------------------------------------------------------------
(* Steps of a request: each yields the function req'                       *)

Goto(r, pc, t) == [req EXCEPT ![r].pc = pc, ![r].token = t]

\* The next round of obtain_worker, or "did not converge after retries".
NextRound(q) ==
    IF q.round + 1 < AcquireRounds
    THEN [q EXCEPT !.pc = "acquire", !.token = 0, !.round = @ + 1]
    ELSE [q EXCEPT !.pc = "degraded", !.token = 0]

\* notify_waiters: those registered with the token wake up and take another round.
Notified(t, s) ==
    [r \in Callers |-> IF s[r].pc = "waiting" /\ s[r].token = t
                        THEN NextRound(s[r]) ELSE s[r]]

Start(r) ==
    /\ req[r].pc = "idle"
    /\ req' = Goto(r, "acquire", 0)
    /\ UNCHANGED <<entry, proc, inflight, killing, fresh, detached, unheld, spawns, faults>>

\* acquire, fast path under the read lock.
AcquireFast(r) ==
    /\ req[r].pc = "acquire"
    /\ req' = CASE entry.st = "ready" /\ Alive(entry.token) -> Goto(r, "send", entry.token)
                [] entry.st = "spawning" -> Goto(r, "await", entry.token)
                [] OTHER -> Goto(r, "elect", 0)
    /\ UNCHANGED <<entry, proc, inflight, killing, fresh, detached, unheld, spawns, faults>>

\* acquire, slow path under the write lock: the entry is examined again before
\* this caller is elected to spawn.
ElectUnchecked == TRUE
MayElect == entry = Absent \/ (entry.st = "ready" /\ ~Alive(entry.token))

Elect(r) ==
    /\ req[r].pc = "elect" /\ MayElect
    /\ spawns < MaxSpawns
    /\ spawns' = spawns + 1
    /\ entry' = Spawning(spawns + 1)
    /\ req' = Goto(r, "launch", spawns + 1)
    /\ UNCHANGED <<proc, inflight, killing, fresh, detached, unheld, faults>>

FindOther(r) ==
    /\ req[r].pc = "elect" /\ ~MayElect
    /\ req' = Goto(r, IF entry.st = "ready" THEN "send" ELSE "await", entry.token)
    /\ UNCHANGED <<entry, proc, inflight, killing, fresh, detached, unheld, spawns, faults>>

\* AwaitSpawn: the notification is registered for after acquire has returned, so
\* one sent in between is not received.
Subscribe(r) ==
    /\ req[r].pc = "await"
    /\ req' = Goto(r, "waiting", req[r].token)
    /\ UNCHANGED <<entry, proc, inflight, killing, fresh, detached, unheld, spawns, faults>>

\* The bound on the wait, longer than a spawn may take: it ends only waits for a
\* spawn that has been resolved or has lost its driver.
NeverTimesOut(r) == FALSE
WaitTimeout(r) ==
    /\ req[r].pc = "waiting"
    /\ entry # Spawning(req[r].token) \/ ~Driven(req[r].token)
    /\ req' = [req EXCEPT ![r] = NextRound(@)]
    /\ UNCHANGED <<entry, proc, inflight, killing, fresh, detached, unheld, spawns, faults>>

-----------------------------------------------------------------------------
(* The driver of a spawn                                                   *)

Launch(r) ==
    LET t == req[r].token IN
    /\ req[r].pc = "launch"
    /\ proc' = [proc EXCEPT ![t] = "booting"]
    /\ req' = Goto(r, "handshake", t)
    /\ UNCHANGED <<entry, inflight, killing, fresh, detached, unheld, spawns, faults>>

\* The process cannot be started.
LaunchFails(r) ==
    /\ req[r].pc = "launch" /\ Fault
    /\ req' = Goto(r, "abandon", req[r].token)
    /\ UNCHANGED <<entry, proc, inflight, killing, fresh, detached, unheld, spawns>>

\* The ready line arrives.
HandshakeOk(r) ==
    LET t == req[r].token IN
    /\ req[r].pc = "handshake" /\ Serving(t)
    /\ req' = Goto(r, "publish", t)
    /\ UNCHANGED <<entry, proc, inflight, killing, fresh, detached, unheld, spawns, faults>>

\* Its stdout is closed, or SPAWN_READY_TIMEOUT passes: the child is killed and
\* reaped before the error is returned.
HandshakeFails(r) ==
    LET t == req[r].token IN
    /\ req[r].pc = "handshake" /\ proc[t] \in {"dead", "wedged"}
    /\ proc' = [proc EXCEPT ![t] = "dead"]
    /\ req' = Goto(r, "abandon", t)
    /\ UNCHANGED <<entry, inflight, killing, fresh, detached, unheld, spawns, faults>>

\* The entry is still this driver's own (Arc::ptr_eq).
OwnsUnlessReady(t) == entry.st # "ready"
Owns(t) == entry = Spawning(t)

publish_ready(r) ==
    LET t == req[r].token IN
    /\ req[r].pc = "publish"
    /\ IF Owns(t)
       THEN /\ entry' = Ready(t) /\ fresh' = UnderWay
            /\ req' = Notified(t, Goto(r, "send", t))
       ELSE /\ req' = Notified(t, Goto(r, "kill", t))
            /\ UNCHANGED <<entry, fresh>>
    /\ UNCHANGED <<proc, inflight, killing, detached, unheld, spawns, faults>>

abandon_spawn(r) ==
    LET t == req[r].token IN
    /\ req[r].pc = "abandon"
    /\ entry' = IF Owns(t) THEN Absent ELSE entry
    /\ req' = Notified(t, Goto(r, "degraded", 0))
    /\ UNCHANGED <<proc, inflight, killing, fresh, detached, unheld, spawns, faults>>

\* A superseded worker is killed and reaped, then the state is acquired anew.
SupersededKept(t) == proc
SupersededProc(t) == [proc EXCEPT ![t] = "dead"]

kill_and_wait(r) ==
    /\ req[r].pc = "kill"
    /\ proc' = SupersededProc(req[r].token)
    /\ req' = [req EXCEPT ![r] = NextRound(@)]
    /\ UNCHANGED <<entry, inflight, killing, fresh, detached, unheld, spawns, faults>>

-----------------------------------------------------------------------------
(* Use of a worker                                                         *)

ArriveUncounted(r) ==
    /\ req[r].pc = "send" /\ Serving(req[r].token)
    /\ req' = Goto(r, "inflight", req[r].token)
    /\ UNCHANGED <<entry, proc, inflight, killing, fresh, detached, unheld, spawns, faults>>

\* The request reaches the worker; its middleware counts it.
Arrive(r) ==
    /\ req[r].pc = "send" /\ Serving(req[r].token)
    /\ req' = Goto(r, "inflight", req[r].token)
    /\ inflight' = [inflight EXCEPT ![req[r].token] = @ + 1]
    /\ UNCHANGED <<entry, proc, killing, fresh, detached, unheld, spawns, faults>>

Respond(r) ==
    /\ req[r].pc = "inflight" /\ Serving(req[r].token)
    /\ req' = Goto(r, "answered", 0)
    /\ inflight' = [inflight EXCEPT ![req[r].token] = @ - 1]
    /\ UNCHANGED <<entry, proc, killing, fresh, detached, unheld, spawns, faults>>

GiveUpWhenLost(r) ==
    /\ req[r].pc \in {"send", "inflight"} /\ ~Serving(req[r].token)
    /\ req' = Goto(r, "degraded", 0)
    /\ UNCHANGED <<entry, proc, inflight, killing, fresh, detached, unheld, spawns, faults>>

\* The worker is gone before a response: one more acquisition, then "warming".
WorkerLost(r) ==
    /\ req[r].pc \in {"send", "inflight"} /\ ~Serving(req[r].token)
    /\ req' = IF req[r].attempt < WORKER_LOST_RETRIES
              THEN [req EXCEPT ![r] = [pc |-> "acquire", token |-> 0, round |-> 0,
                                       attempt |-> @.attempt + 1]]
              ELSE Goto(r, "degraded", 0)
    /\ UNCHANGED <<entry, proc, inflight, killing, fresh, detached, unheld, spawns, faults>>

\* The client goes away and the handler's future is dropped at an await.  A child
\* it owns is not killed by that.  The worker drops its own future of a request in
\* flight as well, which skips the decrement of the middleware.
Drop(r) ==
    /\ req[r].pc \in (Driving \ {"launch"}) \cup {"waiting", "send", "inflight"} /\ Fault
    /\ req' = Goto(r, "dropped", 0)
    /\ unheld' = IF req[r].pc \in Driving THEN unheld \cup {req[r].token} ELSE unheld
    /\ UNCHANGED <<entry, proc, inflight, killing, fresh, detached, spawns>>

-----------------------------------------------------------------------------
(* The worker process                                                      *)

\* The worker prints its ready line; if nobody reads its stdout any more, the
\* print panics and the process ends.
Boot(t) ==
    /\ proc[t] = "booting"
    /\ proc' = [proc EXCEPT ![t] = IF Driven(t) THEN "up" ELSE "dead"]
    /\ UNCHANGED <<entry, req, inflight, killing, fresh, detached, unheld, spawns, faults>>

Wedge(t) ==
    /\ proc[t] = "booting" /\ Fault
    /\ proc' = [proc EXCEPT ![t] = "wedged"]
    /\ UNCHANGED <<entry, req, inflight, killing, fresh, detached, unheld, spawns>>

Crash(t) ==
    /\ Alive(t) /\ Fault
    /\ proc' = [proc EXCEPT ![t] = "dead"]
    /\ UNCHANGED <<entry, req, inflight, killing, fresh, detached, unheld, spawns>>

\* The idle watchdog finds no request in flight and the window elapsed, and starts
\* to close the database; requests may still arrive until the process exits.
IdleClose(t) ==
    /\ proc[t] = "up" /\ ~Driven(t)
    /\ inflight[t] = 0
    /\ entry = Ready(t) => fresh \cap UnderWay = {}
    /\ proc' = [proc EXCEPT ![t] = "closing"]
    /\ UNCHANGED <<entry, req, inflight, killing, fresh, detached, unheld, spawns, faults>>

IdleExit(t) ==
    /\ proc[t] = "closing"
    /\ proc' = [proc EXCEPT ![t] = "dead"]
    /\ UNCHANGED <<entry, req, inflight, killing, fresh, detached, unheld, spawns, faults>>

-----------------------------------------------------------------------------
(* Everybody else who changes the map                                      *)

\* peek_ready and reap: a Ready entry whose child has exited becomes absent.
ReapReady ==
    /\ entry.st = "ready" /\ ~Alive(entry.token)
    /\ entry' = Absent
    /\ UNCHANGED <<proc, req, inflight, killing, fresh, detached, unheld, spawns, faults>>

\* reap: an over-age Spawning is deleted and its waiters are woken.  Before its
\* driver is gone this is a fault.
NeverOrphaned(t) == FALSE
Orphaned(t) == ~Driven(t)

ReapSpawning(t) ==
    /\ entry = Spawning(t)
    /\ entry' = Absent
    /\ detached' = detached \cup {t}
    /\ req' = Notified(t, req)
    /\ UNCHANGED <<proc, inflight, killing, fresh, unheld, spawns>>

ReapOrphan(t) == Orphaned(t) /\ ReapSpawning(t) /\ UNCHANGED faults
ReapSlow(t) == Driven(t) /\ ReapSpawning(t) /\ Fault

\* kill (and, at shutdown, kill_all): the entry is removed first, without a
\* notification; then the child of a Ready entry is killed and reaped.
Kill ==
    /\ entry # Absent /\ Fault
    /\ entry' = Absent
    /\ detached' = detached \cup {entry.token}
    /\ killing' = IF entry.st = "ready" THEN killing \cup {entry.token} ELSE killing
    /\ UNCHANGED <<proc, req, inflight, fresh, unheld, spawns>>

KillChild(t) ==
    /\ t \in killing
    /\ killing' = killing \ {t}
    /\ proc' = [proc EXCEPT ![t] = "dead"]
    /\ UNCHANGED <<entry, req, inflight, fresh, detached, unheld, spawns, faults>>

\* The handler that called kill is dropped while it waits for the child's lock.
DropKill(t) ==
    /\ t \in killing /\ Fault
    /\ killing' = killing \ {t}
    /\ unheld' = unheld \cup {t}
    /\ UNCHANGED <<entry, proc, req, inflight, fresh, detached, spawns>>

CallerStep(r) ==
    \/ AcquireFast(r) \/ Elect(r) \/ FindOther(r) \/ Subscribe(r) \/ WaitTimeout(r)
    \/ Launch(r) \/ HandshakeOk(r) \/ HandshakeFails(r)
    \/ publish_ready(r) \/ abandon_spawn(r) \/ kill_and_wait(r)
    \/ Arrive(r) \/ Respond(r) \/ WorkerLost(r)

Next ==
    \/ \E r \in Callers : CallerStep(r) \/ Start(r) \/ LaunchFails(r) \/ Drop(r)
    \/ \E t \in Tokens : \/ Boot(t) \/ Wedge(t) \/ Crash(t) \/ IdleClose(t) \/ IdleExit(t)
                         \/ ReapOrphan(t) \/ ReapSlow(t) \/ KillChild(t) \/ DropKill(t)
    \/ ReapReady \/ Kill

Spec == Init /\ [][Next]_vars

\* The runtime goes on polling the requests and the handler that kills; a worker
\* boots; the reap timer and the worker's watchdog tick.
FairSpec ==
    /\ Spec
    /\ \A r \in Callers : WF_vars(CallerStep(r))
    /\ \A t \in Tokens :
          /\ WF_vars(Boot(t)) /\ WF_vars(ReapOrphan(t)) /\ WF_vars(KillChild(t))
          /\ WF_vars(IdleClose(t)) /\ WF_vars(IdleExit(t))

-----------------------------------------------------------------------------
(* Properties                                                              *)

Entries == {Absent} \cup {Spawning(t) : t \in Tokens} \cup {Ready(t) : t \in Tokens}
Request == [pc : Places, token : 0..MaxSpawns, round : Nat, attempt : Nat]
Holding == Driving \cup {"await", "waiting", "send", "inflight"}

\* Types: a request at a place where it holds a spawn or a worker has one, and the
\* in-flight count of a worker never falls below zero.
TypeOK ==
    /\ entry \in Entries
    /\ proc \in [Tokens -> ProcStates]
    /\ req \in [Callers -> Request]
    /\ \A r \in Callers : req[r].pc \in Holding => req[r].token \in Tokens
    /\ inflight \in [Tokens -> Nat]
    /\ killing \subseteq Tokens /\ fresh \subseteq Callers
    /\ detached \subseteq Tokens /\ unheld \subseteq Tokens
    /\ spawns \in 0..MaxSpawns /\ faults \in 0..MaxFaults

\* Single flight at the process level: a process that runs is the one the entry
\* names, unless the entry was deleted over its driver's head or by kill.  So two
\* workers never compete for one database except around a kill or a reaped spawn
\* (acquire's second look, the token comparison of publish_ready and
\* abandon_spawn, kill and reap of a child before its spawn is abandoned).
ExclusiveOwner ==
    \A t \in Tokens : Alive(t) /\ t \notin detached => entry \in {Spawning(t), Ready(t)}

\* The registry implements the abstract owner of the database.
Owner == INSTANCE DatabaseOwner
    WITH Workers <- Tokens, live <- {t \in Tokens : Alive(t)}, detached <- detached
OwnerSpec == Owner!Spec

\* An idle exit is invisible: when nothing fails, nobody is killed and nobody goes
\* away, every request is answered, also one that was handed a worker just before
\* it exited, or that missed the notification of a spawn (WORKER_LOST_RETRIES, the
\* rounds of obtain_worker).
IdleExitInvisible ==
    faults = 0 => \A r \in Callers : req[r].pc # "degraded"

\* No entry stays Spawning, whatever becomes of its driver (publish_ready,
\* abandon_spawn, reap).
SpawningResolved ==
    \A t \in Tokens : entry = Spawning(t) ~> entry # Spawning(t)

\* A worker that was superseded or killed while it ran does not live on to hold the
\* database lock: as long as it runs, the request that drives it or the handler
\* that killed it is there to kill and reap it, unless that one was dropped
\* (publish_ready, kill_and_wait, the teardown in spawn_worker, kill).
StraysAreKilled ==
    \A t \in detached \ unheld : Alive(t) => Driven(t) \/ t \in killing

\* Every request ends, also one whose notification was lost between acquire and
\* notified() or whose driver is gone (the timeout of obtain_worker).
RequestsEnd ==
    \A r \in Callers : req[r].pc = "acquire" ~> req[r].pc \in Ended

-----------------------------------------------------------------------------
(* What a comment of the code says and the code does not keep              *)

\* worker.rs: the middleware "tracks in-flight count across the whole request
\* lifetime", and the watchdog "self-exits the worker after the idle window".
ScaleToZero == \A t \in Tokens : proc[t] = "up" ~> proc[t] # "up"
=============================================================================
