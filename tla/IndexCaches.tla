---------------------------- MODULE IndexCaches ----------------------------
(***************************************************************************)
(* What a completed run publishes besides its rows (src/src/indexing/      *)
(* mod.rs): the cached statistics, recomputed by a debounced single-flight *)
(* task, and the sidecar file the router reads.  Writers race: runs that   *)
(* complete, the recompute task, the statistics handler on a cold miss     *)
(* (src/src/server.rs) and the boot task that backfills the sidecar.       *)
(*                                                                         *)
(* Content is abstracted to its age: "fresh" reflects every completed run, *)
(* "stale" misses one, "none" is absent.                                   *)
(***************************************************************************)
EXTENDS Naturals

CONSTANT MaxMisfortunes     \* bound on removals, failures and cold misses

VARIABLES
    dbgen,        \* index generation
    ending,     \* the run that ended last has yet to publish: {its generation}, or {}
    slot,       \* RecomputeSlot and its task: [task, rearm, gen]
    stats,      \* stats_cache in the current database
    reader,     \* what the statistics handler computed on a cold miss
    sidecar,    \* the router-readable sidecar
    seeder,     \* the boot task: the count it holds, or "start" / "done"
    excused,    \* a writer left the statistics stale for a known reason (history)
    misfortunes

cvars == <<dbgen, ending, slot, stats, reader, sidecar, seeder, excused, misfortunes>>

Aged(c) == IF c = "fresh" THEN "stale" ELSE c

CInit ==
    /\ dbgen = 0 /\ ending = {}
    /\ slot = [task |-> "none", rearm |-> FALSE, gen |-> 0]
    /\ stats \in {"none", "fresh"} /\ reader = "none"
    /\ sidecar \in {"none", "fresh"} /\ seeder = "start"
    /\ excused = FALSE /\ misfortunes = 0

Misfortune == misfortunes < MaxMisfortunes /\ misfortunes' = misfortunes + 1

\* A run on database `g` has changed the rows and is observable as done.  A run
\* that read its settings before a removal still writes the removed database.
RunCompletes(g) ==
    /\ ending = {}
    /\ ending' = {g}
    /\ IF g = dbgen
       THEN /\ stats' = Aged(stats) /\ reader' = Aged(reader)
            /\ sidecar' = Aged(sidecar) /\ seeder' = Aged(seeder)
       ELSE UNCHANGED <<stats, reader, sidecar, seeder>>
    /\ UNCHANGED <<dbgen, slot, excused, misfortunes>>

\* Mutant: a completion during the aggregation is not remembered.
CompletionWithoutRearm(g) ==
    slot' = IF slot.task # "none" THEN slot
            ELSE [task |-> "sleeping", rearm |-> FALSE, gen |-> g]

\* One task per repository; a completion that lands in its aggregation re-arms
\* it.  The task keeps the database of its spawn.
note_index_completion(g) ==
    slot' = IF slot.task # "none"
            THEN [slot EXCEPT !.rearm = slot.rearm \/ slot.task # "sleeping"]
            ELSE [task |-> "sleeping", rearm |-> FALSE, gen |-> g]

\* The rest of the Ok branch of run_consumer; the sidecar is best effort.
Publish ==
    /\ \E g \in ending : note_index_completion(g)
    /\ \/ sidecar' = (IF dbgen \in ending THEN "fresh" ELSE "stale") /\ UNCHANGED misfortunes
       \/ Misfortune /\ UNCHANGED sidecar
    /\ ending' = {}
    /\ UNCHANGED <<dbgen, stats, reader, seeder, excused>>

\* run_debounced_recompute: the repository has been quiet for the window.
RecomputeStarts ==
    /\ slot.task = "sleeping"
    /\ slot' = [slot EXCEPT !.task = "computing", !.rearm = FALSE]
    /\ UNCHANGED <<dbgen, ending, stats, reader, sidecar, seeder, excused, misfortunes>>

\* The aggregation, on the database of the spawn; it may fail.
RecomputeStores ==
    /\ slot.task = "computing"
    /\ slot' = [slot EXCEPT !.task = "deciding"]
    /\ \/ slot.gen = dbgen /\ stats' = "fresh" /\ excused' = FALSE /\ UNCHANGED misfortunes
       \/ slot.gen # dbgen /\ excused' = TRUE /\ UNCHANGED <<stats, misfortunes>>
       \/ Misfortune /\ excused' = TRUE /\ UNCHANGED stats
    /\ UNCHANGED <<dbgen, ending, reader, sidecar, seeder>>

\* One more pass, or the task retires.
RecomputeDecides ==
    /\ slot.task = "deciding"
    /\ slot' = IF slot.rearm THEN [slot EXCEPT !.task = "sleeping", !.rearm = FALSE]
               ELSE [slot EXCEPT !.task = "none"]
    /\ UNCHANGED <<dbgen, ending, stats, reader, sidecar, seeder, excused, misfortunes>>

\* get_index_stats on a cold miss: compute ...
StatsMiss ==
    /\ stats = "none" /\ reader = "none" /\ Misfortune
    /\ reader' = "fresh"
    /\ UNCHANGED <<dbgen, ending, slot, stats, sidecar, seeder, excused>>

\* ... and persist what was computed, whatever has been stored since.
StatsStore ==
    /\ reader # "none"
    /\ stats' = reader
    /\ excused' = (excused \/ reader = "stale")
    /\ reader' = "none"
    /\ UNCHANGED <<dbgen, ending, slot, sidecar, seeder, misfortunes>>

\* seed_statuses_from_db: the files are counted and no sidecar is found ...
SeedCounts ==
    /\ seeder = "start"
    /\ seeder' = IF sidecar = "none" THEN "fresh" ELSE "done"
    /\ UNCHANGED <<dbgen, ending, slot, stats, reader, sidecar, excused, misfortunes>>

\* ... so one is written with that count.
SeedWrites ==
    /\ seeder \in {"fresh", "stale"}
    /\ sidecar' = seeder /\ seeder' = "done"
    /\ UNCHANGED <<dbgen, ending, slot, stats, reader, excused, misfortunes>>

\* remove_index: a new, empty database; the sidecar is left as it is.
RemoveIndex ==
    /\ Misfortune
    /\ dbgen' = dbgen + 1
    /\ stats' = "none" /\ reader' = "none" /\ excused' = FALSE
    /\ sidecar' = Aged(sidecar) /\ seeder' = Aged(seeder)
    /\ UNCHANGED <<ending, slot>>

CNext ==
    \/ \E g \in 0 .. dbgen : RunCompletes(g)
    \/ Publish \/ RecomputeStarts \/ RecomputeStores \/ RecomputeDecides
    \/ StatsMiss \/ StatsStore \/ SeedCounts \/ SeedWrites \/ RemoveIndex

CSpec == CInit /\ [][CNext]_cvars

-----------------------------------------------------------------------------
\* When no recompute is scheduled, the cached statistics are those of the last
\* completed run, unless the aggregation failed or ran on a removed database,
\* or a handler that missed the cache stored what it computed before that run.
RecomputeCaughtUp ==
    slot.task = "none" /\ ending = {} /\ stats = "stale" => excused

\* The backfill writes a sidecar only where there is none.
SeedNeverClobbers == [][seeder # "start" /\ seeder' = "done" /\ seeder # "done"
                          => sidecar = "none"]_cvars
=============================================================================
