----------------------------- MODULE StoreOpen -----------------------------
(***************************************************************************)
(* Who holds the database of ONE repository (src/src/store/mod.rs,         *)
(* src/src/engine_ops.rs, put_config of src/src/server.rs).                *)
(*                                                                         *)
(* RocksDB allows one open store per directory.  The process keeps one     *)
(* cached handle per repository, whatever its generation; callers clone    *)
(* it, and a store stays open while a clone lives.  Concurrent actors: the *)
(* index consumer (under the run lock), a reader (warm, status seed,       *)
(* browse: no lock), a background migration, the handler that removes the  *)
(* index, the handler that saves the settings, and a restart.              *)
(***************************************************************************)
EXTENDS Naturals, FiniteSets

CONSTANTS
    MaxGen,         \* highest generation a behaviour reaches
    MaxMishaps      \* bound on restarts, damaged directories and failed writes

ASSUME StoreAssumption == MaxGen \in Nat \ {0} /\ MaxMishaps \in Nat

Gens == 0 .. MaxGen
Openers == {"run", "reader"}

VARIABLES
    fileGen,    \* repo_generations in the settings file
    memGen,     \* the same in memory
    dir,        \* state of every generation's directory
    cached,     \* repo_dbs: the generation of the cached handle, as a set
    gate,       \* the open gate: {} or {its holder}
    opener,     \* [pc, gen, db] of every opener; db: the clone it holds
    runlock,    \* the run lock is held by "none" | "run" | "remove"
    migration,  \* the generation a registered migration works on, as a set
    remover,    \* remove_index: [pc, gen]
    config,     \* put_config: [pc, gen]
    client,     \* the generation in the settings a browser has loaded
    removed,    \* generations whose removal was persisted (history)
    overlapped, \* put_config overlapped a removal (history)
    mishaps

svars == <<fileGen, memGen, dir, cached, gate, opener, runlock, migration, remover, config,
           client, removed, overlapped, mishaps>>

\* "old": rows of an earlier schema version.
DirStates == {"absent", "empty", "old", "data", "corrupt"}

Live(g) ==
    \/ g \in cached \cup migration
    \/ \E p \in Openers : g \in opener[p].db

NoOpener == [pc |-> "idle", gen |-> 0, db |-> {}]
Step(p, pc) == opener' = [opener EXCEPT ![p].pc = pc]
Mishap == mishaps < MaxMishaps /\ mishaps' = mishaps + 1

-----------------------------------------------------------------------------
(* get_or_open, for any caller. *)

\* The reader resolves the generation from the live settings, without a lock;
\* open_if_indexed gives up when there is no directory.
ReaderStarts ==
    /\ opener["reader"].pc = "idle"
    /\ cached # {} \/ dir[memGen] # "absent"
    /\ opener' = [opener EXCEPT !["reader"] = [NoOpener EXCEPT !.pc = "get", !.gen = memGen]]
    /\ UNCHANGED <<fileGen, memGen, dir, cached, gate, runlock, migration, remover, config,
                   client, removed, overlapped, mishaps>>

\* The consumer takes a snapshot of the settings, then waits for the run lock.
RunStarts ==
    /\ opener["run"].pc = "idle"
    /\ opener' = [opener EXCEPT !["run"] = [NoOpener EXCEPT !.pc = "lock", !.gen = memGen]]
    /\ UNCHANGED <<fileGen, memGen, dir, cached, gate, runlock, migration, remover, config,
                   client, removed, overlapped, mishaps>>

RunLocks ==
    /\ opener["run"].pc = "lock" /\ runlock = "none"
    /\ runlock' = "run"
    /\ Step("run", "get")
    /\ UNCHANGED <<fileGen, memGen, dir, cached, gate, migration, remover, config, client,
                   removed, overlapped, mishaps>>

\* Fast path: a cached handle is returned, else the caller goes to the gate.
FastPath(p) ==
    /\ opener[p].pc \in {"get", "again"}
    /\ opener' = [opener EXCEPT ![p].db = cached,
                    ![p].pc = IF cached # {} THEN "got"
                              ELSE IF opener[p].pc = "get" THEN "gate" ELSE "gate_again"]
    /\ UNCHANGED <<fileGen, memGen, dir, cached, gate, runlock, migration, remover, config,
                   client, removed, overlapped, mishaps>>

\* Under the gate the cache is looked up once more.
Gate(p) ==
    /\ opener[p].pc \in {"gate", "gate_again"} /\ gate = {}
    /\ IF cached # {}
       THEN /\ opener' = [opener EXCEPT ![p].db = cached, ![p].pc = "got"]
            /\ UNCHANGED gate
       ELSE /\ gate' = {p}
            /\ Step(p, IF opener[p].pc = "gate" THEN "open" ELSE "open_again")
    /\ UNCHANGED <<fileGen, memGen, dir, cached, runlock, migration, remover, config, client,
                   removed, overlapped, mishaps>>

\* open_db: the directory is created if need be, a live store keeps the LOCK
\* for longer than the retries, a damaged one never opens.
open_db(p) ==
    LET g == opener[p].gen IN
    /\ opener[p].pc \in {"open", "open_again"}
    /\ IF Live(g) \/ dir[g] = "corrupt"
       THEN /\ gate' = {}
            /\ Step(p, IF p = "run" /\ opener[p].pc = "open" THEN "reset" ELSE "failed")
            /\ UNCHANGED dir
       ELSE /\ dir' = IF dir[g] = "absent" THEN [dir EXCEPT ![g] = "empty"] ELSE dir
            /\ opener' = [opener EXCEPT ![p].db = {g}, ![p].pc = "insert"]
            /\ UNCHANGED gate
    /\ UNCHANGED <<fileGen, memGen, cached, runlock, migration, remover, config, client,
                   removed, overlapped, mishaps>>

\* The handle becomes visible to everyone ...
Insert(p) ==
    /\ opener[p].pc = "insert"
    /\ cached' = opener[p].db
    /\ Step(p, "spawn")
    /\ UNCHANGED <<fileGen, memGen, dir, gate, runlock, migration, remover, config, client,
                   removed, overlapped, mishaps>>

\* ... and then a migration is spawned and registered, if the rows are old.
maybe_spawn_migration(p) ==
    /\ opener[p].pc = "spawn"
    /\ migration' = IF \E g \in opener[p].db : dir[g] = "old" THEN cached ELSE migration
    /\ gate' = {}
    /\ Step(p, "got")
    /\ UNCHANGED <<fileGen, memGen, dir, cached, runlock, remover, config, client, removed,
                   overlapped, mishaps>>

\* The migration finishes, or fails and is tried again at the next open.
MigrationEnds ==
    /\ migration # {}
    /\ migration' = {}
    /\ dir' = [g \in Gens |-> IF g \in migration /\ dir[g] = "old" THEN "data" ELSE dir[g]]
    /\ UNCHANGED <<fileGen, memGen, cached, gate, opener, runlock, remover, config, client,
                   removed, overlapped, mishaps>>

MigrationFails ==
    /\ migration # {} /\ Mishap
    /\ migration' = {}
    /\ UNCHANGED <<fileGen, memGen, dir, cached, gate, opener, runlock, remover, config, client,
                   removed, overlapped>>

-----------------------------------------------------------------------------
(* What the openers do with a handle. *)

\* open_or_reset_index: the cached handle is dropped ...
ResetDrops ==
    /\ opener["run"].pc = "reset"
    /\ cached' = {}
    /\ Step("run", "wipe")
    /\ UNCHANGED <<fileGen, memGen, dir, gate, runlock, migration, remover, config, client,
                   removed, overlapped, mishaps>>

\* ... and the directory removed under the gate, unless a store is live in it;
\* then the open is tried once more.
remove_index_dir ==
    LET g == opener["run"].gen IN
    /\ opener["run"].pc = "wipe" /\ gate = {}
    /\ IF Live(g) /\ dir[g] # "absent"
       THEN Step("run", "failed") /\ UNCHANGED dir
       ELSE Step("run", "again") /\ dir' = [dir EXCEPT ![g] = "absent"]
    /\ UNCHANGED <<fileGen, memGen, cached, gate, runlock, migration, remover, config, client,
                   removed, overlapped, mishaps>>

\* wait_migration: the registry names no running task.
wait_migration ==
    /\ opener["run"].pc = "got" /\ migration = {}
    /\ Step("run", "pipeline")
    /\ UNCHANGED <<fileGen, memGen, dir, cached, gate, runlock, migration, remover, config,
                   client, removed, overlapped, mishaps>>

\* The pipeline writes and the clone is dropped; or the run could not open.
RunEnds ==
    /\ opener["run"].pc \in {"pipeline", "failed"}
    /\ dir' = [g \in Gens |-> IF g \in opener["run"].db /\ dir[g] = "empty" THEN "data" ELSE dir[g]]
    /\ opener' = [opener EXCEPT !["run"] = NoOpener]
    /\ runlock' = "none"
    /\ UNCHANGED <<fileGen, memGen, cached, gate, migration, remover, config, client, removed,
                   overlapped, mishaps>>

ReaderEnds ==
    /\ opener["reader"].pc \in {"got", "failed"}
    /\ opener' = [opener EXCEPT !["reader"] = NoOpener]
    /\ UNCHANGED <<fileGen, memGen, dir, cached, gate, runlock, migration, remover, config,
                   client, removed, overlapped, mishaps>>

-----------------------------------------------------------------------------
(* remove_index. *)

RemoverAt(pc) == remover.pc = pc
Removing(pc) == remover' = [remover EXCEPT !.pc = pc]

\* The generation to remove; close_repo_db aborts the migration.
RemoveStarts ==
    /\ RemoverAt("idle") /\ memGen < MaxGen
    /\ remover' = [pc |-> "close", gen |-> memGen]
    /\ UNCHANGED <<fileGen, memGen, dir, cached, gate, opener, runlock, migration, config, client,
                   removed, overlapped, mishaps>>

abort_migration ==
    /\ RemoverAt("close")
    /\ migration' = {}
    /\ Removing("lock")
    /\ UNCHANGED <<fileGen, memGen, dir, cached, gate, opener, runlock, config, client, removed,
                   overlapped, mishaps>>

\* Mutant: the handle is dropped without the run lock.
CloseWithoutLock ==
    /\ RemoverAt("lock")
    /\ cached' = {}
    /\ Removing("persist")
    /\ UNCHANGED <<fileGen, memGen, dir, gate, opener, runlock, migration, config, client,
                   removed, overlapped, mishaps>>

\* Under the run lock the cached handle is dropped.
close_repo_db ==
    /\ RemoverAt("lock") /\ runlock = "none"
    /\ cached' = {}
    /\ Removing("persist")
    /\ UNCHANGED <<fileGen, memGen, dir, gate, opener, runlock, migration, config, client,
                   removed, overlapped, mishaps>>

\* Mutant: memory is bumped first, the file afterwards.
MemoryFirst ==
    /\ RemoverAt("persist")
    /\ memGen' = remover.gen + 1
    /\ Removing("swap")
    /\ UNCHANGED <<fileGen, dir, cached, gate, opener, runlock, migration, config, client,
                   removed, overlapped, mishaps>>

\* The bumped generation is written to the file first (or the handler gives up) ...
PersistBump ==
    /\ RemoverAt("persist")
    /\ \/ /\ fileGen' = remover.gen + 1
          /\ removed' = removed \cup {remover.gen}
          /\ Removing("swap") /\ UNCHANGED mishaps
       \/ Mishap /\ Removing("idle") /\ UNCHANGED <<fileGen, removed>>
    /\ overlapped' = (overlapped \/ config.pc # "idle")
    /\ UNCHANGED <<memGen, dir, cached, gate, opener, runlock, migration, config, client>>

\* ... then to memory ...
SwapBump ==
    /\ RemoverAt("swap")
    /\ memGen' = remover.gen + 1
    /\ Removing("unlink")
    /\ UNCHANGED <<fileGen, dir, cached, gate, opener, runlock, migration, config, client,
                   removed, overlapped, mishaps>>

\* ... and the old directory is removed without the gate, if nothing holds it.
remove_old_generation_dir ==
    /\ RemoverAt("unlink")
    /\ dir' = IF Live(remover.gen) THEN dir ELSE [dir EXCEPT ![remover.gen] = "absent"]
    /\ Removing("idle")
    /\ UNCHANGED <<fileGen, memGen, cached, gate, opener, runlock, migration, config, client,
                   removed, overlapped, mishaps>>

-----------------------------------------------------------------------------
(* put_config. *)

\* A browser loads the settings from the file.
ClientLoads ==
    /\ client # fileGen
    /\ client' = fileGen
    /\ UNCHANGED <<fileGen, memGen, dir, cached, gate, opener, runlock, migration, remover,
                   config, removed, overlapped, mishaps>>

\* Mutant: the client's generations are taken as they are.
TrustClient == client

\* repo_generations is the server's: what the client sent is replaced by the
\* map in memory.
ServerGenerations == memGen

ConfigStarts ==
    /\ config.pc = "idle"
    /\ config' = [pc |-> "write", gen |-> ServerGenerations]
    /\ overlapped' = (overlapped \/ ~RemoverAt("idle"))
    /\ UNCHANGED <<fileGen, memGen, dir, cached, gate, opener, runlock, migration, remover,
                   client, removed, mishaps>>

\* The file first; memory only once that succeeded.
ConfigWrites ==
    /\ config.pc = "write"
    /\ \/ fileGen' = config.gen /\ config' = [config EXCEPT !.pc = "swap"] /\ UNCHANGED mishaps
       \/ Mishap /\ config' = [config EXCEPT !.pc = "idle"] /\ UNCHANGED fileGen
    /\ UNCHANGED <<memGen, dir, cached, gate, opener, runlock, migration, remover, client,
                   removed, overlapped>>

ConfigSwaps ==
    /\ config.pc = "swap"
    /\ memGen' = config.gen
    /\ config' = [config EXCEPT !.pc = "idle"]
    /\ UNCHANGED <<fileGen, dir, cached, gate, opener, runlock, migration, remover, client,
                   removed, overlapped, mishaps>>

-----------------------------------------------------------------------------
(* Restart, damage. *)

\* The process dies and boots: the settings are read, and the directories of
\* earlier generations are swept before anything is opened.
sweep_stale_generations ==
    /\ Mishap
    /\ memGen' = fileGen
    /\ dir' = [g \in Gens |-> IF g < fileGen THEN "absent" ELSE dir[g]]
    /\ cached' = {} /\ gate' = {} /\ migration' = {} /\ runlock' = "none"
    /\ opener' = [p \in Openers |-> NoOpener]
    /\ remover' = [pc |-> "idle", gen |-> 0] /\ config' = [pc |-> "idle", gen |-> 0]
    /\ UNCHANGED <<fileGen, client, removed, overlapped>>

Damage(g) ==
    /\ dir[g] \in {"old", "data"} /\ ~Live(g) /\ Mishap
    /\ dir' = [dir EXCEPT ![g] = "corrupt"]
    /\ UNCHANGED <<fileGen, memGen, cached, gate, opener, runlock, migration, remover, config,
                   client, removed, overlapped>>

SInit ==
    /\ fileGen = 0 /\ memGen = 0 /\ client = 0
    /\ dir \in {[g \in Gens |-> IF g = 0 THEN s ELSE "absent"] : s \in {"absent", "old", "data"}}
    /\ cached = {} /\ gate = {} /\ migration = {} /\ runlock = "none"
    /\ opener = [p \in Openers |-> NoOpener]
    /\ remover = [pc |-> "idle", gen |-> 0] /\ config = [pc |-> "idle", gen |-> 0]
    /\ removed = {} /\ overlapped = FALSE /\ mishaps = 0

SNext ==
    \/ ReaderStarts \/ RunStarts \/ RunLocks
    \/ \E p \in Openers :
          FastPath(p) \/ Gate(p) \/ open_db(p) \/ Insert(p) \/ maybe_spawn_migration(p)
    \/ MigrationEnds \/ MigrationFails
    \/ ResetDrops \/ remove_index_dir \/ wait_migration \/ RunEnds \/ ReaderEnds
    \/ RemoveStarts \/ abort_migration \/ close_repo_db \/ PersistBump \/ SwapBump
    \/ remove_old_generation_dir
    \/ ClientLoads \/ ConfigStarts \/ ConfigWrites \/ ConfigSwaps
    \/ sweep_stale_generations \/ \E g \in Gens : Damage(g)

SSpec == SInit /\ [][SNext]_svars

-----------------------------------------------------------------------------
(* Properties. *)

\* A removed index never comes back: as long as no settings are saved during
\* a removal, no generation whose removal was persisted is named again, by the
\* file or (after the removal) by memory.
RemovedStaysRemoved ==
    ~overlapped =>
        /\ fileGen \notin removed
        /\ RemoverAt("idle") => memGen \notin removed

\* Every directory is at or below the generation in the file, so that the next
\* boot knows it and can reclaim it (same assumption).
NothingBeyondFile ==
    ~overlapped => \A g \in Gens : g > fileGen => dir[g] = "absent"

\* The pipeline writes through the one handle the rest of the process reads
\* through: nobody drops or replaces it while a run uses it.
PipelineHandleShared ==
    opener["run"].pc = "pipeline" => cached = opener["run"].db

\* No handle is bound to a stale generation.
HandleCurrent == RemoverAt("idle") => cached \subseteq {memGen}

\* The pipeline never runs concurrently with a migration.
NoMigrationDuringRun == opener["run"].pc = "pipeline" => migration = {}

\* A directory that is reset did not hold a healthy index.
OnlyDamagedIsReset ==
    [][opener["run"].pc = "wipe" /\ opener'["run"].pc = "again"
         => dir[opener["run"].gen] \in {"absent", "corrupt"}]_svars
=============================================================================
