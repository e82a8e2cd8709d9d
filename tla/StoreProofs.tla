----------------------------- MODULE StoreProofs -----------------------------
(***************************************************************************)
(* Proofs about who holds a repository's database (StoreOpen), about its   *)
(* schema across upgrades (Migrations), about the persisted MCP sessions   *)
(* (McpSessions), about turning texts into vectors (Embedding) and about   *)
(* what the ignore API takes out (IgnoreApi), for any number of            *)
(* generations, rows, faults, sessions, clients, texts and files.          *)
(***************************************************************************)
EXTENDS StoreOpen, Migrations, McpSessions, Embedding, IgnoreApi, FiniteSetTheorems, TLAPS

-----------------------------------------------------------------------------
(* StoreOpen: types                                                        *)

OpenPlaces == {"idle", "lock", "get", "gate", "open", "insert", "spawn", "got", "reset",
               "wipe", "again", "gate_again", "open_again", "pipeline", "failed"}
OpenerRecs == [pc : OpenPlaces, gen : Gens, db : SUBSET Gens]
RemoverRecs == [pc : {"idle", "close", "lock", "persist", "swap", "unlink"}, gen : Gens]
ConfigRecs == [pc : {"idle", "write", "swap"}, gen : Gens]

StoreTypes ==
    /\ fileGen \in Gens /\ memGen \in Gens
    /\ dir \in [Gens -> DirStates]
    /\ cached \subseteq Gens /\ removed \subseteq Gens
    /\ opener \in [Openers -> OpenerRecs]
    /\ remover \in RemoverRecs /\ config \in ConfigRecs
    /\ remover.pc # "idle" => remover.gen < MaxGen

\* A generation that is not the last has a successor.
LEMMA GenFacts ==
  /\ 0 \in Gens
  /\ \A g \in Gens : g \in Nat
  /\ \A g \in Gens : g < MaxGen => g + 1 \in Gens
BY StoreAssumption DEF Gens

LEMMA NoOpenerType == NoOpener \in OpenerRecs
BY GenFacts DEF NoOpener, OpenerRecs, OpenPlaces

\* One opener takes a step.
LEMMA StepFacts ==
  ASSUME opener \in [Openers -> OpenerRecs], NEW p \in Openers, NEW pc \in OpenPlaces,
         Step(p, pc)
  PROVE  /\ opener' \in [Openers -> OpenerRecs]
         /\ opener'[p].pc = pc /\ opener'[p].gen = opener[p].gen
         /\ opener'[p].db = opener[p].db
         /\ \A q \in Openers \ {p} : opener'[q] = opener[q]
BY DEF Step, OpenerRecs

\* One opener takes a step and a handle.
LEMMA TakeFacts ==
  ASSUME opener \in [Openers -> OpenerRecs], NEW p \in Openers, NEW pc \in OpenPlaces,
         NEW h \in SUBSET Gens, opener' = [opener EXCEPT ![p].db = h, ![p].pc = pc]
  PROVE  /\ opener' \in [Openers -> OpenerRecs]
         /\ opener'[p].pc = pc /\ opener'[p].gen = opener[p].gen /\ opener'[p].db = h
         /\ \A q \in Openers \ {p} : opener'[q] = opener[q]
BY DEF OpenerRecs

\* What a step of an opener changes: itself, the gate, the cached handle, a
\* directory it creates or resets, the migration.  The generations stay.
LEMMA OpenerTypes ==
  ASSUME StoreTypes, NEW p \in Openers,
         FastPath(p) \/ Gate(p) \/ open_db(p) \/ Insert(p) \/ maybe_spawn_migration(p)
  PROVE  StoreTypes'
<1> USE DEF StoreTypes
<1>0. opener[p] \in OpenerRecs /\ opener[p].gen \in Gens /\ opener[p].db \subseteq Gens
  BY DEF OpenerRecs
<1>1. CASE FastPath(p)
  <2>1. PICK pc \in OpenPlaces : opener' = [opener EXCEPT ![p].db = cached, ![p].pc = pc]
    BY <1>1 DEF FastPath, OpenPlaces
  <2> QED
    BY <1>1, <2>1, TakeFacts DEF FastPath
<1>2. CASE Gate(p)
  <2>1. CASE cached # {}
    <3>1. opener' = [opener EXCEPT ![p].db = cached, ![p].pc = "got"] /\ "got" \in OpenPlaces
      BY <1>2, <2>1 DEF Gate, OpenPlaces
    <3>2. opener' \in [Openers -> OpenerRecs]
      BY <3>1, TakeFacts
    <3> QED
      BY <1>2, <3>2 DEF Gate
  <2>2. CASE cached = {}
    <3>1. PICK pc \in OpenPlaces : Step(p, pc)
      BY <1>2, <2>2 DEF Gate, OpenPlaces
    <3> QED
      BY <1>2, <3>1, StepFacts DEF Gate
  <2> QED
    BY <2>1, <2>2
<1>3. CASE open_db(p)
  <2> DEFINE g == opener[p].gen
  <2>1. CASE Live(g) \/ dir[g] = "corrupt"
    <3>1. PICK pc \in OpenPlaces : Step(p, pc)
      BY <1>3, <2>1 DEF open_db, OpenPlaces
    <3> QED
      BY <1>3, <2>1, <3>1, StepFacts DEF open_db
  <2>2. CASE ~(Live(g) \/ dir[g] = "corrupt")
    <3>1. opener' \in [Openers -> OpenerRecs]
      <4>1. opener' = [opener EXCEPT ![p].db = {g}, ![p].pc = "insert"]
            /\ "insert" \in OpenPlaces /\ {g} \in SUBSET Gens
        BY <1>0, <1>3, <2>2 DEF open_db, OpenPlaces
      <4> QED
        BY <4>1, TakeFacts
    <3>2. dir' \in [Gens -> DirStates]
      BY <1>0, <1>3, <2>2 DEF open_db, DirStates
    <3> QED
      BY <1>3, <3>1, <3>2 DEF open_db
  <2> QED
    BY <2>1, <2>2
<1>4. CASE Insert(p)
  BY <1>0, <1>4, StepFacts DEF Insert, OpenPlaces
<1>5. CASE maybe_spawn_migration(p)
  BY <1>5, StepFacts DEF maybe_spawn_migration, OpenPlaces
<1> QED
  BY <1>1, <1>2, <1>3, <1>4, <1>5

\* Every other step of an opener, and the migration.
LEMMA UserTypes ==
  ASSUME StoreTypes,
         \/ ReaderStarts \/ RunStarts \/ RunLocks \/ MigrationEnds \/ MigrationFails
         \/ ResetDrops \/ remove_index_dir \/ wait_migration \/ RunEnds \/ ReaderEnds
  PROVE  StoreTypes'
<1> USE DEF StoreTypes
<1>0. "run" \in Openers /\ "reader" \in Openers /\ opener["run"].gen \in Gens
      /\ opener["run"] \in OpenerRecs
  BY DEF Openers, OpenerRecs
<1>1. CASE ReaderStarts \/ RunStarts
  <2>1. /\ [NoOpener EXCEPT !.pc = "get", !.gen = memGen] \in OpenerRecs
        /\ [NoOpener EXCEPT !.pc = "lock", !.gen = memGen] \in OpenerRecs
    BY DEF NoOpener, OpenerRecs, OpenPlaces
  <2>2. opener' \in [Openers -> OpenerRecs]
    BY <1>0, <1>1, <2>1 DEF ReaderStarts, RunStarts
  <2> QED
    BY <1>1, <2>2 DEF ReaderStarts, RunStarts
<1>2. CASE RunLocks \/ wait_migration \/ ResetDrops
  <2>1. PICK pc \in OpenPlaces : Step("run", pc)
    BY <1>2 DEF RunLocks, wait_migration, ResetDrops, OpenPlaces
  <2> QED
    BY <1>0, <1>2, <2>1, StepFacts DEF RunLocks, wait_migration, ResetDrops
<1>3. CASE MigrationEnds
  <2>1. dir' \in [Gens -> DirStates]
    BY <1>3 DEF MigrationEnds, DirStates
  <2> QED
    BY <1>3, <2>1 DEF MigrationEnds
<1>4. CASE MigrationFails
  BY <1>4 DEF MigrationFails
<1>5. CASE remove_index_dir
  <2>1. PICK pc \in OpenPlaces : Step("run", pc)
    BY <1>5 DEF remove_index_dir, OpenPlaces
  <2>2. dir' \in [Gens -> DirStates]
    BY <1>0, <1>5 DEF remove_index_dir, DirStates
  <2> QED
    BY <1>0, <1>5, <2>1, <2>2, StepFacts DEF remove_index_dir
<1>6. CASE RunEnds
  <2>1. dir' \in [Gens -> DirStates]
    BY <1>6 DEF RunEnds, DirStates
  <2> QED
    BY <1>0, <1>6, <2>1, NoOpenerType DEF RunEnds
<1>7. CASE ReaderEnds
  BY <1>0, <1>7, NoOpenerType DEF ReaderEnds
<1> QED
  BY <1>1, <1>2, <1>3, <1>4, <1>5, <1>6, <1>7

\* Removal, settings, restart and damage.
LEMMA HandlerTypes ==
  ASSUME StoreTypes,
         \/ RemoveStarts \/ abort_migration \/ close_repo_db \/ PersistBump \/ SwapBump
         \/ remove_old_generation_dir
         \/ ClientLoads \/ ConfigStarts \/ ConfigWrites \/ ConfigSwaps
         \/ sweep_stale_generations \/ \E g \in Gens : Damage(g)
  PROVE  StoreTypes'
<1> USE DEF StoreTypes
<1>0. /\ remover.gen \in Gens /\ config.gen \in Gens
      /\ remover.pc # "idle" => remover.gen + 1 \in Gens
  BY GenFacts DEF RemoverRecs, ConfigRecs
<1>1. CASE RemoveStarts
  BY <1>1 DEF RemoveStarts, RemoverRecs
<1>2. CASE abort_migration \/ close_repo_db \/ SwapBump
  BY <1>0, <1>2 DEF abort_migration, close_repo_db, SwapBump, RemoverAt, Removing, RemoverRecs
<1>3. CASE PersistBump
  BY <1>0, <1>3 DEF PersistBump, RemoverAt, Removing, RemoverRecs
<1>4. CASE remove_old_generation_dir
  <2>1. dir' \in [Gens -> DirStates]
    BY <1>0, <1>4 DEF remove_old_generation_dir, DirStates
  <2> QED
    BY <1>0, <1>4, <2>1 DEF remove_old_generation_dir, RemoverAt, Removing, RemoverRecs
<1>5. CASE ClientLoads
  BY <1>5 DEF ClientLoads
<1>6. CASE ConfigStarts \/ ConfigSwaps
  BY <1>0, <1>6 DEF ConfigStarts, ConfigSwaps, ServerGenerations, ConfigRecs
<1>7. CASE ConfigWrites
  BY <1>0, <1>7 DEF ConfigWrites, ConfigRecs
<1>8. CASE sweep_stale_generations
  <2>1. dir' \in [Gens -> DirStates]
    BY <1>8 DEF sweep_stale_generations, DirStates
  <2> QED
    BY <1>8, <2>1, GenFacts, NoOpenerType
       DEF sweep_stale_generations, RemoverRecs, ConfigRecs
<1>9. CASE \E g \in Gens : Damage(g)
  <2>1. dir' \in [Gens -> DirStates]
    BY <1>9 DEF Damage, DirStates
  <2> QED
    BY <1>9, <2>1 DEF Damage
<1> QED
  BY <1>1, <1>2, <1>3, <1>4, <1>5, <1>6, <1>7, <1>8, <1>9

-----------------------------------------------------------------------------
(* StoreOpen: the handle of the pipeline                                   *)

\* The pipeline's handle stays the cached one because (1) a run past the run
\* lock keeps it, so that no removal drops the handle, (2) whoever opens is
\* alone behind the gate and found no cached handle, and (3) the run's clone
\* is a cached handle from the moment it is inserted or found.
HandleInv ==
    /\ opener["run"].pc \notin {"idle", "lock"} => runlock = "run"
    /\ \A p \in Openers : opener[p].pc \in {"open", "open_again", "insert", "spawn"}
                              => gate = {p}
    /\ \A p \in Openers : opener[p].pc \in {"open", "open_again", "insert"} => cached = {}
    /\ \A p \in Openers : opener[p].pc = "insert" => opener[p].db # {}
    /\ opener["run"].pc \in {"spawn", "got", "pipeline"} =>
          cached = opener["run"].db /\ cached # {}

\* Steps that leave the handle, the gate and the openers alone.
LEMMA HandleFrame ==
  ASSUME HandleInv, UNCHANGED <<cached, gate, opener, runlock>>
  PROVE  HandleInv'
BY DEF HandleInv

LEMMA HandleStep ==
  ASSUME StoreTypes, HandleInv, SNext
  PROVE  HandleInv'
<1> USE DEF StoreTypes
<1>0. "run" \in Openers /\ "reader" \in Openers /\ opener["run"] \in OpenerRecs
      /\ opener["reader"] \in OpenerRecs /\ \A p \in Openers : p = "run" \/ p = "reader"
  BY DEF Openers
<1>1. CASE ReaderStarts
  <2>1. opener'["run"] = opener["run"] /\ opener'["reader"].pc = "get"
    BY <1>0, <1>1 DEF ReaderStarts, NoOpener
  <2> QED
    BY <1>0, <1>1, <2>1 DEF ReaderStarts, HandleInv
<1>2. CASE RunStarts
  <2>1. opener'["reader"] = opener["reader"] /\ opener'["run"].pc = "lock"
    BY <1>0, <1>2 DEF RunStarts, NoOpener
  <2> QED
    BY <1>0, <1>2, <2>1 DEF RunStarts, HandleInv
<1>3. CASE RunLocks
  <2>1. opener'["run"].pc = "get" /\ opener'["reader"] = opener["reader"]
    BY <1>0, <1>3, StepFacts DEF RunLocks, OpenPlaces
  <2> QED
    BY <1>0, <1>3, <2>1 DEF RunLocks, HandleInv
<1>4. ASSUME NEW p \in Openers, FastPath(p)
      PROVE  HandleInv'
  <2>1. PICK pc \in {"got", "gate", "gate_again"} :
           /\ opener' = [opener EXCEPT ![p].db = cached, ![p].pc = pc]
           /\ pc = "got" => cached # {}
    BY <1>4 DEF FastPath
  <2>2. pc \in OpenPlaces
    BY DEF OpenPlaces
  <2>3. /\ opener'[p].pc = pc /\ opener'[p].db = cached
        /\ \A q \in Openers \ {p} : opener'[q] = opener[q]
    BY <2>1, <2>2 DEF OpenerRecs
  <2> QED
    BY <1>0, <1>4, <2>1, <2>3 DEF FastPath, HandleInv
<1>5. ASSUME NEW p \in Openers, Gate(p)
      PROVE  HandleInv'
  <2>1. CASE cached # {}
    <3>1. opener' = [opener EXCEPT ![p].db = cached, ![p].pc = "got"] /\ "got" \in OpenPlaces
      BY <1>5, <2>1 DEF Gate, OpenPlaces
    <3>2. /\ opener'[p].pc = "got" /\ opener'[p].db = cached
          /\ \A q \in Openers \ {p} : opener'[q] = opener[q]
      BY <3>1 DEF OpenerRecs
    <3> QED
      BY <1>0, <1>5, <2>1, <3>2 DEF Gate, HandleInv
  <2>2. CASE cached = {}
    <3>1. PICK pc \in {"open", "open_again"} : Step(p, pc)
      BY <1>5, <2>2 DEF Gate
    <3>2. pc \in OpenPlaces
      BY DEF OpenPlaces
    <3>3. opener'[p].pc = pc /\ \A q \in Openers \ {p} : opener'[q] = opener[q]
      BY <3>1, <3>2, StepFacts
    <3> QED
      BY <1>0, <1>5, <2>2, <3>3 DEF Gate, HandleInv
  <2> QED
    BY <2>1, <2>2
<1>6. ASSUME NEW p \in Openers, open_db(p)
      PROVE  HandleInv'
  <2> DEFINE g == opener[p].gen
  <2>1. CASE Live(g) \/ dir[g] = "corrupt"
    <3>1. PICK pc \in {"reset", "failed"} : Step(p, pc)
      BY <1>6, <2>1 DEF open_db
    <3>2. pc \in OpenPlaces
      BY DEF OpenPlaces
    <3>3. opener'[p].pc = pc /\ \A q \in Openers \ {p} : opener'[q] = opener[q]
      BY <3>1, <3>2, StepFacts
    <3> QED
      BY <1>0, <1>6, <2>1, <3>3 DEF open_db, HandleInv
  <2>2. CASE ~(Live(g) \/ dir[g] = "corrupt")
    <3>1. opener' = [opener EXCEPT ![p].db = {g}, ![p].pc = "insert"]
          /\ "insert" \in OpenPlaces /\ {g} \in SUBSET Gens
      BY <1>6, <2>2 DEF open_db, OpenPlaces, OpenerRecs
    <3>2. /\ opener'[p].pc = "insert" /\ opener'[p].db = {g}
          /\ \A q \in Openers \ {p} : opener'[q] = opener[q]
      BY ZenonT(60), <3>1, TakeFacts
    <3> QED
      BY <1>0, <1>6, <2>2, <3>2 DEF open_db, HandleInv
  <2> QED
    BY <2>1, <2>2
<1>7. ASSUME NEW p \in Openers, Insert(p)
      PROVE  HandleInv'
  <2>1. /\ opener'[p].pc = "spawn" /\ opener'[p].db = opener[p].db
        /\ \A q \in Openers \ {p} : opener'[q] = opener[q]
    BY <1>7, StepFacts DEF Insert, OpenPlaces
  <2> QED
    BY <1>0, <1>7, <2>1 DEF Insert, HandleInv
<1>8. ASSUME NEW p \in Openers, maybe_spawn_migration(p)
      PROVE  HandleInv'
  <2>1. /\ opener'[p].pc = "got" /\ opener'[p].db = opener[p].db
        /\ \A q \in Openers \ {p} : opener'[q] = opener[q]
    BY <1>8, StepFacts DEF maybe_spawn_migration, OpenPlaces
  <2> QED
    BY <1>0, <1>8, <2>1 DEF maybe_spawn_migration, HandleInv
<1>9. CASE ResetDrops
  <2>1. opener'["run"].pc = "wipe" /\ opener'["reader"] = opener["reader"]
    BY <1>0, <1>9, StepFacts DEF ResetDrops, OpenPlaces
  <2> QED
    BY <1>0, <1>9, <2>1 DEF ResetDrops, HandleInv
<1>10. CASE remove_index_dir
  <2>1. PICK pc \in {"failed", "again"} : Step("run", pc)
    BY <1>10 DEF remove_index_dir
  <2>2. pc \in OpenPlaces
    BY DEF OpenPlaces
  <2>3. opener'["run"].pc = pc /\ opener'["reader"] = opener["reader"]
    BY <1>0, <2>1, <2>2, StepFacts
  <2> QED
    BY <1>0, <1>10, <2>3 DEF remove_index_dir, HandleInv
<1>11. CASE wait_migration
  <2>1. /\ opener'["run"].pc = "pipeline" /\ opener'["run"].db = opener["run"].db
        /\ opener'["reader"] = opener["reader"]
    BY <1>0, <1>11, StepFacts DEF wait_migration, OpenPlaces
  <2> QED
    BY <1>0, <1>11, <2>1 DEF wait_migration, HandleInv
<1>12. CASE RunEnds
  <2>1. opener'["run"].pc = "idle" /\ opener'["reader"] = opener["reader"]
    BY <1>0, <1>12 DEF RunEnds, NoOpener
  <2> QED
    BY <1>0, <1>12, <2>1 DEF RunEnds, HandleInv
<1>13. CASE ReaderEnds
  <2>1. opener'["reader"].pc = "idle" /\ opener'["run"] = opener["run"]
    BY <1>0, <1>13 DEF ReaderEnds, NoOpener
  <2> QED
    BY <1>0, <1>13, <2>1 DEF ReaderEnds, HandleInv
<1>14. CASE close_repo_db
  BY <1>0, <1>14 DEF close_repo_db, HandleInv
<1>15. CASE sweep_stale_generations
  <2>1. \A p \in Openers : opener'[p].pc = "idle"
    BY <1>15 DEF sweep_stale_generations, NoOpener
  <2> QED
    BY <1>0, <2>1 DEF HandleInv
<1>16. CASE MigrationEnds \/ MigrationFails
  BY <1>16, HandleFrame DEF MigrationEnds, MigrationFails
<1>17. CASE RemoveStarts \/ abort_migration \/ PersistBump \/ SwapBump \/ remove_old_generation_dir
  BY <1>17, HandleFrame DEF RemoveStarts, abort_migration, PersistBump, SwapBump,
     remove_old_generation_dir
<1>18. CASE ClientLoads \/ ConfigStarts \/ ConfigWrites \/ ConfigSwaps
  BY <1>18, HandleFrame DEF ClientLoads, ConfigStarts, ConfigWrites, ConfigSwaps
<1>19. CASE \E g \in Gens : Damage(g)
  BY <1>19, HandleFrame DEF Damage
<1> QED
  BY <1>1, <1>2, <1>3, <1>4, <1>5, <1>6, <1>7, <1>8, <1>9, <1>10, <1>11, <1>12, <1>13, <1>14,
     <1>15, <1>16, <1>17, <1>18, <1>19 DEF SNext

-----------------------------------------------------------------------------
(* StoreOpen: the generations                                              *)

\* As long as settings are not saved during a removal: memory and file agree but
\* between the two writes of a removal, a saved map is the current one, and
\* everything that is removed or was ever resolved is behind the file.
GenInv ==
    ~overlapped =>
        /\ remover.pc # "swap" => memGen = fileGen
        /\ remover.pc = "swap" => fileGen = remover.gen + 1 /\ memGen = remover.gen
        /\ remover.pc \in {"close", "lock", "persist"} => remover.gen = memGen
        /\ config.pc # "idle" => /\ config.gen = memGen
                                 /\ remover.pc \in {"idle", "close", "lock", "persist"}
        /\ \A g \in removed : g < fileGen
        /\ \A p \in Openers : opener[p].gen <= fileGen
        /\ \A g \in Gens : g > fileGen => dir[g] = "absent"

\* The openers keep their generation; directories appear only at it.
LEMMA OpenerGens ==
  ASSUME StoreTypes, GenInv, NEW p \in Openers,
         FastPath(p) \/ Gate(p) \/ open_db(p) \/ Insert(p) \/ maybe_spawn_migration(p)
  PROVE  GenInv'
<1> USE DEF StoreTypes
<1>1. \A q \in Openers : opener'[q].gen = opener[q].gen
  <2>1. CASE FastPath(p)
    BY <2>1 DEF FastPath, OpenerRecs
  <2>2. CASE Gate(p)
    <3>1. CASE opener' = [opener EXCEPT ![p].db = cached, ![p].pc = "got"]
      BY <3>1 DEF OpenerRecs
    <3>2. CASE \E pc : Step(p, pc)
      BY <3>2 DEF Step, OpenerRecs
    <3> QED
      BY <2>2, <3>1, <3>2 DEF Gate
  <2>3. CASE open_db(p)
    <3>1. CASE \E pc : Step(p, pc)
      BY <3>1 DEF Step, OpenerRecs
    <3>2. CASE opener' = [opener EXCEPT ![p].db = {opener[p].gen}, ![p].pc = "insert"]
      BY <3>2 DEF OpenerRecs
    <3> QED
      BY <2>3, <3>1, <3>2 DEF open_db
  <2>4. CASE Insert(p) \/ maybe_spawn_migration(p)
    BY <2>4 DEF Insert, maybe_spawn_migration, Step, OpenerRecs
  <2> QED
    BY <2>1, <2>2, <2>3, <2>4
<1>2. /\ UNCHANGED <<fileGen, memGen, remover, config, removed, overlapped>>
      /\ dir' = dir \/ dir' = [dir EXCEPT ![opener[p].gen] = "empty"]
  BY DEF FastPath, Gate, open_db, Insert, maybe_spawn_migration
<1>3. opener[p].gen \in Gens /\ fileGen \in Nat /\ \A g \in Gens : g \in Nat
  BY GenFacts DEF OpenerRecs
<1>4. ~overlapped /\ (\A g \in Gens : g > fileGen => dir[g] = "absent")
        /\ opener[p].gen <= fileGen
      => \A g \in Gens : g > fileGen => dir'[g] = "absent"
  BY <1>2, <1>3
<1> QED
  BY <1>1, <1>2, <1>4 DEF GenInv

\* No other step of an opener makes a directory or resolves a generation but
\* the current one.
LEMMA UserGens ==
  ASSUME StoreTypes, GenInv,
         \/ ReaderStarts \/ RunStarts \/ RunLocks \/ MigrationEnds \/ MigrationFails
         \/ ResetDrops \/ remove_index_dir \/ wait_migration \/ RunEnds \/ ReaderEnds
  PROVE  GenInv'
<1> USE DEF StoreTypes
<1>0. /\ fileGen \in Nat /\ memGen \in Nat /\ remover.gen \in Nat
      /\ \A g \in Gens : g \in Nat /\ 0 <= g
  BY GenFacts DEF RemoverRecs
<1>1. /\ UNCHANGED <<fileGen, memGen, remover, config, removed, overlapped>>
      /\ \A g \in Gens : dir[g] = "absent" => dir'[g] = "absent"
  BY DEF ReaderStarts, RunStarts, RunLocks, MigrationEnds, MigrationFails, ResetDrops,
         remove_index_dir, wait_migration, RunEnds, ReaderEnds
<1>2. \A q \in Openers : opener'[q].gen \in {opener[q].gen, memGen, 0}
  <2>1. CASE ReaderStarts \/ RunStarts
    BY <2>1 DEF ReaderStarts, RunStarts, NoOpener
  <2>2. CASE RunLocks \/ ResetDrops \/ wait_migration
    BY <2>2 DEF RunLocks, ResetDrops, wait_migration, Step, OpenerRecs
  <2>3. CASE remove_index_dir
    BY <2>3 DEF remove_index_dir, Step, OpenerRecs
  <2>4. CASE RunEnds \/ ReaderEnds
    BY <2>4 DEF RunEnds, ReaderEnds, NoOpener
  <2>5. CASE MigrationEnds \/ MigrationFails
    BY <2>5 DEF MigrationEnds, MigrationFails
  <2> QED
    BY <2>1, <2>2, <2>3, <2>4, <2>5
<1>3. ~overlapped => memGen <= fileGen
  BY <1>0 DEF GenInv, RemoverRecs
<1>4. ~overlapped => \A q \in Openers : opener'[q].gen <= fileGen
  BY <1>0, <1>2, <1>3 DEF GenInv
<1> QED
  BY <1>1, <1>4 DEF GenInv

\* The removal, the settings, a restart.
LEMMA HandlerGens ==
  ASSUME StoreTypes, GenInv,
         \/ RemoveStarts \/ abort_migration \/ close_repo_db \/ PersistBump \/ SwapBump
         \/ remove_old_generation_dir
         \/ ClientLoads \/ ConfigStarts \/ ConfigWrites \/ ConfigSwaps
         \/ sweep_stale_generations \/ \E g \in Gens : Damage(g)
  PROVE  GenInv'
<1> USE DEF StoreTypes, GenInv
<1>0. /\ fileGen \in Nat /\ memGen \in Nat /\ remover.gen \in Nat
      /\ \A g \in Gens : g \in Nat /\ 0 <= g
      /\ \A p \in Openers : opener[p].gen \in Nat
  BY GenFacts DEF RemoverRecs, OpenerRecs
<1>1. CASE RemoveStarts
  BY <1>1 DEF RemoveStarts, RemoverAt
<1>2. CASE abort_migration \/ close_repo_db
  BY <1>2 DEF abort_migration, close_repo_db, RemoverAt, Removing, RemoverRecs
<1>3. CASE PersistBump
  <2> SUFFICES ASSUME ~overlapped' PROVE GenInv'
    OBVIOUS
  <2>1. ~overlapped /\ config.pc = "idle" /\ remover.gen = memGen /\ memGen = fileGen
    BY <1>3 DEF PersistBump, RemoverAt
  <2>2. UNCHANGED <<memGen, dir, opener, config>>
    BY <1>3 DEF PersistBump
  <2>3. CASE fileGen' = remover.gen + 1 /\ removed' = removed \cup {remover.gen} /\ Removing("swap")
    <3>1. remover'.pc = "swap" /\ remover'.gen = remover.gen /\ fileGen' = fileGen + 1
      BY <2>1, <2>3 DEF Removing, RemoverRecs
    <3>2. \A g \in removed' : g < fileGen'
      BY <1>0, <2>1, <2>3, <3>1
    <3>3. \A p \in Openers : opener'[p].gen <= fileGen'
      BY <1>0, <2>1, <2>2, <3>1
    <3>4. \A g \in Gens : g > fileGen' => dir'[g] = "absent"
      BY <1>0, <2>1, <2>2, <3>1
    <3> QED
      BY <2>1, <2>2, <2>3, <3>1, <3>2, <3>3, <3>4
  <2>4. CASE Mishap /\ Removing("idle") /\ UNCHANGED <<fileGen, removed>>
    BY <2>1, <2>2, <2>4 DEF Removing, RemoverRecs
  <2> QED
    BY <1>3, <2>3, <2>4 DEF PersistBump
<1>4. CASE SwapBump
  BY <1>4 DEF SwapBump, RemoverAt, Removing, RemoverRecs
<1>5. CASE remove_old_generation_dir
  <2>1. \A g \in Gens : dir[g] = "absent" => dir'[g] = "absent"
    BY <1>5 DEF remove_old_generation_dir
  <2> QED
    BY <1>5, <2>1 DEF remove_old_generation_dir, RemoverAt, Removing, RemoverRecs
<1>6. CASE ClientLoads
  BY <1>6 DEF ClientLoads
<1>7. CASE ConfigStarts
  BY <1>7 DEF ConfigStarts, ServerGenerations, RemoverAt
<1>8. CASE ConfigWrites
  <2> SUFFICES ASSUME ~overlapped' PROVE GenInv'
    OBVIOUS
  <2>1. ~overlapped /\ UNCHANGED <<memGen, dir, opener, remover, removed>>
    BY <1>8 DEF ConfigWrites
  <2>2. fileGen' = fileGen
    BY <1>8, <2>1 DEF ConfigWrites
  <2>3. config'.gen = config.gen /\ config'.pc \in {"swap", "idle"}
    BY <1>8 DEF ConfigWrites, ConfigRecs
  <2> QED
    BY <1>8, <2>1, <2>2, <2>3 DEF ConfigWrites
<1>9. CASE ConfigSwaps
  BY <1>9 DEF ConfigSwaps, ConfigRecs
<1>10. CASE sweep_stale_generations
  <2>1. \A g \in Gens : dir[g] = "absent" => dir'[g] = "absent"
    BY <1>10 DEF sweep_stale_generations
  <2>2. \A p \in Openers : opener'[p].gen = 0
    BY <1>10 DEF sweep_stale_generations, NoOpener
  <2> QED
    BY <1>0, <1>10, <2>1, <2>2 DEF sweep_stale_generations
<1>11. CASE \E g \in Gens : Damage(g)
  <2>1. \A g \in Gens : dir[g] = "absent" => dir'[g] = "absent"
    BY <1>11 DEF Damage
  <2> QED
    BY <1>11, <2>1 DEF Damage
<1> QED
  BY <1>1, <1>2, <1>3, <1>4, <1>5, <1>6, <1>7, <1>8, <1>9, <1>10, <1>11

\* Every step keeps the three together.
LEMMA StoreStep ==
  StoreTypes /\ HandleInv /\ GenInv /\ [SNext]_svars => StoreTypes' /\ HandleInv' /\ GenInv'
<1> SUFFICES ASSUME StoreTypes, HandleInv, GenInv, [SNext]_svars
             PROVE  StoreTypes' /\ HandleInv' /\ GenInv'
  OBVIOUS
<1>1. CASE SNext
  BY <1>1, OpenerTypes, UserTypes, HandlerTypes, HandleStep, OpenerGens, UserGens, HandlerGens
     DEF SNext
<1>2. CASE UNCHANGED svars
  BY <1>2 DEF svars, StoreTypes, HandleInv, GenInv
<1> QED
  BY <1>1, <1>2

LEMMA StoreInit == SInit => StoreTypes /\ HandleInv /\ GenInv
<1> SUFFICES ASSUME SInit PROVE StoreTypes /\ HandleInv /\ GenInv
  OBVIOUS
<1> USE DEF SInit
<1>1. dir \in [Gens -> DirStates] /\ \A g \in Gens : g > 0 => dir[g] = "absent"
  BY GenFacts DEF DirStates
<1>2. \A p \in Openers : opener[p].pc = "idle" /\ opener[p].gen = 0
  BY DEF NoOpener
<1>3. StoreTypes
  BY <1>1, GenFacts, NoOpenerType DEF StoreTypes, RemoverRecs, ConfigRecs
<1>4. HandleInv
  BY <1>2 DEF HandleInv, Openers
<1>5. GenInv
  BY <1>1, <1>2 DEF GenInv
<1> QED
  BY <1>3, <1>4, <1>5

\* The pipeline writes through the handle everyone reads through, in every
\* interleaving of runs, readers, migrations, removals and restarts
\* (get_or_open, open_or_reset_index, close_repo_db).
THEOREM HandleShared == SSpec => []PipelineHandleShared
<1>1. HandleInv => PipelineHandleShared
  BY DEF HandleInv, PipelineHandleShared
<1> QED
  BY <1>1, StoreInit, StoreStep, PTL DEF SSpec

\* A removed index never comes back, as long as no settings are saved during a
\* removal (remove_index writes the file first, put_config keeps the server's
\* generations).
THEOREM RemovalsStick == SSpec => []RemovedStaysRemoved
<1>1. StoreTypes /\ GenInv => RemovedStaysRemoved
  <2> SUFFICES ASSUME StoreTypes, GenInv, ~overlapped
               PROVE  fileGen \notin removed /\ (RemoverAt("idle") => memGen \notin removed)
    BY DEF RemovedStaysRemoved
  <2> QED
    BY GenFacts DEF GenInv, StoreTypes, RemoverAt
<1> QED
  BY <1>1, StoreInit, StoreStep, PTL DEF SSpec

\* No directory is beyond the generation in the file, so that the next boot can
\* reclaim it (open_db, sweep_stale_generations), on the same condition.
THEOREM DirectoriesKnown == SSpec => []NothingBeyondFile
<1>1. GenInv => NothingBeyondFile
  BY DEF GenInv, NothingBeyondFile
<1> QED
  BY <1>1, StoreInit, StoreStep, PTL DEF SSpec

-----------------------------------------------------------------------------
(* Migrations                                                              *)

Tasks == [at : {"none", "start", "scan", "update", "cleanup", "act", "probe", "marker",
                "poll", "stamp"},
          step : 0 .. DB_SCHEMA_VERSION, what : Backfills \cup {"none"},
          page : SUBSET Rows, last : Nat]

\* Items in their old form that some statement should have converted.
Owed == legacy \ swallowed

\* The rows of a backfill up to a key are converted, but for those in `except`.
DoneUpTo(b, key, except) ==
    \A r \in Rows : r <= key /\ r \notin except => Row(b, r) \notin Owed

\* The step of the chain owes nothing any more.
StepDone(k) == \A x \in Owed : PromisedBy(x) # k

SchemaTypes ==
    /\ stamped \in 0 .. DB_SCHEMA_VERSION
    /\ legacy \subseteq LegacyItems
    /\ cursor \in [Backfills -> Nat]
    /\ idx \in [Indexes -> {"absent", "building", "ready", "error"}]
    /\ task \in Tasks
    /\ open \in {"closed", "indexes", "open"}
    /\ rebuild \in {"none", "written", "symbols", "raw_edges", "calls", "done"}

\* Where the chain is, and what it has converted on its way there: a backfill
\* everything up to its position but the rest of the page, the persisted cursor
\* never more than is converted.
ChainInv ==
    /\ task.at # "none" =>
          /\ task.step \in 2 .. DB_SCHEMA_VERSION
          /\ task.step = read_db_schema_version + 1
          /\ open = "open" /\ rebuild = "none"
    /\ \A b \in Backfills : DoneUpTo(b, cursor[b], {})
    /\ task.at \in {"scan", "update", "cleanup"} =>
          /\ task.what \in Backfills
          /\ task.step = IF task.what = "chunk" THEN 5 ELSE 2
          /\ task.what = "file_meta" => \A r \in Rows : Row("calls", r) \notin Owed
    /\ task.at = "scan" => DoneUpTo(task.what, task.last, {})
    /\ task.at = "update" => DoneUpTo(task.what, task.last, task.page)
    /\ task.at = "cleanup" => \A r \in Rows : Row(task.what, r) \notin Owed
    /\ task.at \in {"stamp", "probe", "marker"} => StepDone(task.step)
    /\ task.at = "act" => task.step \notin {2, 5}
    /\ task.at = "poll" => task.step = 8
    /\ task.at = "probe" => task.step = 3
    /\ task.at = "marker" => task.step = 6
    /\ task.at = "stamp" /\ task.step = 8 => idx["raw_edge"] = "ready"

\* An empty database has nothing old in it, no chain and no build under way.
EmptyInv ==
    /\ ~populated =>
          /\ legacy = {} /\ stamped \in {0, DB_SCHEMA_VERSION} /\ task = NoTask
          /\ \A i \in Indexes : idx[i] \in {"absent", "ready"}
    /\ rebuild # "none" => populated /\ open = "open"

\* What a rebuild has rebuilt at each of its stages.
RebuiltInv ==
    ~unrepaired =>
        /\ rebuild \in {"written", "symbols", "raw_edges"} => idx["calls"] = "ready"
        /\ rebuild \in {"symbols", "raw_edges", "calls", "done"} => idx["symbol"] = "ready"
        /\ rebuild \in {"raw_edges", "calls", "done"} => idx["raw_edge"] = "ready"
        /\ rebuild = "done" => idx["calls"] = "ready"

SchemaInv ==
    /\ SchemaTypes /\ ChainInv /\ EmptyInv /\ RebuiltInv
    /\ StampedMeansConverted /\ IndexesReadyWhenOpen

\* What each version promises, item by item.
LEMMA PromiseFacts ==
  ASSUME NEW x \in LegacyItems
  PROVE  /\ PromisedBy(x) \in {2, 3, 4, 5, 6, 7, 9}
         /\ PromisedBy(x) = 2 => \E r \in Rows : x = Row("calls", r) \/ x = Row("file_meta", r)
         /\ PromisedBy(x) = 3 => x = Whole("chunk_table")
         /\ PromisedBy(x) = 4 => x = Whole("symbol_table")
         /\ PromisedBy(x) = 5 => \E r \in Rows : x = Row("chunk", r)
         /\ PromisedBy(x) = 6 => x = Whole("relations")
         /\ PromisedBy(x) = 7 => x \in {Whole("edges_resolved"), Whole("raw_edge_complete")}
         /\ PromisedBy(x) = 9 => x = Whole("js_files")
<1> DEFINE Names == {"chunk_table", "symbol_table", "relations", "edges_resolved",
                     "raw_edge_complete", "js_files"}
<1>1. ASSUME NEW b \in Backfills, NEW r \in Rows, x = Row(b, r)
      PROVE  \/ b = "calls" /\ PromisedBy(x) = 2
             \/ b = "file_meta" /\ PromisedBy(x) = 2
             \/ b = "chunk" /\ PromisedBy(x) = 5
  <2>1. x.item = b /\ b \in {"calls", "file_meta", "chunk"}
    BY <1>1 DEF Row, Backfills
  <2> QED
    BY <2>1 DEF PromisedBy
<1>2. ASSUME NEW i \in Names, x = Whole(i)
      PROVE  \/ i = "chunk_table" /\ PromisedBy(x) = 3
             \/ i = "symbol_table" /\ PromisedBy(x) = 4
             \/ i = "relations" /\ PromisedBy(x) = 6
             \/ i \in {"edges_resolved", "raw_edge_complete"} /\ PromisedBy(x) = 7
             \/ i = "js_files" /\ PromisedBy(x) = 9
  <2>1. x.item = i
    BY <1>2 DEF Whole
  <2> QED
    BY <2>1 DEF PromisedBy
<1>3. CASE x \in {Row(b, r) : b \in Backfills, r \in Rows}
  <2>1. PICK b \in Backfills, r \in Rows : x = Row(b, r)
    BY <1>3
  <2>2. \/ b = "calls" /\ PromisedBy(x) = 2
        \/ b = "file_meta" /\ PromisedBy(x) = 2
        \/ b = "chunk" /\ PromisedBy(x) = 5
    BY <1>1, <2>1
  <2> QED
    BY <2>1, <2>2
<1>4. CASE x \in {Whole(i) : i \in Names}
  <2>1. PICK i \in Names : x = Whole(i)
    BY <1>4
  <2>2. \/ i = "chunk_table" /\ PromisedBy(x) = 3
        \/ i = "symbol_table" /\ PromisedBy(x) = 4
        \/ i = "relations" /\ PromisedBy(x) = 6
        \/ i \in {"edges_resolved", "raw_edge_complete"} /\ PromisedBy(x) = 7
        \/ i = "js_files" /\ PromisedBy(x) = 9
    BY <1>2, <2>1
  <2> QED
    BY <2>1, <2>2
<1> QED
  BY <1>3, <1>4 DEF LegacyItems

LEMMA TaskFacts ==
  /\ NoTask \in Tasks /\ NoTask.at = "none"
  /\ 0 \in 0 .. DB_SCHEMA_VERSION /\ DB_SCHEMA_VERSION = 9
  /\ Rows \subseteq Nat /\ \A r \in Rows : r > 0
BY MigrationAssumption DEF NoTask, Tasks, DB_SCHEMA_VERSION, Rows

\* The next step of the chain begins.
LEMMA StepBegins ==
  ASSUME NEW s \in 0 .. DB_SCHEMA_VERSION,
         NEW t, t = [NoTask EXCEPT !.at = "start", !.step = s]
  PROVE  t \in Tasks /\ t.at = "start" /\ t.step = s
<1>1. t = [at |-> "start", step |-> s, what |-> "none", page |-> {}, last |-> 0]
  BY DEF NoTask
<1> QED
  BY <1>1, MigrationAssumption DEF Tasks, Rows

\* What is converted stays converted.
LEMMA DoneStays ==
  ASSUME Owed' \subseteq Owed, NEW b, NEW key, NEW except, DoneUpTo(b, key, except)
  PROVE  (DoneUpTo(b, key, except))'
BY DEF DoneUpTo

\* The part of ChainInv about the persisted cursors.
CursorsBehind == \A b \in Backfills : DoneUpTo(b, cursor[b], {})

LEMMA CursorsStay ==
  ASSUME ChainInv, Owed' \subseteq Owed, cursor' = cursor
  PROVE  CursorsBehind'
BY DEF ChainInv, CursorsBehind, DoneUpTo

\* A chain that ends anywhere leaves nothing to say of it.
LEMMA ChainEnds ==
  ASSUME CursorsBehind', task' = NoTask
  PROVE  ChainInv'
BY TaskFacts DEF ChainInv, CursorsBehind

\* A step of the chain that leaves the indexes and the version alone.
LEMMA ChainMove ==
  ASSUME SchemaInv, task.at # "none",
         UNCHANGED <<stamped, populated, idx, open, rebuild, unrepaired>>,
         legacy' \subseteq legacy, swallowed \subseteq swallowed',
         cursor' \in [Backfills -> Nat], task' \in Tasks, ChainInv'
  PROVE  SchemaInv'
<1>1. populated
  BY TaskFacts DEF SchemaInv, EmptyInv
<1> QED
  BY <1>1 DEF SchemaInv, SchemaTypes, EmptyInv, RebuiltInv, StampedMeansConverted,
              IndexesReadyWhenOpen

\* A statement converts its items or goes unnoticed, or the chain ends.
LEMMA StatementFacts ==
  ASSUME NEW items, NEW checked \in BOOLEAN, NEW next, Statement(items, checked, next)
  PROVE  /\ legacy' \subseteq legacy /\ swallowed \subseteq swallowed' /\ Owed' \subseteq Owed
         /\ \/ task' = next /\ \A x \in items : x \notin Owed'
            \/ task' = NoTask
BY DEF Statement, Owed

\* The step of the chain that is one statement: afterwards it owes nothing.
LEMMA OneStatement ==
  ASSUME SchemaInv, task.at = "act", NEW items,
         legacy' \subseteq legacy, swallowed \subseteq swallowed', Owed' \subseteq Owed,
         NEW at \in {"stamp", "probe", "marker"},
         \/ task' = [task EXCEPT !.at = at] /\ \A x \in items : x \notin Owed'
         \/ task' = NoTask,
         at = "probe" => task.step = 3, at = "marker" => task.step = 6,
         \A x \in LegacyItems : PromisedBy(x) = task.step => x \in items,
         task.step # 8,
         UNCHANGED <<stamped, populated, cursor, idx, open, rebuild, unrepaired>>
  PROVE  SchemaInv'
<1> DEFINE next == [task EXCEPT !.at = at]
<1>1. CursorsBehind'
  BY CursorsStay DEF SchemaInv
<1>2. next \in Tasks /\ next.at = at /\ next.step = task.step
  BY DEF SchemaInv, SchemaTypes, Tasks
<1>3. CASE task' = NoTask
  BY <1>1, <1>3, ChainEnds, ChainMove, TaskFacts DEF SchemaInv, SchemaTypes
<1>4. CASE task' = next /\ \A x \in items : x \notin Owed'
  <2>1. (StepDone(task.step))'
    <3>1. task'.step = task.step
      BY <1>2, <1>4
    <3>2. \A x \in Owed' : x \in LegacyItems
      BY DEF Owed, SchemaInv, SchemaTypes
    <3> QED
      BY <1>4, <3>1, <3>2 DEF StepDone
  <2> HIDE DEF next
  <2>2. ChainInv'
    BY <1>1, <1>2, <1>4, <2>1
       DEF SchemaInv, ChainInv, CursorsBehind, read_db_schema_version
  <2> QED
    BY <1>2, <1>4, <2>2, ChainMove DEF SchemaInv, SchemaTypes
<1> QED
  BY <1>3, <1>4

\* The paged backfills: a page beyond the position, its rows, the cursor.
LEMMA BackfillStep ==
  ASSUME SchemaInv,
         StepStarts \/ ReadPage \/ UpdateRow \/ PersistCursor \/ CleanupCursor
  PROVE  SchemaInv'
<1> USE DEF At, Goto
<1>0. /\ task \in Tasks /\ ChainInv /\ cursor \in [Backfills -> Nat] /\ legacy \subseteq LegacyItems
      /\ "calls" \in Backfills /\ "file_meta" \in Backfills /\ "chunk" \in Backfills
  BY DEF SchemaInv, SchemaTypes, Backfills
<1>1. CASE StepStarts
  <2>1. UNCHANGED <<stamped, populated, legacy, cursor, idx, open, rebuild, unrepaired, swallowed>>
    BY <1>1 DEF StepStarts
  <2>2. Owed' = Owed /\ CursorsBehind'
    BY <1>0, <2>1, CursorsStay DEF Owed
  <2>3. PICK next \in Tasks :
          /\ task' = next /\ next.step = task.step
          /\ \/ next.at = "scan" /\ next.what = "calls" /\ next.last = cursor["calls"] /\ next.step = 2
             \/ next.at = "scan" /\ next.what = "chunk" /\ next.last = cursor["chunk"] /\ next.step = 5
             \/ next.at = "act" /\ next.step \notin {2, 5}
    <3>1. CASE task.step = 2
      <4>1. task' = [task EXCEPT !.at = "scan", !.what = "calls", !.last = cursor["calls"]]
        BY <1>1, <3>1 DEF StepStarts, BackfillsFrom
      <4>2. /\ task' \in Tasks /\ task'.at = "scan" /\ task'.what = "calls"
            /\ task'.last = cursor["calls"] /\ task'.step = task.step
        BY <1>0, <4>1 DEF Tasks
      <4> QED
        BY <3>1, <4>2
    <3>2. CASE task.step = 5
      <4>1. task' = [task EXCEPT !.at = "scan", !.what = "chunk", !.last = cursor["chunk"]]
        BY <1>1, <3>2 DEF StepStarts, BackfillsFrom
      <4>2. /\ task' \in Tasks /\ task'.at = "scan" /\ task'.what = "chunk"
            /\ task'.last = cursor["chunk"] /\ task'.step = task.step
        BY <1>0, <4>1 DEF Tasks
      <4> QED
        BY <3>2, <4>2
    <3>3. CASE task.step \notin {2, 5}
      <4>1. task' = [task EXCEPT !.at = "act"]
        BY <1>1, <3>3 DEF StepStarts
      <4> QED
        BY <1>0, <3>3, <4>1 DEF Tasks
    <3> QED
      BY <3>1, <3>2, <3>3
  <2>4. \A b \in Backfills : (DoneUpTo(b, cursor[b], {}))'
    BY <2>2 DEF CursorsBehind
  <2>5. ChainInv'
    BY <1>0, <1>1, <2>1, <2>2, <2>3, <2>4
       DEF StepStarts, ChainInv, CursorsBehind, read_db_schema_version
  <2> QED
    BY <1>0, <1>1, <2>1, <2>3, <2>5, ChainMove DEF StepStarts
<1>2. CASE ReadPage
  <2> DEFINE ids == {r \in Rows : task.last < r /\ r <= task.last + PageSize}
  <2>1. /\ UNCHANGED <<stamped, populated, legacy, cursor, idx, open, rebuild, unrepaired, swallowed>>
        /\ task.at = "scan" /\ task.last \in Nat
    BY <1>0, <1>2 DEF ReadPage, Tasks
  <2>2. Owed' = Owed /\ CursorsBehind'
    BY <1>0, <2>1, CursorsStay DEF Owed
  <2>3. CASE ids = {}
    <3>1. \A r \in Rows : r <= task.last
      <4> SUFFICES ASSUME NEW r \in Rows, r > task.last PROVE FALSE
        BY <2>1, TaskFacts
      <4>1. task.last + 1 \in ids
        BY <2>1, MigrationAssumption DEF Rows
      <4> QED
        BY <2>3, <4>1
    <3>2. /\ task' \in Tasks /\ task'.at = "cleanup" /\ task'.what = task.what
          /\ task'.step = task.step
      BY <1>0, <1>2, <2>3 DEF ReadPage, Tasks
    <3>3. \A r \in Rows : Row(task.what, r) \notin Owed
      BY <1>0, <2>1, <3>1 DEF ChainInv, DoneUpTo
    <3>4. ChainInv'
      BY <1>0, <2>1, <2>2, <3>2, <3>3 DEF ChainInv, CursorsBehind, read_db_schema_version
    <3> QED
      BY <1>0, <2>1, <3>2, <3>4, ChainMove
  <2>4. CASE ids # {}
    <3> DEFINE top == CHOOSE r \in ids : \A s \in ids : s <= r
    <3>1. \E r \in ids : \A s \in ids : s <= r
      <4>1. CASE task.last + PageSize <= NRows
        <5>1. task.last + PageSize \in ids
          BY <2>1, <4>1, MigrationAssumption DEF Rows
        <5> QED
          BY <5>1
      <4>2. CASE ~(task.last + PageSize <= NRows)
        <5>1. NRows \in ids
          BY <2>1, <2>4, <4>2, MigrationAssumption DEF Rows
        <5> QED
          BY <5>1, MigrationAssumption DEF Rows
      <4> QED
        BY <4>1, <4>2
    <3>2. top \in ids /\ \A s \in ids : s <= top
      BY <3>1
    <3>3. /\ task' = [task EXCEPT !.at = "update", !.page = ids, !.last = top]
      BY <1>2, <2>4 DEF ReadPage
    <3>4. \A r \in Rows : r <= top => r <= task.last \/ r \in ids
      <4> SUFFICES ASSUME NEW r \in Rows, r <= top, ~(r <= task.last) PROVE r \in ids
        OBVIOUS
      <4>1. r \in Nat /\ top \in Nat /\ top <= task.last + PageSize
        BY <3>2, TaskFacts
      <4> HIDE DEF top
      <4> QED
        BY <2>1, <4>1, MigrationAssumption
    <3> HIDE DEF top, ids
    <3>5. ids \subseteq Rows /\ top \in Nat
      BY <3>2, TaskFacts DEF ids
    <3>6. /\ task' \in Tasks /\ task'.at = "update" /\ task'.what = task.what
          /\ task'.step = task.step /\ task'.page = ids /\ task'.last = top
      BY <1>0, <3>3, <3>5 DEF Tasks
    <3>7. DoneUpTo(task.what, top, ids)
      BY <1>0, <2>1, <3>4 DEF ChainInv, DoneUpTo
    <3>8. (DoneUpTo(task.what, task.last, task.page))'
      BY <2>2, <3>6, <3>7 DEF DoneUpTo
    <3>9. ChainInv'
      BY <1>0, <2>1, <2>2, <3>6, <3>8 DEF ChainInv, CursorsBehind, read_db_schema_version
    <3> QED
      BY <1>0, <2>1, <3>6, <3>9, ChainMove
  <2> QED
    BY <2>3, <2>4
<1>3. CASE UpdateRow
  <2> DEFINE r == CHOOSE x \in task.page : \A y \in task.page : x <= y
             next == [task EXCEPT !.page = @ \ {r}]
  <2>1. /\ UNCHANGED <<stamped, populated, cursor, idx, open, rebuild, unrepaired>>
        /\ task.at = "update" /\ Statement({Row(task.what, r)}, FALSE, next)
    BY <1>3 DEF UpdateRow
  <2> HIDE DEF r
  <2>2. /\ next \in Tasks /\ next.at = "update" /\ next.what = task.what /\ next.step = task.step
        /\ next.last = task.last /\ next.page = task.page \ {r}
    BY <1>0, <2>1 DEF Tasks
  <2> HIDE DEF next
  <2>3. /\ legacy' \subseteq legacy /\ swallowed \subseteq swallowed' /\ Owed' \subseteq Owed
        /\ \/ task' = next /\ Row(task.what, r) \notin Owed'
           \/ task' = NoTask
    BY <2>1, StatementFacts
  <2>4. CursorsBehind'
    BY <1>0, <2>1, <2>3, CursorsStay
  <2>5. CASE task' = NoTask
    BY <1>0, <2>1, <2>3, <2>4, <2>5, ChainEnds, ChainMove, TaskFacts
  <2>6. CASE task' = next /\ Row(task.what, r) \notin Owed'
    <3>1. DoneUpTo(task.what, task.last, task.page)
      BY <1>0, <2>1 DEF ChainInv
    <3>2. (DoneUpTo(task.what, task.last, task.page))'
      BY <2>2, <2>3, <2>6, <3>1 DEF DoneUpTo
    <3>3. ChainInv'
      BY <1>0, <2>1, <2>2, <2>3, <2>4, <2>6, <3>2
         DEF ChainInv, CursorsBehind, read_db_schema_version
    <3> QED
      BY <1>0, <2>1, <2>2, <2>3, <2>6, <3>3, ChainMove
  <2> QED
    BY <2>3, <2>5, <2>6
<1>4. CASE PersistCursor
  <2>1. /\ UNCHANGED <<stamped, populated, legacy, idx, open, rebuild, unrepaired, swallowed>>
        /\ task.at = "update" /\ task.page = {} /\ task.what \in Backfills /\ task.last \in Nat
        /\ cursor' = [cursor EXCEPT ![task.what] = task.last]
    BY <1>0, <1>4 DEF PersistCursor, ChainInv, Tasks
  <2>2. Owed' = Owed /\ DoneUpTo(task.what, task.last, {})
    BY <1>0, <2>1 DEF Owed, ChainInv
  <2>3. CursorsBehind' /\ cursor' \in [Backfills -> Nat]
    BY <1>0, <2>1, <2>2 DEF ChainInv, CursorsBehind, DoneUpTo
  <2>4. /\ task' \in Tasks /\ task'.at = "scan" /\ task'.what = task.what
        /\ task'.step = task.step /\ task'.last = task.last
    BY <1>0, <1>4 DEF PersistCursor, Tasks
  <2>5. (DoneUpTo(task.what, task.last, {}))'
    BY <2>2, <2>4 DEF DoneUpTo
  <2>6. ChainInv'
    BY <1>0, <2>1, <2>2, <2>3, <2>4, <2>5 DEF ChainInv, CursorsBehind, read_db_schema_version
  <2> QED
    BY <1>0, <2>1, <2>3, <2>4, <2>6, ChainMove
<1>5. CASE CleanupCursor
  <2>1. /\ UNCHANGED <<stamped, populated, legacy, idx, open, rebuild, unrepaired, swallowed>>
        /\ task.at = "cleanup" /\ task.what \in Backfills
        /\ cursor' = cursor \/ cursor' = [cursor EXCEPT ![task.what] = 0]
    BY <1>0, <1>5 DEF CleanupCursor, ChainInv
  <2>2. Owed' = Owed /\ cursor' \in [Backfills -> Nat]
    BY <1>0, <2>1 DEF Owed
  <2>3. CursorsBehind'
    BY <1>0, <2>1, <2>2, TaskFacts DEF ChainInv, CursorsBehind, DoneUpTo
  <2>4. CASE task.what = "calls"
    <3>1. /\ task' \in Tasks /\ task'.at = "scan" /\ task'.what = "file_meta"
          /\ task'.step = task.step /\ task'.last = cursor["file_meta"]
      BY <1>0, <1>5, <2>4 DEF CleanupCursor, BackfillsFrom, Tasks
    <3>2. DoneUpTo("file_meta", cursor["file_meta"], {})
          /\ \A r \in Rows : Row("calls", r) \notin Owed
      BY <1>0, <2>1, <2>4 DEF ChainInv
    <3>3. (DoneUpTo(task.what, task.last, {}))'
      BY <2>2, <3>1, <3>2 DEF DoneUpTo
    <3>4. ChainInv'
      BY <1>0, <2>1, <2>2, <2>3, <2>4, <3>1, <3>2, <3>3
         DEF ChainInv, CursorsBehind, read_db_schema_version
    <3> QED
      BY <1>0, <2>1, <2>2, <3>1, <3>4, ChainMove
  <2>5. CASE task.what # "calls"
    <3>1. /\ task' \in Tasks /\ task'.at = "stamp" /\ task'.step = task.step
      BY <1>0, <1>5, <2>5 DEF CleanupCursor, Tasks
    <3>2. (StepDone(task.step))'
      <4>1. /\ \A r \in Rows : Row(task.what, r) \notin Owed
            /\ task.what = "file_meta" => \A r \in Rows : Row("calls", r) \notin Owed
            /\ task.step = IF task.what = "chunk" THEN 5 ELSE 2
        BY <1>0, <2>1 DEF ChainInv
      <4>2. \A x \in Owed : PromisedBy(x) # task.step
        BY <1>0, <2>1, <2>5, <4>1, PromiseFacts DEF Owed, Backfills
      <4> QED
        BY <2>2, <3>1, <4>2 DEF StepDone
    <3>3. task.step # 8
      BY <1>0, <2>1 DEF ChainInv
    <3>4. ChainInv'
      BY <1>0, <2>1, <2>2, <2>3, <3>1, <3>2, <3>3
         DEF ChainInv, CursorsBehind, read_db_schema_version
    <3> QED
      BY <1>0, <2>1, <2>2, <3>1, <3>4, ChainMove
  <2> QED
    BY <2>4, <2>5
<1> QED
  BY <1>1, <1>2, <1>3, <1>4, <1>5

\* The steps of the chain that are statements or wait for an index.
LEMMA ActStep ==
  ASSUME SchemaInv,
         \/ FlipChunk \/ GatingReadback \/ FlipSymbol \/ DeleteCalls \/ ClearResolved
         \/ ClearEdgeMarkers \/ BuildRawEdgeIndex \/ build_index_concurrently \/ MarkStale
  PROVE  SchemaInv'
<1> USE DEF At, Goto
<1>0. task \in Tasks /\ ChainInv /\ cursor \in [Backfills -> Nat]
  BY DEF SchemaInv, SchemaTypes
<1>1. CASE FlipChunk
  <2>1. \A x \in LegacyItems : PromisedBy(x) = task.step => x \in {Whole("chunk_table")}
    BY <1>1, PromiseFacts DEF FlipChunk
  <2>2. /\ task.at = "act" /\ task.step = 3
        /\ Statement({Whole("chunk_table")}, FALSE, [task EXCEPT !.at = "probe"])
        /\ UNCHANGED <<stamped, populated, cursor, idx, open, rebuild, unrepaired>>
    BY <1>1 DEF FlipChunk
  <2>3. /\ legacy' \subseteq legacy /\ swallowed \subseteq swallowed' /\ Owed' \subseteq Owed
        /\ \/ task' = [task EXCEPT !.at = "probe"] /\ \A x \in {Whole("chunk_table")} : x \notin Owed'
           \/ task' = NoTask
    BY <2>2, StatementFacts
  <2> QED
    BY <2>1, <2>2, <2>3, OneStatement
<1>2. CASE FlipSymbol
  <2>1. \A x \in LegacyItems : PromisedBy(x) = task.step => x \in {Whole("symbol_table")}
    BY <1>2, PromiseFacts DEF FlipSymbol
  <2>2. /\ task.at = "act" /\ task.step = 4
        /\ Statement({Whole("symbol_table")}, TRUE, [task EXCEPT !.at = "stamp"])
        /\ UNCHANGED <<stamped, populated, cursor, idx, open, rebuild, unrepaired>>
    BY <1>2 DEF FlipSymbol
  <2>3. /\ legacy' \subseteq legacy /\ swallowed \subseteq swallowed' /\ Owed' \subseteq Owed
        /\ \/ task' = [task EXCEPT !.at = "stamp"] /\ \A x \in {Whole("symbol_table")} : x \notin Owed'
           \/ task' = NoTask
    BY <2>2, StatementFacts
  <2> QED
    BY <2>1, <2>2, <2>3, OneStatement
<1>3. CASE DeleteCalls
  <2>1. \A x \in LegacyItems : PromisedBy(x) = task.step => x \in {Whole("relations")}
    BY <1>3, PromiseFacts DEF DeleteCalls
  <2>2. /\ task.at = "act" /\ task.step = 6
        /\ Statement({Whole("relations")}, FALSE, [task EXCEPT !.at = "marker"])
        /\ UNCHANGED <<stamped, populated, cursor, idx, open, rebuild, unrepaired>>
    BY <1>3 DEF DeleteCalls
  <2>3. /\ legacy' \subseteq legacy /\ swallowed \subseteq swallowed' /\ Owed' \subseteq Owed
        /\ \/ task' = [task EXCEPT !.at = "marker"] /\ \A x \in {Whole("relations")} : x \notin Owed'
           \/ task' = NoTask
    BY <2>2, StatementFacts
  <2> QED
    BY <2>1, <2>2, <2>3, OneStatement
<1>4. CASE ClearEdgeMarkers
  <2>1. \A x \in LegacyItems : PromisedBy(x) = task.step
            => x \in {Whole("edges_resolved"), Whole("raw_edge_complete")}
    BY <1>4, PromiseFacts DEF ClearEdgeMarkers
  <2>2. /\ task.at = "act" /\ task.step = 7
        /\ Statement({Whole("edges_resolved"), Whole("raw_edge_complete")}, FALSE, [task EXCEPT !.at = "stamp"])
        /\ UNCHANGED <<stamped, populated, cursor, idx, open, rebuild, unrepaired>>
    BY <1>4 DEF ClearEdgeMarkers
  <2>3. /\ legacy' \subseteq legacy /\ swallowed \subseteq swallowed' /\ Owed' \subseteq Owed
        /\ \/ task' = [task EXCEPT !.at = "stamp"] /\ \A x \in {Whole("edges_resolved"), Whole("raw_edge_complete")} : x \notin Owed'
           \/ task' = NoTask
    BY <2>2, StatementFacts
  <2> QED
    BY <2>1, <2>2, <2>3, OneStatement
<1>5. CASE MarkStale
  <2>1. \A x \in LegacyItems : PromisedBy(x) = task.step => x \in {Whole("js_files")}
    BY <1>5, PromiseFacts DEF MarkStale
  <2>2. /\ task.at = "act" /\ task.step = 9
        /\ Statement({Whole("js_files")}, TRUE, [task EXCEPT !.at = "stamp"])
        /\ UNCHANGED <<stamped, populated, cursor, idx, open, rebuild, unrepaired>>
    BY <1>5 DEF MarkStale
  <2>3. /\ legacy' \subseteq legacy /\ swallowed \subseteq swallowed' /\ Owed' \subseteq Owed
        /\ \/ task' = [task EXCEPT !.at = "stamp"] /\ \A x \in {Whole("js_files")} : x \notin Owed'
           \/ task' = NoTask
    BY <2>2, StatementFacts
  <2> QED
    BY <2>1, <2>2, <2>3, OneStatement
<1>6. CASE GatingReadback \/ ClearResolved
  <2>1. /\ UNCHANGED <<stamped, populated, cursor, idx, open, rebuild, unrepaired>>
        /\ legacy' \subseteq legacy /\ swallowed' = swallowed
        /\ task.at \in {"probe", "marker"} /\ task' = [task EXCEPT !.at = "stamp"]
    BY <1>6 DEF GatingReadback, ClearResolved
  <2>2. task' \in Tasks /\ task'.at = "stamp" /\ task'.step = task.step
    BY <1>0, <2>1 DEF Tasks
  <2>3. Owed' \subseteq Owed /\ CursorsBehind'
    <3>1. Owed' \subseteq Owed
      BY <2>1 DEF Owed
    <3> QED
      BY <1>0, <2>1, <3>1, CursorsStay
  <2>4. (StepDone(task.step))'
    BY <1>0, <2>1, <2>2, <2>3 DEF ChainInv, StepDone
  <2>5. task.step # 8
    BY <1>0, <2>1 DEF SchemaInv, ChainInv
  <2>6. ChainInv'
    BY <1>0, <2>1, <2>2, <2>3, <2>4, <2>5 DEF ChainInv, CursorsBehind, read_db_schema_version
  <2> QED
    BY <1>0, <2>1, <2>2, <2>6, ChainMove
<1>7. CASE BuildRawEdgeIndex
  <2>1. /\ UNCHANGED <<stamped, populated, legacy, cursor, open, rebuild, unrepaired, swallowed>>
        /\ task.at = "act" /\ task.step = 8 /\ task' = [task EXCEPT !.at = "poll"]
        /\ idx' = idx \/ idx' = [idx EXCEPT !["raw_edge"] = "building"]
    BY <1>7 DEF BuildRawEdgeIndex
  <2>2. task' \in Tasks /\ task'.at = "poll" /\ task'.step = 8
    BY <1>0, <2>1 DEF Tasks
  <2>3. Owed' = Owed /\ CursorsBehind'
    BY <1>0, <2>1, CursorsStay DEF Owed
  <2>4. ChainInv'
    BY <1>0, <2>1, <2>2, <2>3 DEF ChainInv, CursorsBehind, read_db_schema_version
  <2>5. populated /\ rebuild = "none" /\ stamped = 7
    <3>1. populated
      BY <2>1, TaskFacts DEF SchemaInv, EmptyInv
    <3>2. rebuild = "none" /\ read_db_schema_version = 7
      BY <1>0, <2>1 DEF ChainInv, read_db_schema_version, SchemaInv, SchemaTypes
    <3> QED
      BY <3>1, <3>2 DEF read_db_schema_version
  <2>6. /\ idx' \in [Indexes -> {"absent", "building", "ready", "error"}]
        /\ \A i \in Indexes : i # "raw_edge" => idx'[i] = idx[i]
    BY <2>1 DEF SchemaInv, SchemaTypes
  <2> QED
    BY <2>1, <2>2, <2>4, <2>5, <2>6 DEF SchemaInv, SchemaTypes, EmptyInv, RebuiltInv,
       StampedMeansConverted, IndexesReadyWhenOpen
<1>8. CASE build_index_concurrently
  <2>1. /\ UNCHANGED <<stamped, populated, legacy, cursor, idx, open, rebuild, unrepaired, swallowed>>
        /\ task.at = "poll" /\ idx["raw_edge"] = "ready" /\ task' = [task EXCEPT !.at = "stamp"]
    BY <1>8 DEF build_index_concurrently
  <2>2. task' \in Tasks /\ task'.at = "stamp" /\ task'.step = task.step /\ task.step = 8
    BY <1>0, <2>1 DEF Tasks, ChainInv
  <2>3. Owed' = Owed /\ CursorsBehind'
    BY <1>0, <2>1, CursorsStay DEF Owed
  <2>4. (StepDone(task.step))'
    <3>1. \A x \in Owed : PromisedBy(x) # 8
      BY PromiseFacts DEF Owed, SchemaInv, SchemaTypes
    <3> QED
      BY <2>2, <2>3, <3>1 DEF StepDone
  <2>5. ChainInv'
    BY <1>0, <2>1, <2>2, <2>3, <2>4 DEF ChainInv, CursorsBehind, read_db_schema_version
  <2> QED
    BY <1>0, <2>1, <2>2, <2>5, ChainMove
<1> QED
  BY <1>1, <1>2, <1>3, <1>4, <1>5, <1>6, <1>7, <1>8

\* Steps that leave the chain alone where it is, or where there is none.
LEMMA ChainFrame ==
  ASSUME ChainInv, cursor' = cursor, Owed' \subseteq Owed, task' = task,
         task.at # "none" =>
            UNCHANGED <<stamped, open, rebuild>> /\ idx'["raw_edge"] = idx["raw_edge"]
  PROVE  ChainInv'
<1>1. CursorsBehind'
  BY CursorsStay
<1> QED
  BY <1>1 DEF ChainInv, CursorsBehind, DoneUpTo, StepDone, read_db_schema_version

\* Opening: the repair of the indexes, the first stamp, the start of the chain.
LEMMA OpenStep ==
  ASSUME SchemaInv,
         OpenStarts \/ OpenEnds \/ \E i \in Indexes : ensure_secondary_indexes(i)
  PROVE  SchemaInv'
<1> USE DEF SchemaInv, SchemaTypes
<1>0. "raw_edge" \in Indexes
  BY DEF Indexes
<1>1. CASE OpenStarts
  <2>1. Owed' \subseteq Owed /\ legacy' \subseteq legacy /\ task.at = "none"
    BY <1>1 DEF OpenStarts, Owed, ChainInv
  <2>2. ChainInv'
    BY <1>1, <2>1, ChainFrame DEF OpenStarts
  <2> QED
    BY <1>1, <2>1, <2>2 DEF OpenStarts, EmptyInv, RebuiltInv, StampedMeansConverted,
       IndexesReadyWhenOpen
<1>2. CASE \E i \in Indexes : ensure_secondary_indexes(i)
  <2>1. PICK i \in Indexes : ensure_secondary_indexes(i)
    BY <1>2
  <2>2. task.at = "none" /\ rebuild = "none" /\ open = "indexes"
    BY <2>1 DEF ensure_secondary_indexes, ChainInv, EmptyInv
  <2>3. /\ idx' \in [Indexes -> {"absent", "building", "ready", "error"}]
        /\ ~populated => \A j \in Indexes : idx'[j] \in {"absent", "ready"}
    BY <2>1 DEF ensure_secondary_indexes, EmptyInv
  <2>4. ChainInv'
    BY <2>1, <2>2, ChainFrame DEF ensure_secondary_indexes, Owed
  <2> QED
    BY <2>1, <2>2, <2>3, <2>4 DEF ensure_secondary_indexes, EmptyInv, RebuiltInv,
       StampedMeansConverted, IndexesReadyWhenOpen
<1>3. CASE OpenEnds
  <2>1. /\ UNCHANGED <<populated, legacy, cursor, idx, rebuild, swallowed>>
        /\ open = "indexes" /\ open' = "open" /\ unrepaired' = FALSE
        /\ task.at = "none" /\ rebuild = "none"
    BY <1>3 DEF OpenEnds, ChainInv, EmptyInv
  <2>2. /\ stamped' = IF populated \/ stamped # 0 THEN stamped ELSE DB_SCHEMA_VERSION
        /\ stamped' \in 0 .. DB_SCHEMA_VERSION
    BY <1>3 DEF OpenEnds, DB_SCHEMA_VERSION
  <2>3. Owed' = Owed /\ CursorsBehind'
    BY <2>1, CursorsStay DEF Owed
  <2>4. /\ task' \in Tasks /\ ChainInv'
        /\ ~populated => task' = NoTask
    <3>1. CASE stamped' < DB_SCHEMA_VERSION
      <4>1. stamped' = stamped /\ populated
        BY <2>2, <3>1 DEF EmptyInv, DB_SCHEMA_VERSION
      <4>2. /\ read_db_schema_version + 1 \in 2 .. DB_SCHEMA_VERSION
            /\ task' = [NoTask EXCEPT !.at = "start", !.step = read_db_schema_version + 1]
        BY <1>3, <3>1, <4>1 DEF OpenEnds, read_db_schema_version, DB_SCHEMA_VERSION
      <4>3. /\ task' \in Tasks /\ task'.at = "start" /\ task'.step = read_db_schema_version + 1
        <5>1. read_db_schema_version + 1 \in 0 .. DB_SCHEMA_VERSION
          BY <4>2 DEF DB_SCHEMA_VERSION
        <5> QED
          BY <4>2, <5>1, StepBegins
      <4>4. ChainInv'
        BY <2>1, <2>3, <4>1, <4>2, <4>3 DEF ChainInv, CursorsBehind, read_db_schema_version
      <4> QED
        BY <4>1, <4>3, <4>4
    <3>2. CASE ~(stamped' < DB_SCHEMA_VERSION)
      <4>1. task' = NoTask
        BY <1>3, <3>2 DEF OpenEnds
      <4> QED
        BY <2>3, <4>1, ChainEnds, TaskFacts
    <3> QED
      BY <3>1, <3>2
  <2>5. StampedMeansConverted'
    BY <2>1, <2>2 DEF StampedMeansConverted, EmptyInv
  <2>6. IndexesReadyWhenOpen'
    <3>1. \A i \in Indexes : Repairs(i) => idx[i] = "ready"
      BY <1>3 DEF OpenEnds, index_status_is_trustworthy
    <3>2. \A i \in Indexes : i # "raw_edge" => idx[i] = "ready"
      BY <3>1 DEF Repairs
    <3>3. stamped' >= 8 => idx["raw_edge"] = "ready"
      <4>1. CASE stamped >= 8
        BY <1>0, <3>1, <4>1 DEF Repairs, read_db_schema_version, DB_SCHEMA_VERSION
      <4>2. CASE stamped' >= 8 /\ ~(stamped >= 8)
        BY <1>0, <2>2, <3>1, <4>2 DEF Repairs, EmptyInv, DB_SCHEMA_VERSION
      <4> QED
        BY <4>1, <4>2
    <3> QED
      BY <2>1, <3>2, <3>3 DEF IndexesReadyWhenOpen
  <2>7. EmptyInv' /\ RebuiltInv'
    BY <2>1, <2>2, <2>4 DEF EmptyInv, RebuiltInv
  <2> QED
    BY <2>1, <2>2, <2>4, <2>5, <2>6, <2>7
<1> QED
  BY <1>1, <1>2, <1>3

\* The version is stamped when its step owes nothing.
LEMMA StampStep ==
  ASSUME SchemaInv, Stamp
  PROVE  SchemaInv'
<1> USE DEF SchemaInv, SchemaTypes
<1>1. /\ UNCHANGED <<populated, legacy, cursor, idx, open, rebuild, unrepaired, swallowed>>
      /\ task.at = "stamp" /\ stamped' = task.step
  BY DEF Stamp, At
<1>2. /\ task.step \in 2 .. 9 /\ StepDone(task.step)
      /\ stamped = task.step - 1 \/ (stamped = 0 /\ task.step = 2)
  BY <1>1 DEF ChainInv, read_db_schema_version, DB_SCHEMA_VERSION
<1>3. Owed' = Owed /\ CursorsBehind'
  BY <1>1, CursorsStay DEF Owed
<1>4. task' \in Tasks /\ ChainInv'
  <2>1. CASE task.step = 9
    <3>1. task' = NoTask
      BY <2>1 DEF Stamp, DB_SCHEMA_VERSION
    <3> QED
      BY <1>3, <3>1, ChainEnds, TaskFacts
  <2>2. CASE task.step # 9
    <3>1. task' = [NoTask EXCEPT !.at = "start", !.step = task.step + 1]
          /\ task.step + 1 \in 2 .. DB_SCHEMA_VERSION
      BY <1>2, <2>2 DEF Stamp, DB_SCHEMA_VERSION
    <3>2. task' \in Tasks /\ task'.at = "start" /\ task'.step = task.step + 1
      <4>1. task.step + 1 \in 0 .. DB_SCHEMA_VERSION
        BY <3>1 DEF DB_SCHEMA_VERSION
      <4> QED
        BY <3>1, <4>1, StepBegins
    <3>3. read_db_schema_version' = task.step
      BY <1>1, <1>2 DEF read_db_schema_version
    <3>4. open = "open" /\ rebuild = "none"
      BY <1>1 DEF ChainInv
    <3>5. ChainInv'
      BY <1>1, <1>3, <3>1, <3>2, <3>3, <3>4 DEF ChainInv, CursorsBehind, read_db_schema_version
    <3> QED
      BY <3>2, <3>5
  <2> QED
    BY <2>1, <2>2
<1>5. StampedMeansConverted'
  <2> SUFFICES ASSUME NEW x \in Owed PROVE PromisedBy(x) > task.step
    BY <1>1, <1>3 DEF StampedMeansConverted, Owed
  <2>1. PromisedBy(x) \in {2, 3, 4, 5, 6, 7, 9}
    BY PromiseFacts DEF Owed
  <2>2. PromisedBy(x) > stamped /\ PromisedBy(x) # task.step
    BY <1>2 DEF StampedMeansConverted, Owed, StepDone
  <2> QED
    BY <1>2, <2>1, <2>2
<1>6. IndexesReadyWhenOpen'
  <2>1. open = "open" /\ rebuild = "none" /\ ~unrepaired /\ task.step >= 8
        => idx["raw_edge"] = "ready"
    BY <1>1, <1>2 DEF ChainInv, IndexesReadyWhenOpen, Indexes
  <2> QED
    BY <1>1, <1>2, <2>1 DEF IndexesReadyWhenOpen
<1>7. populated
  BY <1>1, TaskFacts DEF EmptyInv
<1> QED
  BY <1>1, <1>2, <1>4, <1>5, <1>6, <1>7 DEF EmptyInv, RebuiltInv, DB_SCHEMA_VERSION

\* A full rebuild, the database's own work on the indexes, and deaths.
LEMMA RebuildStep ==
  ASSUME SchemaInv,
         \/ RebuildWrites
         \/ RebuildBuilds("written", "symbol", "symbols")
         \/ RebuildBuilds("symbols", "raw_edge", "raw_edges")
         \/ PhaseTwoDrops
         \/ RebuildBuilds("calls", "calls", "done")
         \/ RebuildEnds \/ RebuildStops \/ Close
         \/ \E i \in Indexes : IndexBuilt(i)
  PROVE  SchemaInv'
<1> USE DEF SchemaInv, SchemaTypes
<1>0. /\ Indexes = {"symbol", "calls", "raw_edge"}
      /\ rebuild # "none" => task.at = "none" /\ open = "open" /\ populated
  BY DEF Indexes, ChainInv, EmptyInv
<1>1. CASE RebuildWrites
  <2>1. Owed' \subseteq Owed /\ legacy' \subseteq legacy /\ task.at = "none"
    BY <1>1 DEF RebuildWrites, At, Owed
  <2>2. ChainInv'
    BY <1>1, <2>1, ChainFrame DEF RebuildWrites
  <2>3. idx' \in [Indexes -> {"absent", "building", "ready", "error"}]
        /\ idx'["calls"] = idx["calls"]
    BY <1>0, <1>1 DEF RebuildWrites
  <2>4. ~unrepaired => idx["calls"] = "ready"
    BY <1>0, <1>1 DEF RebuildWrites, IndexesReadyWhenOpen
  <2> QED
    BY <1>1, <2>1, <2>2, <2>3, <2>4 DEF RebuildWrites, EmptyInv, RebuiltInv,
       StampedMeansConverted, IndexesReadyWhenOpen
<1>2. ASSUME NEW from \in {"written", "symbols", "calls"}, NEW i \in Indexes, NEW to,
             RebuildBuilds(from, i, to),
             \/ from = "written" /\ i = "symbol" /\ to = "symbols"
             \/ from = "symbols" /\ i = "raw_edge" /\ to = "raw_edges"
             \/ from = "calls" /\ i = "calls" /\ to = "done"
      PROVE  SchemaInv'
  <2>1. /\ UNCHANGED <<stamped, populated, legacy, cursor, open, task, unrepaired, swallowed>>
        /\ rebuild = from /\ task.at = "none"
        /\ \/ idx[i] = "absent" /\ idx' = [idx EXCEPT ![i] = "building"] /\ rebuild' = from
           \/ idx[i] = "ready" /\ rebuild' = to /\ idx' = idx
    BY <1>0, <1>2 DEF RebuildBuilds
  <2>2. ChainInv'
    BY <2>1, ChainFrame DEF Owed
  <2>3. /\ idx' \in [Indexes -> {"absent", "building", "ready", "error"}]
        /\ \A j \in Indexes : idx[j] = "ready" => idx'[j] = "ready"
    BY <2>1
  <2>4. RebuiltInv'
    BY <1>0, <1>2, <2>1, <2>3 DEF RebuiltInv
  <2> QED
    BY <1>0, <1>2, <2>1, <2>2, <2>3, <2>4
       DEF EmptyInv, StampedMeansConverted, IndexesReadyWhenOpen
<1>3. CASE PhaseTwoDrops
  <2>1. ChainInv'
    BY <1>0, <1>3, ChainFrame DEF PhaseTwoDrops, Owed
  <2>2. /\ idx' \in [Indexes -> {"absent", "building", "ready", "error"}]
        /\ idx'["symbol"] = idx["symbol"] /\ idx'["raw_edge"] = idx["raw_edge"]
    BY <1>0, <1>3 DEF PhaseTwoDrops
  <2> QED
    BY <1>0, <1>3, <2>1, <2>2 DEF PhaseTwoDrops, EmptyInv, RebuiltInv,
       StampedMeansConverted, IndexesReadyWhenOpen
<1>4. CASE RebuildEnds \/ RebuildStops
  <2>1. ChainInv'
    BY <1>0, <1>4, ChainFrame DEF RebuildEnds, RebuildStops, Owed
  <2> QED
    BY <1>0, <1>4, <2>1 DEF RebuildEnds, RebuildStops, EmptyInv, RebuiltInv,
       StampedMeansConverted, IndexesReadyWhenOpen
<1>5. CASE Close
  <2>1. Owed' = Owed /\ CursorsBehind' /\ task' = NoTask
    BY <1>5, CursorsStay DEF Close, Owed
  <2>2. ChainInv'
    BY <2>1, ChainEnds
  <2>3. /\ idx' \in [Indexes -> {"absent", "building", "ready", "error"}]
        /\ \A i \in Indexes : idx[i] \in {"absent", "ready"} => idx'[i] = idx[i]
    BY <1>5 DEF Close
  <2> QED
    BY <1>5, <2>1, <2>2, <2>3, TaskFacts DEF Close, EmptyInv, RebuiltInv,
       StampedMeansConverted, IndexesReadyWhenOpen
<1>6. CASE \E i \in Indexes : IndexBuilt(i)
  <2>1. PICK i \in Indexes : IndexBuilt(i)
    BY <1>6
  <2>2. /\ UNCHANGED <<stamped, populated, legacy, cursor, swallowed>> /\ idx[i] = "building"
        /\ open # "closed" /\ populated
        /\ \A j \in Indexes \ {i} : idx'[j] = idx[j]
        /\ idx' \in [Indexes -> {"absent", "building", "ready", "error"}]
    BY <2>1 DEF IndexBuilt, EmptyInv
  <2>3. Owed' = Owed /\ CursorsBehind'
    BY <2>2, CursorsStay DEF Owed
  <2>4. CASE idx'[i] = "ready" /\ UNCHANGED <<open, task, rebuild, unrepaired>>
    <3>1. task.at = "stamp" /\ task.step = 8 => idx'["raw_edge"] = "ready"
      BY <2>2, <2>4 DEF ChainInv, Indexes
    <3>2. ChainInv'
      BY <2>2, <2>3, <2>4, <3>1
         DEF ChainInv, CursorsBehind, DoneUpTo, StepDone, read_db_schema_version
    <3> QED
      BY <1>0, <2>2, <2>4, <3>2
         DEF EmptyInv, RebuiltInv, StampedMeansConverted, IndexesReadyWhenOpen
  <2>5. CASE /\ idx'[i] = "error" /\ rebuild' = "none"
             /\ open' = IF open = "indexes" THEN "closed" ELSE open
             /\ task' = IF task.at = "poll" THEN NoTask ELSE task
             /\ unrepaired' = (unrepaired \/ rebuild # "none")
    <3>1. ChainInv'
      <4>1. CASE task.at = "poll" \/ task.at = "none"
        <5>1. task' = NoTask \/ (task' = task /\ task.at = "none")
          BY <2>5, <4>1
        <5> QED
          BY <2>3, <5>1, ChainEnds DEF ChainInv, CursorsBehind
      <4>2. CASE task.at \notin {"poll", "none"}
        <5>1. task' = task /\ open' = open /\ rebuild' = rebuild
          BY <2>5, <4>2 DEF ChainInv
        <5>2. task.at = "stamp" /\ task.step = 8 => idx'["raw_edge"] = "ready"
          BY <2>2 DEF ChainInv, Indexes
        <5> QED
          BY <2>2, <2>3, <5>1, <5>2
             DEF ChainInv, CursorsBehind, DoneUpTo, StepDone, read_db_schema_version
      <4> QED
        BY <4>1, <4>2
    <3>2. IndexesReadyWhenOpen'
      BY <2>2, <2>5 DEF IndexesReadyWhenOpen
    <3> QED
      BY <2>2, <2>5, <3>1, <3>2, TaskFacts DEF EmptyInv, RebuiltInv, StampedMeansConverted
  <2> QED
    BY <2>1, <2>2, <2>4, <2>5 DEF IndexBuilt
<1> QED
  BY <1>1, <1>2, <1>3, <1>4, <1>5, <1>6 DEF Indexes

\* Whatever death or failure interrupts the chain of migrations, and however
\* often it is resumed from a cursor, an open database is what its version says,
\* for any number of rows and any size of page (maybe_spawn_migration,
\* ensure_secondary_indexes, the backfills).
THEOREM OpenIsMigrated == MSpec => []OpenMeansMigrated
<1>1. MInit => SchemaInv
  <2> SUFFICES ASSUME MInit PROVE SchemaInv
    OBVIOUS
  <2> USE DEF MInit
  <2>1. SchemaTypes
    BY TaskFacts DEF SchemaTypes
  <2>2. ChainInv
    BY TaskFacts DEF ChainInv, DoneUpTo
  <2>3. StampedMeansConverted
    <3> SUFFICES ASSUME NEW x \in legacy PROVE PromisedBy(x) > stamped
      BY DEF StampedMeansConverted
    <3>1. x \in LegacyItems /\ PromisedBy(x) > read_db_schema_version
      OBVIOUS
    <3>2. PromisedBy(x) \in Nat
      BY <3>1, PromiseFacts
    <3> QED
      BY <3>1, <3>2 DEF read_db_schema_version, DB_SCHEMA_VERSION
  <2> QED
    BY <2>1, <2>2, <2>3 DEF SchemaInv, EmptyInv, RebuiltInv, IndexesReadyWhenOpen
<1>2. SchemaInv /\ [MNext]_mvars => SchemaInv'
  <2> SUFFICES ASSUME SchemaInv, [MNext]_mvars PROVE SchemaInv'
    OBVIOUS
  <2>1. CASE MNext
    BY <2>1, OpenStep, BackfillStep, ActStep, StampStep, RebuildStep DEF MNext
  <2>2. CASE UNCHANGED mvars
    <3>1. ChainInv'
      BY <2>2, ChainFrame DEF SchemaInv, mvars, Owed
    <3> QED
      BY <2>2, <3>1 DEF mvars, SchemaInv, SchemaTypes, EmptyInv, RebuiltInv,
         StampedMeansConverted, IndexesReadyWhenOpen
  <2> QED
    BY <2>1, <2>2
<1>3. SchemaInv => OpenMeansMigrated
  BY DEF SchemaInv, OpenMeansMigrated
<1> QED
  BY <1>1, <1>2, <1>3, PTL DEF MSpec

-----------------------------------------------------------------------------
(* MCP sessions                                                            *)

CallPlaces == {"none", "route", "insert", "serve", "store", "load", "404", "forget", "unlink"}
Operations == {"initialize", "use", "delete"}
Calls == [pc : CallPlaces, op : Operations \cup {""}, id : Sessions \cup {""}, svc : Nat]

\* A session a client knows is on disk or known to be gone; a request that
\* reaches the store to restore a session is for one a client knows.
SessionInv ==
    /\ call \in [Clients -> Calls] /\ service \in Nat /\ built_svc \in Nat
    /\ issued \subseteq stored \cup gone
    /\ \A c \in Clients :
          /\ call[c].pc # "none" => call[c].op \in Operations
          /\ call[c].pc = "load" => call[c].op = "use"
          /\ call[c].pc # "none" /\ call[c].op = "use" => call[c].id \in issued
          /\ call[c].pc = "unlink" => call[c].id \in gone
          /\ call[c].pc = "404" => call[c].id \in gone \/ c \in unread

\* A client's request moves on.
LEMMA MovesFacts ==
  ASSUME call \in [Clients -> Calls], NEW c \in Clients, NEW e \in Calls, Moves(c, e)
  PROVE  /\ call' \in [Clients -> Calls] /\ call'[c] = e
         /\ \A d \in Clients \ {c} : call'[d] = call[d]
BY DEF Moves

LEMMA SessionsMove ==
  ASSUME SessionInv, NEW c \in Clients, NEW e \in Calls, Moves(c, e),
         service' \in Nat, built_svc' \in Nat,
         issued \subseteq issued', gone \subseteq gone', issued' \subseteq stored' \cup gone',
         e.pc # "none" => e.op \in Operations,
         e.pc = "load" => e.op = "use",
         e.pc # "none" /\ e.op = "use" => e.id \in issued',
         \A d \in Clients \ {c} : d \in unread => d \in unread',
         e.pc = "unlink" => e.id \in gone',
         e.pc = "404" => e.id \in gone' \/ c \in unread'
  PROVE  SessionInv'
<1>1. /\ call' \in [Clients -> Calls] /\ call'[c] = e
      /\ \A d \in Clients \ {c} : call'[d] = call[d]
  BY MovesFacts DEF SessionInv
<1> QED
  BY <1>1 DEF SessionInv

LEMMA SessionStep == SessionInv /\ [KNext]_kvars => SessionInv'
<1> SUFFICES ASSUME SessionInv, [KNext]_kvars PROVE SessionInv'
  OBVIOUS
<1>0. NoCall \in Calls /\ NoCall.pc = "none"
  BY DEF NoCall, Calls, CallPlaces, Operations
<1>1. ASSUME NEW c \in Clients, Arrive(c)
      PROVE  SessionInv'
  <2>1. PICK s \in Sessions, op \in Operations :
          /\ (op = "initialize") = (s \notin issued)
          /\ Moves(c, [pc |-> "route", op |-> op, id |-> s, svc |-> 0])
    BY <1>1 DEF Arrive, Operations
  <2>2. [pc |-> "route", op |-> op, id |-> s, svc |-> 0] \in Calls
    BY DEF Calls, CallPlaces
  <2> QED
    BY <1>1, <2>1, <2>2, SessionsMove DEF Arrive, SessionInv
<1>2. ASSUME NEW c \in Clients, handle_repo_mcp(c)
      PROVE  SessionInv'
  <2>1. PICK pc \in {"serve", "insert"}, v \in Nat :
          Moves(c, [call[c] EXCEPT !.pc = pc, !.svc = v]) /\ built_svc' \in Nat
    <3>1. service \in Nat /\ built_svc \in Nat /\ built_svc + 1 \in Nat
      BY DEF SessionInv
    <3>2. CASE service # 0
      BY <1>2, <3>1, <3>2 DEF handle_repo_mcp
    <3>3. CASE service = 0
      BY <1>2, <3>1, <3>3 DEF handle_repo_mcp
    <3> QED
      BY <3>2, <3>3
  <2> DEFINE e == [call[c] EXCEPT !.pc = pc, !.svc = v]
  <2>2. e \in Calls /\ e.pc = pc /\ e.op = call[c].op /\ e.id = call[c].id
    BY DEF SessionInv, Calls, CallPlaces
  <2>4. Moves(c, e)
    BY <2>1
  <2> HIDE DEF e
  <2>3. /\ call[c].pc = "route" /\ UNCHANGED <<stored, service, issued, gone, unread>>
    BY <1>2 DEF handle_repo_mcp, AtStep
  <2> QED
    BY <2>1, <2>2, <2>3, <2>4, SessionsMove DEF SessionInv
<1>3. ASSUME NEW c \in Clients, InsertService(c)
      PROVE  SessionInv'
  <2> DEFINE e == [call[c] EXCEPT !.pc = "serve"]
  <2>1. /\ e \in Calls /\ e.pc = "serve" /\ e.op = call[c].op /\ e.id = call[c].id
        /\ call[c].svc \in Nat
    BY DEF SessionInv, Calls, CallPlaces
  <2>2. Moves(c, e) /\ call[c].pc = "insert" /\ service' = call[c].svc
        /\ UNCHANGED <<stored, built_svc, issued, gone, unread>>
    BY <1>3 DEF InsertService, AtStep
  <2> HIDE DEF e
  <2> QED
    BY <2>1, <2>2, SessionsMove DEF SessionInv
<1>4. ASSUME NEW c \in Clients, Serve(c)
      PROVE  SessionInv'
  <2>1. call[c].pc = "serve" /\ call[c].op \in Operations
        /\ UNCHANGED <<stored, service, built_svc, issued, gone, unread>>
    BY <1>4 DEF Serve, AtStep, SessionInv
  <2>2. PICK e : /\ Moves(c, e)
                 /\ \/ e = NoCall
                    \/ e = [call[c] EXCEPT !.pc = "store"] /\ call[c].op = "initialize"
                    \/ e = [call[c] EXCEPT !.pc = "forget"] /\ call[c].op = "delete"
                    \/ e = [call[c] EXCEPT !.pc = "load"] /\ call[c].op = "use"
    BY <1>4, <2>1 DEF Serve, Operations, Answer
  <2>3. /\ e \in Calls
        /\ e.pc # "none" => e.op = call[c].op /\ e.id = call[c].id
        /\ e.pc = "load" => e.op = "use"
        /\ e.pc \notin {"unlink", "404"}
    BY ZenonT(60), <1>0, <2>2 DEF SessionInv, Calls, CallPlaces
  <2> QED
    BY <2>1, <2>2, <2>3, SessionsMove DEF SessionInv
<1>5. ASSUME NEW c \in Clients, store(c)
      PROVE  SessionInv'
  <2>1. /\ Moves(c, NoCall) /\ UNCHANGED <<service, built_svc, unread>>
        /\ issued' = issued \cup {call[c].id}
    BY <1>5 DEF store, Answer
  <2> DEFINE V == Range(IF Contains(kept, call[c].id) THEN <<>> ELSE evict_to_cap)
  <2>2. PICK written \in BOOLEAN :
          /\ stored' = (IF written THEN stored \cup {call[c].id} ELSE stored) \ V
          /\ gone' = gone \cup V \cup (IF written THEN {} ELSE {call[c].id})
    BY <1>5 DEF store
  <2> HIDE DEF V
  <2>3. issued' \subseteq stored' \cup gone' /\ gone \subseteq gone'
    BY <2>1, <2>2 DEF SessionInv
  <2> QED
    BY <1>0, <2>1, <2>3, SessionsMove DEF SessionInv
<1>6. ASSUME NEW c \in Clients, load(c)
      PROVE  SessionInv'
  <2>1. call[c].id \in issued /\ UNCHANGED <<service, built_svc, issued>>
    BY <1>6 DEF load, AtStep, SessionInv
  <2>2. CASE Moves(c, NoCall) /\ stored' = stored /\ gone' = gone /\ unread' = unread
    BY <1>0, <2>1, <2>2, SessionsMove DEF SessionInv
  <2>3. CASE /\ Moves(c, NoCall) /\ stored' = stored \ Range(evict_to_cap)
             /\ gone' = gone \cup Range(evict_to_cap) /\ unread' = unread
    <3>1. issued' \subseteq stored' \cup gone' /\ gone \subseteq gone'
      BY <2>1, <2>3 DEF SessionInv
    <3> QED
      BY <1>0, <2>1, <2>3, <3>1, SessionsMove DEF SessionInv
  <2>4. CASE /\ Moves(c, [call[c] EXCEPT !.pc = "404"]) /\ stored' = stored /\ gone' = gone
             /\ \/ call[c].id \notin stored /\ unread' = unread
                \/ unread' = unread \cup {c}
    <3> DEFINE e == [call[c] EXCEPT !.pc = "404"]
    <3>1. e \in Calls /\ e.pc = "404" /\ e.op = call[c].op /\ e.id = call[c].id
      BY DEF SessionInv, Calls, CallPlaces
    <3>2. (call[c].id \in gone \/ c \in unread') /\ unread \subseteq unread'
          /\ call[c].pc = "load" /\ Moves(c, e)
      BY <1>6, <2>1, <2>4 DEF SessionInv, load, AtStep
    <3> HIDE DEF e
    <3>3. e.op \in Operations
      BY <3>1, <3>2 DEF SessionInv
    <3> QED
      BY <2>1, <2>4, <3>1, <3>2, <3>3, SessionsMove DEF SessionInv
  <2>5. CASE Contains(kept, call[c].id)
    BY <1>6, <2>2, <2>5 DEF load, Answer
  <2>6. CASE ~Contains(kept, call[c].id)
    <3>1. PICK readable \in BOOLEAN :
            CASE load_from_disk(call[c].id, readable) ->
                   /\ stored' = stored \ Range(evict_to_cap)
                   /\ gone' = gone \cup Range(evict_to_cap) /\ Answer(c) /\ UNCHANGED unread
              [] OTHER ->
                   /\ Moves(c, [call[c] EXCEPT !.pc = "404"])
                   /\ unread' = IF call[c].id \in stored /\ ~readable THEN unread \cup {c} ELSE unread
                   /\ UNCHANGED <<kept, stored, live, gone>>
      BY <1>6, <2>6 DEF load
    <3>2. CASE load_from_disk(call[c].id, readable)
      BY <2>3, <3>1, <3>2 DEF Answer
    <3>3. CASE ~load_from_disk(call[c].id, readable)
      BY <2>4, <3>1, <3>3 DEF load_from_disk
    <3> QED
      BY <3>2, <3>3
  <2> QED
    BY <2>5, <2>6
<1>7. ASSUME NEW c \in Clients, NotFound(c)
      PROVE  SessionInv'
  BY <1>0, <1>7, SessionsMove DEF NotFound, Answer, SessionInv
<1>8. ASSUME NEW c \in Clients, delete(c)
      PROVE  SessionInv'
  <2> DEFINE e == [call[c] EXCEPT !.pc = "unlink"]
  <2>1. e \in Calls /\ e.pc = "unlink" /\ e.op = call[c].op /\ e.id = call[c].id
    BY DEF SessionInv, Calls, CallPlaces
  <2>2. Moves(c, e) /\ call[c].pc = "forget" /\ gone' = gone \cup {call[c].id}
        /\ UNCHANGED <<stored, service, built_svc, issued, unread>>
    BY <1>8 DEF delete, AtStep
  <2> HIDE DEF e
  <2> QED
    BY <2>1, <2>2, SessionsMove DEF SessionInv
<1>9. ASSUME NEW c \in Clients, delete_from_disk(c)
      PROVE  SessionInv'
  BY <1>0, <1>9, SessionsMove DEF delete_from_disk, AtStep, Answer, SessionInv
<1>10. CASE (\E x \in live : IdleTimeout(x)) \/ UNCHANGED kvars
  BY <1>10 DEF IdleTimeout, kvars, SessionInv
<1>11. CASE RestartProcess
  <2>1. \A c \in Clients : call'[c] = NoCall
    BY <1>11 DEF RestartProcess
  <2> QED
    BY <1>0, <1>11, <2>1 DEF RestartProcess, SessionInv
<1> QED
  BY <1>1, <1>2, <1>3, <1>4, <1>5, <1>6, <1>7, <1>8, <1>9, <1>10, <1>11 DEF KNext

\* "Session not found" is answered only for a session that was deleted, evicted
\* or could not be written, or whose file this very load could not read or make out,
\* for any number of sessions, clients, services and restarts and any capacity of
\* the store (mcp_session_store.rs).
THEOREM SessionsSurvive == KSpec => []SessionSurvives
<1>1. KInit => SessionInv
  <2>1. NoCall \in Calls /\ NoCall.pc = "none"
    BY DEF NoCall, Calls, CallPlaces, Operations
  <2> QED
    BY <2>1 DEF KInit, SessionInv
<1>2. SessionInv => SessionSurvives
  BY DEF SessionInv, SessionSurvives, AtStep
<1> QED
  BY <1>1, <1>2, SessionStep, PTL DEF KSpec

-----------------------------------------------------------------------------
(* Embedding: positions in their order                                     *)

\* A finite set of positions has an ascending sequence, which passes all of them.
LEMMA AscendingIs ==
    ASSUME NEW S \in SUBSET Nat, IsFiniteSet(S)
    PROVE  /\ Cardinality(S) \in Nat
           /\ Ascending(S) \in [1 .. Cardinality(S) -> S]
           /\ \A i, j \in 1 .. Cardinality(S) : i < j => Ascending(S)[i] < Ascending(S)[j]
           /\ \A x \in S : \E i \in 1 .. Cardinality(S) : Ascending(S)[i] = x
<1> DEFINE n == Cardinality(S)
           below(x) == {y \in S : y < x}
           rank == [x \in S |-> Cardinality(below(x)) + 1]
           s == [k \in 1 .. n |-> CHOOSE x \in S : rank[x] = k]
<1>1. n \in Nat /\ IsFiniteSet(1 .. n) /\ Cardinality(1 .. n) = n
  BY FS_CardinalityType, FS_Interval
<1>2. ASSUME NEW x \in S
      PROVE  IsFiniteSet(below(x)) /\ Cardinality(below(x)) \in Nat /\ rank[x] \in 1 .. n
  <2>1. below(x) \in SUBSET (S \ {x})
    OBVIOUS
  <2>2. IsFiniteSet(S \ {x}) /\ Cardinality(S \ {x}) = n - 1
    BY FS_RemoveElement
  <2>3. IsFiniteSet(below(x)) /\ Cardinality(below(x)) <= n - 1
    BY <2>1, <2>2, FS_Subset
  <2>4. Cardinality(below(x)) \in Nat
    BY <2>3, FS_CardinalityType
  <2> HIDE DEF below
  <2> QED
    BY <1>1, <2>3, <2>4
<1>3. ASSUME NEW x \in S, NEW y \in S, x < y PROVE rank[x] < rank[y]
  <2>0. x \in Nat /\ y \in Nat /\ \A z \in S : z \in Nat /\ (z < x => z < y)
    BY <1>3
  <2>1. below(x) \in SUBSET below(y) /\ x \in below(y) /\ x \notin below(x)
    <3>1. x < y /\ ~(x < x)
      BY <1>3, <2>0
    <3> QED
      BY <2>0, <3>1, Zenon
  <2>2. Cardinality(below(x)) <= Cardinality(below(y)) /\ Cardinality(below(x)) # Cardinality(below(y))
    <3> DEFINE lower == below(x)
               upper == below(y)
    <3>1. IsFiniteSet(upper) /\ lower \in SUBSET upper /\ y \in S /\ x \in upper /\ x \notin lower
      BY <1>2, <2>1
    <3> HIDE DEF lower, upper
    <3>2. Cardinality(lower) <= Cardinality(upper) /\ Cardinality(lower) # Cardinality(upper)
      BY <3>1, FS_Subset
    <3> QED
      BY <3>2 DEF lower, upper
  <2>3. Cardinality(below(x)) \in Nat /\ Cardinality(below(y)) \in Nat
    BY <1>2
  <2>4. Cardinality(below(x)) + 1 < Cardinality(below(y)) + 1
    <3> HIDE DEF below
    <3> QED
      BY <2>2, <2>3
  <2> QED
    BY <2>4
<1>4. \A x, y \in S : rank[x] \in Nat /\ (x < y => rank[x] < rank[y])
  BY SMTT(60), <1>1, <1>2, <1>3
<1>5. rank \in [S -> 1 .. n]
  BY <1>2
<1> HIDE DEF rank, n
<1>6. rank \in Injection(S, 1 .. n)
  <2>1. ASSUME NEW x \in S, NEW y \in S, rank[x] = rank[y] PROVE x = y
    <3>1. ~(x < y) /\ ~(y < x)
      BY <1>4, <2>1
    <3>2. x \in Nat /\ y \in Nat
      OBVIOUS
    <3> QED
      BY <3>1, <3>2
  <2> QED
    BY <1>5, <2>1 DEF Injection, IsInjective
<1>7. rank \in Surjection(S, 1 .. n)
  BY <1>1, <1>6, FS_Injection DEF n
<1>8. \A k \in 1 .. n : s[k] \in S /\ rank[s[k]] = k
  BY <1>7 DEF Surjection
<1>9. s \in [1 .. n -> S] /\ DOMAIN s = 1 .. n
  BY <1>8
<1> HIDE DEF s
<1>10. \A i, j \in 1 .. n : i < j => s[i] < s[j]
  <2> SUFFICES ASSUME NEW i \in 1 .. n, NEW j \in 1 .. n, i < j PROVE s[i] < s[j]
    OBVIOUS
  <2>1. s[i] \in S /\ s[j] \in S /\ rank[s[i]] = i /\ rank[s[j]] = j
    BY <1>8
  <2>2. ~(s[j] < s[i])
    <3> SUFFICES ASSUME s[j] < s[i] PROVE FALSE
      OBVIOUS
    <3>1. j < i
      BY <1>4, <2>1
    <3> QED
      BY <1>1, <3>1
  <2>4. s[i] # s[j]
    BY <1>1, <2>1
  <2>3. s[i] \in Nat /\ s[j] \in Nat
    BY <2>1
  <2> QED
    BY <2>2, <2>3, <2>4
<1>11. s \in SetToSeqs(S)
  <2>1. \A i, j \in 1 .. n : i # j => s[i] # s[j]
    BY <1>8
  <2> QED
    BY <1>9, <2>1 DEF SetToSeqs, n
<1> DEFINE a == Ascending(S)
<1>12. a \in SetToSeqs(S) /\ \A i, j \in DOMAIN a : i < j => a[i] < a[j]
  BY <1>9, <1>10, <1>11 DEF Ascending
<1>13. a \in [1 .. n -> S] /\ \A i, j \in 1 .. n : i # j => a[i] # a[j]
  BY <1>12 DEF SetToSeqs, n
<1>14. a \in Injection(1 .. n, S)
  BY <1>13 DEF Injection, IsInjective
<1>15. a \in Surjection(1 .. n, S)
  BY <1>1, <1>14, FS_Injection DEF n
<1> HIDE DEF a
<1>16. \A x \in S : \E i \in 1 .. n : a[i] = x
  BY <1>15 DEF Surjection
<1> QED
  BY <1>1, <1>12, <1>13, <1>16 DEF a, n

\* So a set of positions has a largest one.
LEMMA MaxOfSome ==
    ASSUME NEW S \in SUBSET Nat, IsFiniteSet(S), S # {}
    PROVE  Max(S) \in S
<1> DEFINE n == Cardinality(S)
           a == Ascending(S)
<1>1. n \in Nat /\ n # 0
  BY FS_CardinalityType, FS_EmptySet
<1>2. /\ a \in [1 .. n -> S] /\ (\A x \in S : \E i \in 1 .. n : a[i] = x)
      /\ \A i, j \in 1 .. n : i < j => a[i] < a[j]
  BY AscendingIs
<1> HIDE DEF a, n
<1>3. n \in 1 .. n
  BY <1>1
<1>4. a[n] \in S /\ \A y \in S : a[n] >= y
  <2> SUFFICES ASSUME NEW y \in S PROVE a[n] >= y
    BY <1>2, <1>3
  <2>1. PICK i \in 1 .. n : a[i] = y
    BY <1>2
  <2>2. CASE i = n
    BY <2>1, <2>2
  <2>3. CASE i # n
    <3>1. i < n
      BY <1>1, <2>3
    <3>2. a[i] < a[n] /\ a[i] \in Nat /\ a[n] \in Nat
      BY <1>2, <1>3, <3>1
    <3> QED
      BY <2>1, <3>2
  <2> QED
    BY <2>2, <2>3
<1> QED
  BY <1>4 DEF Max

-----------------------------------------------------------------------------
(* Embedding: every vector at the position of its text                     *)

\* What the cache may hold for a text, and what a lookup of it may give.
Hit(t) == {Vec(t, 1), Vec(t, 2)}

\* Vectors of the first positions that were asked for.
Answers(embs) == /\ DOMAIN embs = 1 .. Len(embs) /\ Len(embs) \in Nat
                 /\ \A j \in 1 .. Len(embs) : embs[j] = Vec(texts[asked[j]], CurrentDim)

AskedFor(i) == \E j \in 1 .. Len(asked) : asked[j] = i

\* A position has its vector, is asked for, or has a hit that waits for the answer's dimension.
InHand(i) ==
    \/ AskedFor(i)
    \/ vectors[i].of = texts[i]
    \/ vectors[i] = Nowhere /\ i \in DOMAIN looked /\ looked[i] # Nowhere

CacheInv == DOMAIN ecache = EmbedTexts /\ \A t \in EmbedTexts : ecache[t] \in Entry(t)

SendInv ==
    /\ asked \in Seq(DOMAIN texts) /\ got \in Seq({Vec(t, CurrentDim) : t \in EmbedTexts})
    /\ Answers(got) /\ Len(got) < Len(asked)
    /\ DOMAIN vectors = DOMAIN texts /\ \A i \in DOMAIN texts : InHand(i)

Aligned(v) == /\ DOMAIN v = DOMAIN texts
              /\ \A i \in DOMAIN texts : \/ v[i].of = texts[i]
                                         \/ ~use.client /\ v[i] = Nowhere

EmbedInv ==
    /\ texts \in Seq(EmbedTexts) /\ CacheInv
    /\ estep \in {"start", "lookup", "send", "done"}
    /\ DOMAIN looked = 1 .. Len(looked) /\ Len(looked) \in 0 .. Len(texts)
    /\ \A i \in DOMAIN looked : looked[i] \in {Nowhere} \cup Hit(texts[i])
    /\ looked \in Seq({Nowhere} \cup UNION {Hit(t) : t \in EmbedTexts})
    /\ estep \in {"start", "lookup"} => got = <<>>
    /\ estep = "send" => SendInv
    /\ verdict = "ok" => estep = "done" /\ Aligned(vectors)

LEMMA VecFacts ==
    \A t \in EmbedTexts :
          /\ t # "" /\ Vec(t, CurrentDim) \in Hit(t) /\ Vec(t, CurrentDim) \in Entry(t)
          /\ \A v \in Hit(t) : v.of = t /\ v # Nowhere /\ v # Corrupt /\ v \in Entry(t)
          /\ \A v \in Entry(t) : v \in {Nowhere, Corrupt} \cup Hit(t) /\ v.of \in {"", t}
          /\ Nowhere \in Entry(t)
<1>1. Nowhere.of = "" /\ Corrupt.of = ""
  BY DEF Nowhere, Corrupt
<1>2. SUFFICES ASSUME NEW t \in EmbedTexts
      PROVE  /\ t # "" /\ Vec(t, CurrentDim) \in Hit(t) /\ Vec(t, CurrentDim) \in Entry(t)
             /\ \A v \in Hit(t) : v.of = t /\ v # Nowhere /\ v # Corrupt /\ v \in Entry(t)
             /\ \A v \in Entry(t) : v \in {Nowhere, Corrupt} \cup Hit(t) /\ v.of \in {"", t}
             /\ Nowhere \in Entry(t)
  OBVIOUS
<1>3. t # ""
  BY EmbedConstants
<1>4. \A d : Vec(t, d).of = t
  BY DEF Vec
<1>5. \A v \in Hit(t) : v.of = t
  BY <1>4 DEF Hit
<1>6. Entry(t) = {Nowhere, Corrupt} \cup Hit(t) /\ Vec(t, CurrentDim) \in Hit(t)
  BY DEF Entry, Hit, CurrentDim
<1> QED
  BY <1>1, <1>3, <1>5, <1>6

\* The texts have positions.
LEMMA PositionsAre ==
    ASSUME EmbedInv
    PROVE  /\ Len(texts) \in Nat /\ DOMAIN texts = 1 .. Len(texts) /\ IsFiniteSet(DOMAIN texts)
           /\ \A i \in DOMAIN texts : texts[i] \in EmbedTexts
<1>1. Len(texts) \in Nat /\ DOMAIN texts = 1 .. Len(texts)
  BY DEF EmbedInv
<1>2. \A i \in DOMAIN texts : texts[i] \in EmbedTexts
  BY DEF EmbedInv
<1>3. IsFiniteSet(1 .. Len(texts))
  BY <1>1, FS_Interval
<1> QED
  BY <1>1, <1>2, <1>3

\* Positions that are asked for, in their order.
LEMMA AskSome ==
    ASSUME EmbedInv, NEW S \in SUBSET DOMAIN texts, S # {}
    PROVE  /\ Ascending(S) \in Seq(DOMAIN texts) /\ Len(Ascending(S)) \in Nat \ {0}
           /\ \A i \in S : \E j \in 1 .. Len(Ascending(S)) : Ascending(S)[j] = i
<1> DEFINE n == Cardinality(S)
           a == Ascending(S)
<1>1. S \in SUBSET Nat /\ IsFiniteSet(S)
  BY PositionsAre, FS_Subset
<1>2. n \in Nat /\ n # 0
  BY <1>1, FS_CardinalityType, FS_EmptySet
<1>3. a \in [1 .. n -> S] /\ \A x \in S : \E i \in 1 .. n : a[i] = x
  BY <1>1, AscendingIs
<1> HIDE DEF a, n
<1>4. a \in Seq(DOMAIN texts) /\ Len(a) = n
  BY <1>2, <1>3
<1> QED
  BY <1>2, <1>3, <1>4 DEF a

\* A call of embed is over: with a result that is in place, or with a failure.
LEMMA DoneKeeps ==
    ASSUME EmbedInv, NEW v, NEW result, Done(v, result), UNCHANGED <<use, texts>>, CacheInv',
           v = "ok" => Aligned(result)
    PROVE  EmbedInv'
<1>1. /\ estep' = "done" /\ verdict' = v /\ vectors' = result /\ looked' = <<>> /\ got' = <<>>
      /\ texts' = texts /\ use' = use
  BY DEF Done
<1>2. v = "ok" => Aligned(vectors)'
  BY <1>1 DEF Aligned
<1>3. Len(texts) \in Nat
  BY PositionsAre
<1>4. texts' \in Seq(EmbedTexts)
  BY <1>1 DEF EmbedInv
<1> QED
  BY <1>1, <1>2, <1>3, <1>4 DEF EmbedInv

LEMMA StartStep == ASSUME EmbedInv, Start PROVE EmbedInv'
<1>1. /\ estep = "start" /\ UNCHANGED <<ecache, use, texts>> /\ CacheInv' /\ got = <<>>
  BY DEF Start, EmbedInv, CacheInv
<1>2. CASE texts = <<>>
  <2>1. Done("ok", <<>>) /\ Aligned(<<>>)
    BY <1>2 DEF Start, Aligned
  <2> QED
    BY <1>1, <2>1, DoneKeeps
<1>3. CASE texts # <<>> /\ ~use.client /\ ~use.cached
  <2>1. Done("ok", Blank) /\ Aligned(Blank)
    BY <1>3 DEF Start, Aligned, Blank
  <2> QED
    BY <1>1, <2>1, DoneKeeps
<1>4. CASE texts # <<>> /\ use.cached
  <2>1. estep' = "lookup" /\ UNCHANGED <<looked, asked, got, tries, vectors, verdict>>
    BY <1>4 DEF Start
  <2> QED
    BY <1>1, <2>1 DEF EmbedInv
<1>5. CASE texts # <<>> /\ use.client /\ ~use.cached
  <2>1. /\ estep' = "send" /\ asked' = Ascending(DOMAIN texts) /\ vectors' = Blank
        /\ UNCHANGED <<looked, got, tries, verdict>>
    BY <1>5 DEF Start
  <2>2. DOMAIN texts # {}
    BY <1>5, PositionsAre DEF EmbedInv
  <2>3. /\ asked' \in Seq(DOMAIN texts) /\ Len(asked') \in Nat \ {0}
        /\ \A i \in DOMAIN texts : AskedFor(i)'
    BY <2>1, <2>2, AskSome DEF AskedFor
  <2>4. SendInv'
    <3>1. got' = <<>>
      BY <1>1, <2>1
    <3>2. Len(got') = 0 /\ DOMAIN got' = {} /\ got' \in Seq({Vec(t, CurrentDim) : t \in EmbedTexts})
      BY <3>1
    <3>3. Answers(got)'
      BY <3>2 DEF Answers
    <3>4. DOMAIN vectors' = DOMAIN texts
      BY <2>1 DEF Blank
    <3> QED
      BY <1>1, <2>3, <3>2, <3>3, <3>4 DEF SendInv, InHand
  <2> QED
    BY <1>1, <2>1, <2>4 DEF EmbedInv
<1> QED
  BY <1>2, <1>3, <1>4, <1>5, Zenon

LEMMA OthersStep ==
    ASSUME EmbedInv,
           (\E t \in EmbedTexts : OtherPut(t)) \/ (\E T \in SUBSET EmbedTexts : purge_global(T))
    PROVE  EmbedInv'
<1>1. /\ UNCHANGED <<use, texts, estep, looked, asked, got, tries, vectors, verdict>>
  BY DEF OtherPut, purge_global
<1>2. CacheInv'
  <2>1. ASSUME NEW t \in EmbedTexts, OtherPut(t) PROVE CacheInv'
    BY <2>1, VecFacts DEF OtherPut, EmbedInv, CacheInv
  <2>2. ASSUME NEW T \in SUBSET EmbedTexts, purge_global(T) PROVE CacheInv'
    BY <2>2, VecFacts DEF purge_global, EmbedInv, CacheInv
  <2> QED
    BY <2>1, <2>2
<1> QED
  BY <1>1, <1>2 DEF EmbedInv, SendInv, Answers, InHand, AskedFor, Aligned

\* A lookup yields a miss or a vector of the text that was looked up.
LEMMA LookStep == ASSUME EmbedInv, get_many PROVE EmbedInv'
<1> DEFINE n == Len(looked) + 1
           t == texts[n]
           hit == IF ecache[t] = Corrupt THEN Nowhere ELSE ecache[t]
<1>1. /\ estep = "lookup" /\ Len(looked) < Len(texts) /\ looked' = Append(looked, hit)
      /\ ecache' = IF ecache[t] = Corrupt THEN [ecache EXCEPT ![t] = Nowhere] ELSE ecache
      /\ UNCHANGED <<use, texts, estep, asked, got, tries, vectors, verdict>>
  BY DEF get_many
<1>2. n \in DOMAIN texts /\ Len(looked) \in Nat /\ t \in EmbedTexts
  BY <1>1, PositionsAre DEF EmbedInv
<1>3. hit \in {Nowhere} \cup Hit(t)
  <2>1. ecache[t] \in {Nowhere, Corrupt} \cup Hit(t)
    <3>1. \A x \in EmbedTexts : ecache[x] \in Entry(x)
      BY DEF EmbedInv, CacheInv
    <3> HIDE DEF t
    <3> QED
      BY <1>2, <3>1, VecFacts
  <2> HIDE DEF t
  <2> QED
    BY <2>1
<1>4. CacheInv'
  BY <1>1, <1>2, VecFacts DEF EmbedInv, CacheInv
<1> DEFINE S == {Nowhere} \cup UNION {Hit(x) : x \in EmbedTexts}
<1>5. looked \in Seq(S) /\ hit \in S
  BY <1>2, <1>3 DEF EmbedInv
<1> HIDE DEF hit, S, t
<1>6. /\ looked' \in Seq(S) /\ Len(looked') = n /\ DOMAIN looked' = 1 .. n
      /\ \A i \in 1 .. n : looked'[i] = IF i = n THEN hit ELSE looked[i]
  BY <1>1, <1>2, <1>5
<1>7. Len(looked') \in 0 .. Len(texts)
  BY <1>2, <1>6, PositionsAre
<1>8. \A i \in DOMAIN looked' : looked'[i] \in {Nowhere} \cup Hit(texts[i])
  <2> SUFFICES ASSUME NEW i \in 1 .. n PROVE looked'[i] \in {Nowhere} \cup Hit(texts[i])
    BY <1>6
  <2>1. CASE i = n
    BY <1>3, <1>6, <2>1 DEF t
  <2>2. CASE i # n
    <3>1. i \in DOMAIN looked
      BY <1>2, <2>2 DEF EmbedInv
    <3> QED
      BY <1>6, <2>2, <3>1 DEF EmbedInv
  <2> QED
    BY <2>1, <2>2
<1>9. verdict' = "ok" => FALSE
  BY <1>1 DEF EmbedInv
<1> QED
  BY <1>1, <1>4, <1>6, <1>7, <1>8, <1>9 DEF EmbedInv, S

\* The hits that are held are in place; what is asked for are the misses, or the hits
\* of another dimension.
LEMMA LookupEndStep == ASSUME EmbedInv, LookupEnds PROVE EmbedInv'
<1> DEFINE wanted == IF Misses # {} THEN Misses ELSE Mixed
           held == [i \in DOMAIN texts |-> IF i \in wanted THEN Nowhere ELSE looked[i]]
<1>1. /\ estep = "lookup" /\ Len(looked) = Len(texts) /\ got = <<>>
      /\ UNCHANGED <<ecache, use, texts>> /\ CacheInv'
      /\ IF wanted = {} \/ ~use.client THEN Done("ok", held)
         ELSE /\ estep' = "send" /\ asked' = Ascending(wanted)
              /\ vectors' = IF Misses # {} THEN Blank ELSE held
              /\ UNCHANGED <<looked, got, tries, verdict>>
  BY DEF LookupEnds, EmbedInv, CacheInv
<1>2. DOMAIN looked = DOMAIN texts
  BY <1>1, PositionsAre DEF EmbedInv
<1>3. \A i \in DOMAIN texts : i \notin wanted => looked[i] # Nowhere /\ looked[i].of = texts[i]
  <2> SUFFICES ASSUME NEW i \in DOMAIN texts, i \notin wanted
               PROVE  looked[i] # Nowhere /\ looked[i].of = texts[i]
    OBVIOUS
  <2>1. looked[i] # Nowhere
    BY DEF Misses
  <2> QED
    BY <1>2, <2>1, PositionsAre, VecFacts DEF EmbedInv
<1>4. wanted \in SUBSET DOMAIN texts
  BY DEF Misses, Mixed
<1>5. CASE wanted = {} \/ ~use.client
  <2>1. Done("ok", held)
    BY <1>1, <1>5, Zenon
  <2>2. Aligned(held)
    <3> SUFFICES ASSUME NEW i \in DOMAIN texts
                 PROVE  held[i].of = texts[i] \/ (~use.client /\ held[i] = Nowhere)
      BY DEF Aligned
    <3>1. CASE i \in wanted
      <4>1. ~use.client /\ held[i] = Nowhere
        BY <1>5, <3>1, Zenon
      <4> QED
        BY <4>1
    <3>2. CASE i \notin wanted
      BY <1>3, <3>2
    <3> QED
      BY <3>1, <3>2
  <2> HIDE DEF held
  <2> QED
    BY <1>1, <2>1, <2>2, DoneKeeps
<1>6. CASE ~(wanted = {} \/ ~use.client)
  <2>1. /\ wanted # {} /\ estep' = "send" /\ asked' = Ascending(wanted)
        /\ vectors' = IF Misses # {} THEN Blank ELSE held
        /\ UNCHANGED <<looked, got, tries, verdict>>
    BY <1>1, <1>6, Zenon
  <2> HIDE DEF wanted
  <2>2. /\ asked' \in Seq(DOMAIN texts) /\ Len(asked') \in Nat \ {0}
        /\ \A i \in wanted : AskedFor(i)'
    BY <1>4, <2>1, AskSome DEF AskedFor
  <2>3. Len(got') = 0 /\ DOMAIN got' = {} /\ got' \in Seq({Vec(t, CurrentDim) : t \in EmbedTexts})
    BY <1>1, <2>1
  <2>4. Answers(got)'
    BY <2>3 DEF Answers
  <2>5. DOMAIN vectors' = DOMAIN texts
    BY <2>1 DEF Blank
  <2>6. ASSUME NEW i \in DOMAIN texts PROVE InHand(i)'
    <3>1. CASE i \in wanted
      BY <2>2, <3>1 DEF InHand
    <3>2. CASE i \notin wanted
      <4>1. looked[i] # Nowhere /\ looked[i].of = texts[i]
        BY <1>3, <3>2
      <4>2. vectors'[i] = Nowhere \/ vectors'[i] = looked[i]
        BY <2>1, <3>2 DEF Blank
      <4> QED
        BY <1>1, <1>2, <2>1, <4>1, <4>2 DEF InHand
    <3> QED
      BY <3>1, <3>2
  <2>7. SendInv'
    BY <1>1, <2>2, <2>3, <2>4, <2>5, <2>6 DEF SendInv
  <2> QED
    BY <1>1, <2>1, <2>7 DEF EmbedInv
<1> QED
  BY <1>5, <1>6, Zenon

\* A batch is some of the texts that are still asked for, from the first of them on.
LEMMA BatchIs ==
    ASSUME EmbedInv, estep = "send"
    PROVE  \E m \in 1 .. Len(asked) - Len(got) :
              /\ Len(byte_aware_batch) = m
              /\ \A k \in 1 .. m : byte_aware_batch[k] = asked[Len(got) + k]
<1> DEFINE g == Len(got)
           rest == SubSeq(asked, g + 1, Len(asked))
           fits == {n \in 1 .. Min({Len(rest), MAX_BATCH_SIZE}) :
                      n = 1 \/ BytesOf(SubSeq(rest, 1, n)) <= MAX_BATCH_BYTES}
           m == Max(fits)
<1>1. g \in Nat /\ Len(asked) \in Nat /\ g < Len(asked) /\ asked \in Seq(DOMAIN texts)
  BY DEF EmbedInv, SendInv, Answers
<1> HIDE DEF g
<1>2. /\ rest \in Seq(DOMAIN texts) /\ Len(rest) = Len(asked) - g
      /\ \A k \in 1 .. Len(asked) - g : rest[k] = asked[g + k]
  BY <1>1
<1> HIDE DEF rest
<1>3. Min({Len(rest), MAX_BATCH_SIZE}) \in 1 .. Len(rest)
  <2> DEFINE n == Len(rest)
  <2>0. MAX_BATCH_SIZE \in Nat \ {0}
    BY EmbedConstants, Zenon
  <2>1. n \in Nat /\ n >= 1 /\ MAX_BATCH_SIZE \in Nat /\ MAX_BATCH_SIZE >= 1
    BY <1>1, <1>2, <2>0
  <2> HIDE DEF n
  <2>2. \E x \in {n, MAX_BATCH_SIZE} : \A y \in {n, MAX_BATCH_SIZE} : x <= y
    BY <2>1, n <= MAX_BATCH_SIZE \/ MAX_BATCH_SIZE <= n
  <2>3. /\ Min({n, MAX_BATCH_SIZE}) \in {n, MAX_BATCH_SIZE}
        /\ Min({n, MAX_BATCH_SIZE}) <= n
    BY <2>2 DEF Min
  <2>4. Min({n, MAX_BATCH_SIZE}) \in 1 .. n
    BY <2>1, <2>3
  <2> QED
    BY <2>4 DEF n
<1>4. fits \in SUBSET (1 .. Len(rest)) /\ 1 \in fits
  BY <1>1, <1>2, <1>3
<1>5. m \in 1 .. Len(rest)
  <2>1. fits \in SUBSET Nat /\ IsFiniteSet(fits) /\ fits # {}
    <3>1. Len(rest) \in Nat
      BY <1>1, <1>2
    <3>2. IsFiniteSet(1 .. Len(rest))
      BY <3>1, FS_Interval
    <3> HIDE DEF fits
    <3>3. IsFiniteSet(fits)
      BY <1>4, <3>2, FS_Subset
    <3>4. fits \in SUBSET Nat
      BY <1>4, <3>1
    <3> QED
      BY <1>4, <3>3, <3>4
  <2> HIDE DEF fits
  <2> QED
    BY <1>4, <2>1, MaxOfSome
<1>6. byte_aware_batch = SubSeq(rest, 1, m)
  BY DEF byte_aware_batch, rest, g
<1> HIDE DEF m
<1>7. /\ Len(byte_aware_batch) = m
      /\ \A k \in 1 .. m : byte_aware_batch[k] = rest[k]
  BY <1>1, <1>2, <1>5, <1>6
<1>8. m \in 1 .. Len(asked) - g
  BY <1>2, <1>5
<1>9. \A k \in 1 .. m : k \in 1 .. Len(asked) - g
  BY <1>1, <1>8
<1>10. \A k \in 1 .. m : byte_aware_batch[k] = asked[g + k]
  BY <1>2, <1>7, <1>9
<1> QED
  BY <1>7, <1>8, <1>10 DEF g

LEMMA LenIs ==
    ASSUME NEW n \in Nat, NEW f, DOMAIN f = 1 .. n, f = [j \in 1 .. n |-> f[j]]
    PROVE  Len(f) = n
<1> DEFINE S == {f[j] : j \in 1 .. n}
<1>1. f \in [1 .. n -> S]
  OBVIOUS
<1> HIDE DEF S
<1>2. f \in Seq(S)
  BY <1>1
<1> QED
  BY <1>1, <1>2

\* A vector of a reply is of the text its label names, or of the one at its place.
LEMMA RepliesAre ==
    ASSUME NEW b, NEW n \in Nat, n >= 1, Len(b) = n, NEW data \in Replies(b)
    PROVE  /\ DOMAIN data = 1 .. Len(data)
           /\ \/ \A j \in DOMAIN data : data[j].ix = 0 /\ data[j].of = texts[b[j]]
              \/ \A j \in DOMAIN data : /\ data[j].ix \in 1 .. n
                                        /\ data[j].of \in {texts[b[data[j].ix]], ""}
<1> DEFINE item(k) == [of |-> texts[b[k]], ix |-> k]
<1>1. ASSUME NEW p \in SetToSeqs(1 .. n), data = [j \in 1 .. n |-> item(p[j])]
      PROVE  DOMAIN data = 1 .. n /\ Len(data) = n /\ \A j \in 1 .. n :
                data[j].ix \in 1 .. n /\ data[j].of = texts[b[data[j].ix]]
  <2>1. p \in [1 .. n -> 1 .. n]
    <3>1. Cardinality(1 .. n) = n
      BY FS_Interval
    <3> QED
      BY <3>1 DEF SetToSeqs
  <2> QED
    BY SMTT(60), <1>1, <2>1
<1>2. ASSUME data = [j \in 1 .. n |-> [item(j) EXCEPT !.ix = 0]]
      PROVE  DOMAIN data = 1 .. n /\ Len(data) = n
             /\ \A j \in 1 .. n : data[j].ix = 0 /\ data[j].of = texts[b[j]]
  <2>1. DOMAIN data = 1 .. n /\ \A j \in 1 .. n : data[j] = [item(j) EXCEPT !.ix = 0]
    BY <1>2
  <2>2. Len(data) = n
    BY <1>2, <2>1, LenIs
  <2>3. \A j \in 1 .. n : data[j].ix = 0 /\ data[j].of = texts[b[j]]
    BY ZenonT(60), <2>1
  <2> QED
    BY <2>1, <2>2, <2>3
<1>3. ASSUME data = [j \in 1 .. n - 1 |-> item(j)]
      PROVE  DOMAIN data = 1 .. n - 1 /\ Len(data) = n - 1 /\ \A j \in 1 .. n - 1 :
                data[j].ix \in 1 .. n /\ data[j].of = texts[b[data[j].ix]]
  BY <1>3
<1>4. ASSUME data = [j \in 1 .. n |-> IF j = n THEN [item(j) EXCEPT !.of = ""] ELSE item(j)]
      PROVE  DOMAIN data = 1 .. n /\ Len(data) = n /\ \A j \in 1 .. n :
                data[j].ix \in 1 .. n /\ data[j].of \in {texts[b[data[j].ix]], ""}
  <2> DEFINE cut == [item(n) EXCEPT !.of = ""]
  <2>0. n \in 1 .. n /\ cut.of = "" /\ cut.ix = n
    OBVIOUS
  <2> HIDE DEF cut
  <2>1. /\ DOMAIN data = 1 .. n /\ data[n] = cut
        /\ \A j \in 1 .. n : j # n => data[j] = item(j)
    BY <1>4, <2>0 DEF cut
  <2>2. Len(data) = n
    BY <1>4, <2>1, LenIs
  <2>3. ASSUME NEW j \in 1 .. n, j # n PROVE data[j].ix = j /\ data[j].of = texts[b[j]]
    <3>1. data[j] = item(j)
      BY <2>1, <2>3
    <3>2. item(j).ix = j /\ item(j).of = texts[b[j]]
      OBVIOUS
    <3> QED
      BY <3>1, <3>2
  <2>4. data[n].ix = n /\ data[n].of = ""
    BY <2>0, <2>1
  <2> QED
    BY ZenonT(60), <2>1, <2>2, <2>3, <2>4
<1>5. ASSUME data = [j \in 1 .. n |-> item(1)]
      PROVE  DOMAIN data = 1 .. n /\ Len(data) = n /\ \A j \in 1 .. n :
                data[j].ix \in 1 .. n /\ data[j].of = texts[b[data[j].ix]]
  BY <1>5
<1> QED
  BY ZenonT(60), <1>1, <1>2, <1>3, <1>4, <1>5 DEF Replies

\* What is accepted of a reply is in the order of the batch (order_embeddings).
LEMMA OrderIs ==
    ASSUME NEW b, NEW n \in Nat, n >= 1, Len(b) = n, NEW data \in Replies(b),
           order_embeddings(data, n) # <<>>
    PROVE  order_embeddings(data, n) = [j \in 1 .. n |-> Vec(texts[b[j]], CurrentDim)]
<1> DEFINE labelled == \A j \in DOMAIN data : data[j].ix # 0
           place(j) == IF labelled THEN CHOOSE k \in 1 .. n : data[k].ix = j ELSE j
           result == [j \in 1 .. n |-> Vec(data[place(j)].of, CurrentDim)]
<1>1. /\ Len(data) = n /\ order_embeddings(data, n) = result
      /\ labelled => \A j \in 1 .. n : \E k \in 1 .. n : data[k].ix = j
      /\ \A j \in DOMAIN data : data[j].of # ""
  BY DEF order_embeddings
<1>2. /\ DOMAIN data = 1 .. n
      /\ \/ \A j \in 1 .. n : data[j].ix = 0 /\ data[j].of = texts[b[j]]
         \/ \A j \in 1 .. n : /\ data[j].ix \in 1 .. n
                              /\ data[j].of \in {texts[b[data[j].ix]], ""}
  BY <1>1, RepliesAre
<1>3. ASSUME NEW j \in 1 .. n PROVE data[place(j)].of = texts[b[j]]
  <2>1. CASE labelled
    <3>1. place(j) \in 1 .. n /\ data[place(j)].ix = j
      BY <1>1, <2>1
    <3>2. data[place(j)].of # "" /\ data[place(j)].ix # 0
      BY <1>1, <1>2, <2>1, <3>1
    <3> DEFINE k == place(j)
    <3>3. k \in 1 .. n /\ data[k].ix = j /\ data[k].of # "" /\ data[k].ix # 0
      BY <3>1, <3>2
    <3> HIDE DEF k
    <3>4. data[k].of \in {texts[b[data[k].ix]], ""}
      BY <1>2, <3>3
    <3>5. data[k].of = texts[b[j]]
      BY <3>3, <3>4
    <3> QED
      BY <3>5 DEF k
  <2>2. CASE ~labelled
    <3>1. place(j) = j
      BY <2>2
    <3>2. PICK i \in 1 .. n : data[i].ix = 0
      BY <1>2, <2>2
    <3>3. data[i].ix \notin 1 .. n
      BY <3>2
    <3>4. data[j].of = texts[b[j]]
      BY <1>2, <3>3
    <3> QED
      BY <3>1, <3>4
  <2> QED
    BY <2>1, <2>2
<1>4. result = [j \in 1 .. n |-> Vec(texts[b[j]], CurrentDim)]
  <2>1. \A j \in 1 .. n : data[place(j)].of = texts[b[j]]
    BY <1>3
  <2> HIDE DEF place
  <2> QED
    BY <2>1
<1> HIDE DEF result
<1> QED
  BY <1>1, <1>4

\* What a call has received once a batch was answered.
LEMMA AnswersGrow ==
    ASSUME EmbedInv, estep = "send", NEW r \in try_embed_with_key_using(byte_aware_batch),
           r.kind = "ok"
    PROVE  /\ got \o r.embs \in Seq({Vec(t, CurrentDim) : t \in EmbedTexts})
           /\ Answers(got \o r.embs) /\ Len(got \o r.embs) <= Len(asked)
<1> DEFINE b == byte_aware_batch
           V == {Vec(t, CurrentDim) : t \in EmbedTexts}
           g == Len(got)
           e == r.embs
<1>1. PICK m \in 1 .. Len(asked) - g : /\ Len(b) = m
                                       /\ \A k \in 1 .. m : b[k] = asked[g + k]
  BY BatchIs
<1>2. PICK data \in Replies(b) : e = order_embeddings(data, Len(b)) /\ e # <<>>
  BY DEF try_embed_with_key_using
<1>3. /\ asked \in Seq(DOMAIN texts) /\ got \in Seq(V) /\ g \in Nat /\ Len(asked) \in Nat
      /\ g < Len(asked) /\ DOMAIN got = 1 .. g
      /\ \A j \in 1 .. g : got[j] = Vec(texts[asked[j]], CurrentDim)
  BY DEF EmbedInv, SendInv, Answers
<1> HIDE DEF b, g, e, V
<1>4. m \in Nat /\ m >= 1 /\ g + m <= Len(asked)
  BY <1>1, <1>3
<1>5. e = [j \in 1 .. m |-> Vec(texts[b[j]], CurrentDim)]
  BY <1>1, <1>2, <1>4, OrderIs
<1>6. \A j \in 1 .. m : e[j] = Vec(texts[asked[g + j]], CurrentDim)
  BY <1>1, <1>5
<1>7. \A j \in 1 .. g + m : asked[j] \in DOMAIN texts /\ texts[asked[j]] \in EmbedTexts
  BY <1>3, <1>4, PositionsAre
<1>8. \A j \in 1 .. m : e[j] \in V
  BY SMTT(60), <1>3, <1>4, <1>6, <1>7 DEF V
<1>9. e \in Seq(V) /\ Len(e) = m
  <2>2. e \in [1 .. m -> V]
    BY <1>5, <1>8
  <2> QED
    BY <1>4, <2>2
<1>10. /\ got \o e \in Seq(V) /\ Len(got \o e) = g + m
       /\ \A j \in 1 .. g + m : (got \o e)[j] = IF j <= g THEN got[j] ELSE e[j - g]
  <2>1. got \in Seq(V) /\ Len(got) = g
    BY <1>3 DEF g
  <2> HIDE <1>1, <1>2, <1>3, <1>5, <1>6, <1>7, <1>8
  <2>2. /\ got \o e \in Seq(V) /\ Len(got \o e) = Len(got) + Len(e)
        /\ \A j \in 1 .. Len(got) + Len(e) : (got \o e)[j] = IF j <= Len(got) THEN got[j] ELSE e[j - Len(got)]
    BY <1>9, <2>1
  <2> QED
    BY <1>9, <2>1, <2>2
<1>11. ASSUME NEW j \in 1 .. g + m PROVE (got \o e)[j] = Vec(texts[asked[j]], CurrentDim)
  <2>1. CASE j <= g
    BY <1>3, <1>10, <2>1
  <2>2. CASE ~(j <= g)
    <3>1. j - g \in 1 .. m /\ g + (j - g) = j
      BY <1>3, <1>4, <2>2
    <3>2. (got \o e)[j] = e[j - g]
      BY <1>10, <2>2
    <3> QED
      BY <1>6, <3>1, <3>2
  <2> QED
    BY <2>1, <2>2
<1>12. DOMAIN (got \o e) = 1 .. (g + m) /\ g + m \in Nat
  BY <1>3, <1>4, <1>10
<1> QED
  BY <1>4, <1>10, <1>11, <1>12 DEF Answers, e, V

\* The cache stores under a text the vector that was received for it.
LEMMA PutKeeps ==
    ASSUME EmbedInv, estep = "send", NEW embs, Answers(embs), Len(embs) = Len(asked), NEW T,
           ecache' = put_many(embs, T)
    PROVE  CacheInv'
<1> SUFFICES ASSUME NEW t \in EmbedTexts PROVE ecache'[t] \in Entry(t)
  BY DEF CacheInv, put_many
<1> DEFINE at == {j \in DOMAIN asked : texts[asked[j]] = t}
<1>1. ecache'[t] = IF t \in T /\ at # {} THEN embs[Max(at)] ELSE ecache[t]
  BY DEF put_many
<1>2. asked \in Seq(DOMAIN texts) /\ Len(asked) \in Nat /\ DOMAIN asked = 1 .. Len(asked)
  BY DEF EmbedInv, SendInv
<1>3. CASE t \in T /\ at # {}
  <2>1. at \in SUBSET Nat /\ IsFiniteSet(at)
    <3>1. IsFiniteSet(1 .. Len(asked)) /\ at \in SUBSET (1 .. Len(asked))
      BY <1>2, FS_Interval
    <3>2. IsFiniteSet(at)
      BY <3>1, FS_Subset
    <3> HIDE DEF at
    <3> QED
      BY <3>1, <3>2
  <2>2. Max(at) \in at
    <3> HIDE DEF at
    <3> QED
      BY <1>3, <2>1, MaxOfSome
  <2>3. Max(at) \in 1 .. Len(asked) /\ texts[asked[Max(at)]] = t
    BY <1>2, <2>2
  <2>4. embs[Max(at)] = Vec(t, CurrentDim)
    BY <2>3 DEF Answers
  <2>5. Vec(t, CurrentDim) \in Entry(t)
    BY VecFacts
  <2>6. ecache'[t] = embs[Max(at)]
    BY <1>1, <1>3
  <2> HIDE DEF at
  <2> QED
    BY <2>4, <2>5, <2>6
<1>4. CASE ~(t \in T /\ at # {})
  BY <1>1, <1>4 DEF EmbedInv, CacheInv
<1> QED
  BY <1>3, <1>4

\* All vectors of a call go to the positions they were asked for; a hit is held if its
\* dimension is theirs, and asked for otherwise.
LEMMA ReturnKeeps ==
    ASSUME EmbedInv, estep = "send", NEW embs, Answers(embs), Len(embs) = Len(asked),
           EmbedReturns(embs), CacheInv', UNCHANGED <<use, texts>>
    PROVE  EmbedInv'
<1> DEFINE placed == [i \in DOMAIN texts |->
                        IF Contains(asked, i) THEN embs[CHOOSE j \in DOMAIN asked : asked[j] = i]
                        ELSE vectors[i]]
           hit(i) == placed[i] = Nowhere /\ i \in DOMAIN looked
           valid == [i \in DOMAIN texts |->
                       IF hit(i) /\ looked[i].dim = embs[1].dim THEN looked[i] ELSE placed[i]]
           bad == {i \in DOMAIN texts : hit(i) /\ looked[i].dim # embs[1].dim}
<1>1. IF bad = {} THEN Done("ok", valid)
      ELSE /\ asked' = Ascending(bad) /\ got' = <<>> /\ vectors' = valid /\ tries' = FreshTries
           /\ UNCHANGED <<estep, looked, verdict>>
  BY DEF EmbedReturns
<1>2. asked \in Seq(DOMAIN texts) /\ DOMAIN asked = 1 .. Len(asked)
  BY DEF EmbedInv, SendInv
<1>3. ASSUME NEW i \in DOMAIN texts
      PROVE  \/ placed[i].of = texts[i] /\ placed[i] # Nowhere
             \/ /\ placed[i] = Nowhere /\ i \in DOMAIN looked /\ looked[i].of = texts[i]
  <2>1. CASE Contains(asked, i)
    <3> DEFINE j == CHOOSE j \in DOMAIN asked : asked[j] = i
    <3>1. j \in 1 .. Len(asked) /\ asked[j] = i
      BY <1>2, <2>1 DEF Contains
    <3>2. placed[i] = embs[j]
      BY <2>1
    <3> HIDE DEF j
    <3>3. embs[j] = Vec(texts[i], CurrentDim)
      BY <3>1 DEF Answers
    <3>4. texts[i] \in EmbedTexts
      BY PositionsAre
    <3>5. /\ Vec(texts[i], CurrentDim) \in Hit(texts[i])
          /\ \A v \in Hit(texts[i]) : v.of = texts[i] /\ v # Nowhere
      BY <3>4, VecFacts
    <3> QED
      BY <3>2, <3>3, <3>5
  <2>2. CASE ~Contains(asked, i)
    <3>1. placed[i] = vectors[i] /\ ~AskedFor(i)
      BY <2>2 DEF AskedFor, Contains
    <3>2. InHand(i)
      BY DEF EmbedInv, SendInv
    <3>3. CASE vectors[i].of = texts[i]
      <4>1. Nowhere.of = "" /\ texts[i] # ""
        BY PositionsAre, VecFacts DEF Nowhere
      <4> QED
        BY <3>1, <3>3, <4>1
    <3>4. CASE vectors[i] = Nowhere /\ i \in DOMAIN looked /\ looked[i] # Nowhere
      <4>1. looked[i] \in Hit(texts[i])
        BY <3>4 DEF EmbedInv
      <4> QED
        BY <3>1, <3>4, <4>1, PositionsAre, VecFacts
    <3> QED
      BY <3>1, <3>2, <3>3, <3>4 DEF InHand
  <2> QED
    BY <2>1, <2>2
<1> HIDE DEF placed
<1>4. \A i \in DOMAIN texts : i \notin bad => valid[i].of = texts[i]
  BY <1>3
<1>5. DOMAIN valid = DOMAIN texts /\ bad \in SUBSET DOMAIN texts
  OBVIOUS
<1> HIDE DEF valid, bad
<1>6. CASE bad = {}
  BY <1>1, <1>4, <1>5, <1>6, DoneKeeps DEF Aligned
<1>7. CASE bad # {}
  <2>1. /\ asked' = Ascending(bad) /\ got' = <<>> /\ vectors' = valid
        /\ UNCHANGED <<estep, looked, verdict>>
    BY <1>1, <1>7
  <2>2. /\ asked' \in Seq(DOMAIN texts) /\ Len(asked') \in Nat \ {0}
        /\ \A i \in bad : AskedFor(i)'
    BY <1>5, <1>7, <2>1, AskSome DEF AskedFor
  <2>3. Len(got') = 0 /\ DOMAIN got' = {} /\ got' \in Seq({Vec(t, CurrentDim) : t \in EmbedTexts})
    BY <2>1
  <2>4. Answers(got)'
    BY <2>3 DEF Answers
  <2>5. \A i \in DOMAIN texts : InHand(i)'
    BY <1>4, <2>1, <2>2 DEF InHand
  <2>6. SendInv'
    BY <1>5, <2>1, <2>2, <2>3, <2>4, <2>5 DEF SendInv
  <2> QED
    BY <2>1, <2>6 DEF EmbedInv
<1> QED
  BY <1>6, <1>7

LEMMA AnsweredStep ==
    ASSUME EmbedInv, estep = "send", NEW r \in try_embed_with_key_using(byte_aware_batch),
           r.kind = "ok", BatchAnswered(r.embs), UNCHANGED <<use, texts>>
    PROVE  EmbedInv'
<1> DEFINE all == got \o r.embs
<1>1. /\ all \in Seq({Vec(t, CurrentDim) : t \in EmbedTexts})
      /\ Answers(all) /\ Len(all) <= Len(asked)
  BY AnswersGrow
<1> HIDE DEF all
<1>2. Len(all) \in Nat /\ Len(asked) \in Nat
  BY <1>1 DEF EmbedInv, SendInv
<1>3. CASE Len(all) < Len(asked)
  <2>1. got' = all /\ UNCHANGED <<ecache, estep, looked, asked, vectors, verdict>>
    BY <1>3 DEF BatchAnswered, all
  <2>2. CacheInv' /\ SendInv'
    BY <1>1, <1>3, <2>1 DEF EmbedInv, CacheInv, SendInv, Answers, InHand, AskedFor
  <2> QED
    BY <2>1, <2>2 DEF EmbedInv
<1>4. CASE ~(Len(all) < Len(asked))
  <2>1. Len(all) = Len(asked)
    BY <1>1, <1>2, <1>4
  <2>2. PICK T : ecache' = put_many(all, T)
    BY <1>4 DEF BatchAnswered, all
  <2>3. EmbedReturns(all)
    BY <1>4 DEF BatchAnswered, all
  <2> QED
    BY <1>1, <2>1, <2>2, <2>3, PutKeeps, ReturnKeeps
<1> QED
  BY <1>3, <1>4

\* Retries and failures leave no vector behind.
LEMMA RetryStep ==
    ASSUME EmbedInv, estep = "send", (\E t : Retry(t)) \/ (\E v \in {"transient", "fatal", "limited"} : Fails(v)),
           UNCHANGED <<use, texts>>
    PROVE  EmbedInv'
<1>1. CacheInv'
  BY DEF Retry, Fails, EmbedInv, CacheInv
<1>2. CASE \E t : Retry(t)
  <2>1. UNCHANGED <<ecache, estep, looked, asked, got, vectors, verdict>>
    BY <1>2 DEF Retry
  <2>2. SendInv'
    BY <2>1 DEF EmbedInv, SendInv, Answers, InHand, AskedFor
  <2> QED
    BY <1>1, <2>1, <2>2 DEF EmbedInv
<1>3. ASSUME NEW v \in {"transient", "fatal", "limited"}, Fails(v) PROVE EmbedInv'
  BY <1>1, <1>3, DoneKeeps DEF Fails
<1> QED
  BY <1>2, <1>3

LEMMA BatchStep == ASSUME EmbedInv, embed_batch \/ embed_query_vector PROVE EmbedInv'
<1>1. estep = "send" /\ UNCHANGED <<use, texts>>
  BY DEF embed_batch, embed_query_vector
<1>2. PICK r \in try_embed_with_key_using(byte_aware_batch) :
         \/ r.kind = "ok" /\ BatchAnswered(r.embs)
         \/ \E t : Retry(t)
         \/ \E v \in {"transient", "fatal", "limited"} : Fails(v)
  <2>1. CASE embed_batch
    <3>1. BatchTransient =>
             (\E t : Retry(t)) \/ (\E v \in {"transient", "fatal", "limited"} : Fails(v))
      BY DEF BatchTransient
    <3> QED
      BY <2>1, <3>1 DEF embed_batch
  <2>2. CASE embed_query_vector
    <3>1. ASSUME NEW t, QueryNextKey(t)
          PROVE  (\E u : Retry(u)) \/ (\E v \in {"transient", "fatal", "limited"} : Fails(v))
      BY <3>1 DEF QueryNextKey
    <3>2. QueryTransient =>
             (\E t : Retry(t)) \/ (\E v \in {"transient", "fatal", "limited"} : Fails(v))
      BY <3>1 DEF QueryTransient
    <3> QED
      BY <2>2, <3>1, <3>2 DEF embed_query_vector
  <2> QED
    BY <2>1, <2>2
<1> QED
  BY <1>1, <1>2, AnsweredStep, RetryStep

(***************************************************************************)
(* For any texts, any cache, any sizes of batches and any number of keys,  *)
(* retries and other workers: a finished embedding has at position i the   *)
(* vector of text i, and no cache entry holds another text's, however the  *)
(* replies are ordered, cut or doubled (order_embeddings,                  *)
(* embed_parsed_file).                                                     *)
(***************************************************************************)
THEOREM VectorsAligned == ESpec => []EmbeddingsAligned
<1>1. EInit => EmbedInv
  <2> SUFFICES ASSUME EInit PROVE EmbedInv
    OBVIOUS
  <2>1. /\ estep = "start" /\ looked = <<>> /\ got = <<>> /\ verdict = ""
    BY DEF EInit
  <2>2. texts \in Seq(EmbedTexts)
    <3>1. CASE texts \in SeqOf(EmbedTexts, MaxTexts)
      <4>1. PICK m \in 0 .. MaxTexts : texts \in [1 .. m -> EmbedTexts]
        BY <3>1 DEF SeqOf
      <4>2. MaxTexts \in Nat
        BY EmbedConstants
      <4>3. m \in Nat
        BY <4>2
      <4> QED
        BY <4>1, <4>3
    <3>2. CASE \E t \in EmbedTexts : texts = <<t>>
      <4>1. PICK t \in EmbedTexts : texts = <<t>>
        BY <3>2
      <4> QED
        BY <4>1
    <3> QED
      BY <3>1, <3>2 DEF EInit
  <2>3. CacheInv
    BY DEF EInit, CacheInv
  <2>4. Len(looked) = 0 /\ DOMAIN looked = {} /\ DOMAIN looked = 1 .. Len(looked)
    <3>1. looked = <<>>
      BY <2>1
    <3>2. Len(looked) = 0
      BY <3>1
    <3>3. DOMAIN looked = {}
      BY <3>1
    <3>4. DOMAIN looked = 1 .. 0
      BY <3>3
    <3> QED
      BY <3>2, <3>3, <3>4
  <2>5. looked \in Seq({Nowhere} \cup UNION {Hit(t) : t \in EmbedTexts})
    <3> DEFINE H == {Nowhere} \cup UNION {Hit(t) : t \in EmbedTexts}
    <3> HIDE DEF H
    <3>1. <<>> \in Seq(H)
      OBVIOUS
    <3>2. looked = <<>>
      BY <2>1
    <3>3. looked \in Seq(H)
      BY <3>1, <3>2
    <3> QED
      BY <3>3 DEF H
  <2>6. Len(looked) \in 0 .. Len(texts)
    BY <2>2, <2>4
  <2> QED
    BY <2>1, <2>2, <2>3, <2>4, <2>5, <2>6 DEF EmbedInv
<1>2. EmbedInv /\ [ENext]_evars => EmbedInv'
  <2> SUFFICES ASSUME EmbedInv, [ENext]_evars PROVE EmbedInv'
    OBVIOUS
  <2>1. CASE ENext
    BY <2>1, StartStep, LookStep, LookupEndStep, BatchStep, OthersStep DEF ENext
  <2>2. CASE UNCHANGED evars
    BY <2>2 DEF evars, EmbedInv, CacheInv, SendInv, Answers, InHand, AskedFor, Aligned
  <2> QED
    BY <2>1, <2>2
<1>3. EmbedInv => EmbeddingsAligned
  <2> SUFFICES ASSUME EmbedInv PROVE EmbeddingsAligned
    OBVIOUS
  <2>1. \A t \in EmbedTexts : ecache[t].of \in {"", t}
    BY VecFacts DEF EmbedInv, CacheInv
  <2> QED
    BY <2>1 DEF EmbedInv, Aligned, EmbeddingsAligned
<1> QED
  BY <1>1, <1>2, <1>3, PTL DEF ESpec

-----------------------------------------------------------------------------
(* IgnoreApi.  What has to be known of the steps in between: the holder of *)
(* the lock works with the ignored paths as they are; a warm that may      *)
(* still install started after the last eviction; and the stamp of a       *)
(* persisted shard belongs to a set of rows that holds the shard's files   *)
(* and, as long as the epoch is the stamp's, every row there still is.     *)

HandlerSteps == {"page", "mark", "delete", "delete_meta", "bump", "evict", "current", "append",
                 "answer"}
RunSteps == {"run", "run_rows"}

\* Files that may not come back: the promised ones and those the request at
\* work has taken out.
Out == promised \cup IF istep \in HandlerSteps THEN taken ELSE {}

\* The stamp (count, ep) of a shard of these files can be trusted: while the
\* epoch is still ep, rows only went away from the set that was counted.
StampHolds(files, count, ep) ==
    /\ ep <= epoch
    /\ \E base \in SUBSET Paths :
          /\ count = Cardinality(base) /\ files \subseteq base
          /\ ep = epoch => rows \subseteq base /\ istep # "run"

IgnoreTypes ==
    /\ rows \subseteq Paths /\ meta \subseteq Paths /\ epoch \in Nat /\ mut \in Nat
    /\ page \subseteq Paths /\ taken \subseteq Paths
    /\ istep \in {"free"} \cup HandlerSteps \cup RunSteps
    /\ iop \in {"none", "one", "batch"}
    /\ wstep \in {"idle", "stamp", "open", "check", "persist", "install"}
    /\ warm \in [mut : Nat, count : Nat, epoch : Nat, files : SUBSET Paths]
    /\ shard \in [on : BOOLEAN, files : SUBSET Paths]
    /\ current \subseteq [files : SUBSET Paths, count : Nat, epoch : Nat]

\* The mutation epoch tells a warm whether a run or an eviction came after it.
MutationInv ==
    /\ mutating <=> istep \in RunSteps
    /\ wstep # "idle" => warm.mut <= mut /\ (mutating => warm.mut < mut)

\* What is on disk and what the warm is about to put there.
StampInv ==
    /\ \A c \in current : StampHolds(c.files, c.count, c.epoch)
    /\ wstep = "stamp" => warm.files = {}
    /\ wstep \in {"open", "check"} /\ Fresh =>
          /\ warm.epoch <= epoch
          /\ \E base \in SUBSET Paths :
                /\ warm.count = Cardinality(base) /\ rows \subseteq base
                /\ warm.files \subseteq base
    /\ wstep \in {"persist", "install"} => StampHolds(warm.files, warm.count, warm.epoch)

\* The lock holder: a batch marks before it deletes, the single file after; a
\* run keeps out what is marked.
HolderInv ==
    /\ istep \in {"page", "mark"} => iop = "batch"
    /\ istep = "append" => iop = "one"
    /\ istep \in HandlerSteps => iop \in {"one", "batch"}
    /\ istep \in RunSteps \/ (istep \in HandlerSteps /\ iop = "batch") => vec = ignored
    /\ istep \in HandlerSteps /\ iop = "batch" => taken \subseteq ignored
    /\ istep \in {"delete", "delete_meta", "bump", "evict"} /\ iop = "batch" => page \subseteq ignored
    /\ istep \in HandlerSteps /\ iop = "one" => taken \subseteq page
    /\ istep = "answer" => taken \subseteq ignored
    /\ istep \in {"delete_meta", "bump", "evict"} => page \cap rows = {}
    /\ istep = "run_rows" => (Paths \ vec) \ rows \subseteq meta

\* Nothing that is out is in the database, in memory, or on its way there.
OutInv ==
    /\ promised \subseteq ignored
    /\ Out \cap rows = {}
    /\ Out \cap shard.files = {}
    /\ wstep \in {"check", "persist", "install"} /\ Fresh => Out \cap warm.files = {}
    /\ wstep = "open" /\ Fresh => \A c \in Valid : Out \cap c.files = {}

IgnoreInv ==
    /\ IgnoreTypes /\ MutationInv /\ StampInv
    /\ ~blind => HolderInv /\ OutInv /\ MarkerDominates

-----------------------------------------------------------------------------
(* What the steps keep of the stamps and of the mutation epoch.            *)

\* The rows are finitely many: counting them gives a number, and a subset of
\* the rows counted that is as large is all of them.
LEMMA RowsCount ==
  ASSUME NEW S \in SUBSET Paths
  PROVE  /\ IsFiniteSet(S) /\ Cardinality(S) \in Nat
         /\ \A T \in SUBSET S : Cardinality(T) = Cardinality(S) => T = S
<1>1. IsFiniteSet(Paths)
  BY IgnoreAssumption, FS_Interval DEF Paths
<1>2. IsFiniteSet(S)
  BY <1>1, FS_Subset
<1> QED
  BY <1>2, FS_Subset, FS_CardinalityType

\* A stamp holds on: rows go away, or the epoch moves, or the run that moved it
\* writes.
StampKept ==
    /\ epoch' \in Nat
    /\ \/ rows' \subseteq rows /\ epoch' >= epoch /\ istep' # "run"
       \/ epoch' > epoch
       \/ istep = "run" /\ epoch' = epoch

LEMMA StampStays ==
  ASSUME IgnoreTypes, StampKept, NEW files, NEW count, NEW ep \in Nat,
         StampHolds(files, count, ep)
  PROVE  (StampHolds(files, count, ep))'
<1>1. PICK base \in SUBSET Paths :
         /\ count = Cardinality(base) /\ files \subseteq base
         /\ ep = epoch => rows \subseteq base /\ istep # "run"
  BY DEF StampHolds
<1>2. ep <= epoch' /\ epoch \in Nat /\ epoch' \in Nat
  BY DEF StampHolds, StampKept, IgnoreTypes
<1>3. ep = epoch' => rows' \subseteq base /\ istep' # "run"
  BY <1>1, <1>2 DEF StampHolds, StampKept
<1> QED
  BY <1>1, <1>2, <1>3 DEF StampHolds

\* A step of the lock holder, as a warm in flight sees it.
HolderStep ==
    /\ UNCHANGED warmvars /\ current' \subseteq current
    /\ StampKept
    /\ \/ mut' = mut /\ rows' \subseteq rows /\ mutating' = mutating
       \/ mut' = mut + 1
       \/ mutating /\ mutating' /\ mut' = mut
    /\ mutating' <=> istep' \in RunSteps
    /\ mutating' => mutating \/ mut' = mut + 1

LEMMA HolderStamps ==
  ASSUME IgnoreTypes, MutationInv, StampInv, HolderStep
  PROVE  MutationInv' /\ StampInv' /\ (wstep' # "idle" /\ Fresh' => Fresh /\ mut' = mut)
<1> USE DEF IgnoreTypes
<1>1. warm' = warm /\ wstep' = wstep /\ warm.mut \in Nat /\ warm.epoch \in Nat
  BY DEF HolderStep, warmvars
<1>2. MutationInv'
  BY <1>1 DEF MutationInv, HolderStep
<1>3. wstep' # "idle" /\ Fresh' => Fresh /\ mut' = mut /\ rows' \subseteq rows
  BY <1>1 DEF MutationInv, HolderStep, Fresh
<1>4. \A c \in current' : (StampHolds(c.files, c.count, c.epoch))'
  <2> SUFFICES ASSUME NEW c \in current' PROVE (StampHolds(c.files, c.count, c.epoch))'
    OBVIOUS
  <2>1. c \in current /\ c.epoch \in Nat /\ StampHolds(c.files, c.count, c.epoch)
    BY DEF HolderStep, StampInv
  <2> QED
    BY <2>1, StampStays DEF HolderStep
<1>5. wstep' \in {"persist", "install"} => (StampHolds(warm.files, warm.count, warm.epoch))'
  <2> SUFFICES ASSUME wstep \in {"persist", "install"}
               PROVE  (StampHolds(warm.files, warm.count, warm.epoch))'
    BY <1>1
  <2>1. PICK f \in SUBSET Paths, n \in Nat, e \in Nat : f = warm.files /\ n = warm.count /\ e = warm.epoch
    BY <1>1
  <2>2. StampHolds(f, n, e)
    BY <2>1 DEF StampInv
  <2>3. (StampHolds(f, n, e))'
    BY <2>2, StampStays DEF HolderStep
  <2> QED
    BY <1>1, <2>1, <2>3 DEF StampHolds
<1>6. wstep' \in {"open", "check"} /\ Fresh' =>
          /\ warm'.epoch <= epoch'
          /\ \E base \in SUBSET Paths :
                /\ warm'.count = Cardinality(base) /\ rows' \subseteq base
                /\ warm'.files \subseteq base
  <2> SUFFICES ASSUME wstep \in {"open", "check"}, Fresh'
               PROVE  /\ warm.epoch <= epoch'
                      /\ \E base \in SUBSET Paths :
                            /\ warm.count = Cardinality(base) /\ rows' \subseteq base
                            /\ warm.files \subseteq base
    BY <1>1
  <2>1. Fresh /\ rows' \subseteq rows /\ wstep # "idle"
    BY <1>1, <1>3
  <2>2. epoch' >= epoch /\ epoch' \in Nat
    BY DEF HolderStep, StampKept
  <2>3. warm.epoch <= epoch
    BY <2>1 DEF StampInv
  <2>4. PICK base \in SUBSET Paths : warm.count = Cardinality(base) /\ rows \subseteq base
                                     /\ warm.files \subseteq base
    BY <2>1 DEF StampInv
  <2> QED
    BY <1>1, <2>1, <2>2, <2>3, <2>4
<1>7. wstep' = "stamp" => warm'.files = {}
  BY <1>1 DEF StampInv
<1>8. StampInv'
  BY <1>1, <1>4, <1>5, <1>6, <1>7 DEF StampInv
<1> QED
  BY <1>2, <1>3, <1>8

\* A step of the lock holder that takes nothing more out without moving the
\* mutation epoch leaves a warm nothing to bring back.
LEMMA HolderOut ==
  ASSUME IgnoreTypes, MutationInv, StampInv, OutInv, HolderStep,
         promised' \subseteq ignored', Out' \cap rows' = {}, Out' \cap shard'.files = {},
         mut' = mut => Out' \subseteq Out
  PROVE  OutInv'
<1>1. warm' = warm /\ wstep' = wstep /\ current' \subseteq current
  BY DEF HolderStep, warmvars
<1>2. wstep' # "idle" /\ Fresh' => Fresh /\ Out' \subseteq Out
  BY HolderStamps
<1>3. Valid' \subseteq Valid
  BY <1>1 DEF Valid
<1>4. wstep' \in {"check", "persist", "install"} /\ Fresh' => Out' \cap warm'.files = {}
  BY <1>1, <1>2 DEF OutInv
<1>5. wstep' = "open" /\ Fresh' => \A c \in Valid' : Out' \cap c.files = {}
  BY <1>1, <1>2, <1>3 DEF OutInv
<1> QED
  BY <1>4, <1>5 DEF OutInv

\* A read that did not fail is the list.
LEMMA ReadFacts ==
  ASSUME NEW list, ReadIgnored(list)
  PROVE  ~blind' => ~blind /\ list = ignored
BY DEF ReadIgnored

-----------------------------------------------------------------------------
(* The handlers.                                                           *)

\* The beginning of a request.
LEMMA BeginStep ==
  ASSUME IgnoreInv,
         \/ \E f \in Paths : post_ignore_file(f)
         \/ \E fs \in SUBSET Paths \ {{}} : post_ignore_files(fs)
  PROVE  IgnoreInv'
<1> USE DEF IgnoreInv
<1>1. /\ UNCHANGED <<dbvars, current, shard, mut, mutating, warmvars, promised, excused>>
      /\ istep = "free" /\ taken' = {} /\ page' \subseteq Paths
      /\ \/ istep' = "delete" /\ iop' = "one" /\ blind' = blind
         \/ /\ istep' = "page" /\ iop' = "batch"
            /\ ~blind' => ~blind /\ vec' = ignored
  <2>1. CASE \E f \in Paths : post_ignore_file(f)
    BY <2>1 DEF post_ignore_file
  <2>2. ASSUME NEW fs \in SUBSET Paths, post_ignore_files(fs)
        PROVE  /\ UNCHANGED <<dbvars, current, shard, mut, mutating, warmvars, promised, excused>>
               /\ istep = "free" /\ taken' = {} /\ page' = {}
               /\ istep' = "page" /\ iop' = "batch"
               /\ ~blind' => ~blind /\ vec' = ignored
    <3>1. PICK list : ReadIgnored(list) /\ vec' = list
      BY <2>2 DEF post_ignore_files
    <3>2. ~blind' => ~blind /\ vec' = ignored
      BY <3>1, ReadFacts
    <3> QED
      BY <2>2, <3>2 DEF post_ignore_files
  <2> QED
    BY <2>1, <2>2
<1>2. IgnoreTypes'
  BY <1>1 DEF IgnoreTypes, dbvars, warmvars, HandlerSteps
<1>3. HolderStep
  BY <1>1 DEF HolderStep, StampKept, IgnoreTypes, MutationInv, RunSteps, dbvars
<1>4. MutationInv' /\ StampInv'
  BY <1>3, HolderStamps
<1>5. ASSUME ~blind'
      PROVE  HolderInv' /\ OutInv' /\ MarkerDominates'
  <2>1. ~blind /\ HolderInv /\ OutInv /\ MarkerDominates
    BY <1>1, <1>5
  <2>2. HolderInv'
    BY <1>1, <1>5 DEF HolderInv, HandlerSteps, RunSteps, dbvars
  <2>3. Out' = promised /\ Out = promised
    BY <1>1 DEF Out, HandlerSteps
  <2>4. OutInv'
    <3>1. /\ promised' \subseteq ignored' /\ Out' \cap rows' = {}
          /\ Out' \cap shard'.files = {} /\ Out' \subseteq Out
      BY <1>1, <2>1, <2>3 DEF OutInv, dbvars
    <3> QED
      BY <1>3, <2>1, <3>1, HolderOut
  <2>5. MarkerDominates'
    BY <1>1, <2>1 DEF MarkerDominates, dbvars
  <2> QED
    BY <2>2, <2>4, <2>5
<1> QED
  BY <1>2, <1>4, <1>5

\* The handler's steps before a page's data goes: the page and its mark.
LEMMA PageStep ==
  ASSUME IgnoreInv, NextPage \/ Mark
  PROVE  IgnoreInv'
<1> USE DEF IgnoreInv
<1>1. CASE NextPage
  <2>1. /\ UNCHANGED <<dbvars, current, shard, mut, mutating, iop, vec, taken, warmvars,
                       promised, excused, blind>>
        /\ istep = "page"
        /\ \/ page' = {} /\ istep' \in {"answer", "current"}
           \/ istep' = "mark"
    BY <1>1 DEF NextPage, After
  <2>2. page' \subseteq meta
    BY <1>1 DEF NextPage, paths_matching_filter_page
  <2>3. IgnoreTypes'
    BY <2>1, <2>2 DEF IgnoreTypes, dbvars, warmvars, HandlerSteps
  <2>4. HolderStep
    BY <2>1 DEF HolderStep, StampKept, IgnoreTypes, MutationInv, RunSteps, dbvars
  <2>5. MutationInv' /\ StampInv'
    BY <2>4, HolderStamps
  <2>6. ASSUME ~blind
        PROVE  HolderInv' /\ OutInv' /\ MarkerDominates'
    <3>1. HolderInv'
      BY <2>1, <2>6 DEF HolderInv, HandlerSteps, RunSteps, dbvars
    <3>2. Out' = Out
      BY <2>1 DEF Out, HandlerSteps
    <3>3. /\ promised' \subseteq ignored' /\ Out' \cap rows' = {}
          /\ Out' \cap shard'.files = {} /\ Out' \subseteq Out
      BY <2>1, <2>6, <3>2 DEF OutInv, dbvars
    <3>4. OutInv'
      BY <2>4, <2>6, <3>3, HolderOut
    <3>5. MarkerDominates'
      BY <2>1, <2>6 DEF MarkerDominates, dbvars
    <3> QED
      BY <3>1, <3>4, <3>5
  <2> QED
    BY <2>1, <2>3, <2>5, <2>6
<1>2. CASE Mark
  <2>1. /\ UNCHANGED <<rows, meta, epoch, current, shard, mut, mutating, iop, page,
                       taken, warmvars, promised, excused, blind>>
        /\ istep = "mark" /\ istep' = "delete" /\ vec' = vec \cup page
        /\ ignored' = IF page \subseteq vec THEN ignored ELSE vec'
    BY <1>2 DEF Mark, After
  <2>2. IgnoreTypes'
    BY <2>1 DEF IgnoreTypes, warmvars, HandlerSteps
  <2>3. HolderStep
    BY <2>1 DEF HolderStep, StampKept, IgnoreTypes, MutationInv, RunSteps
  <2>4. MutationInv' /\ StampInv'
    BY <2>3, HolderStamps
  <2>5. ASSUME ~blind
        PROVE  HolderInv' /\ OutInv' /\ MarkerDominates'
    <3>1. vec = ignored /\ iop = "batch"
      BY <2>1, <2>5 DEF HolderInv, HandlerSteps
    <3>2. ignored' = ignored \cup page /\ vec' = ignored'
      BY <2>1, <3>1
    <3>3. HolderInv'
      BY <2>1, <2>5, <3>1, <3>2 DEF HolderInv, HandlerSteps, RunSteps
    <3>4. Out' = Out
      BY <2>1 DEF Out, HandlerSteps
    <3>5. /\ promised' \subseteq ignored' /\ Out' \cap rows' = {}
          /\ Out' \cap shard'.files = {} /\ Out' \subseteq Out
      BY <2>1, <2>5, <3>2, <3>4 DEF OutInv
    <3>6. OutInv'
      BY <2>3, <2>5, <3>5, HolderOut
    <3>7. MarkerDominates'
      BY <2>1, <2>5, <3>2 DEF MarkerDominates
    <3> QED
      BY <3>3, <3>6, <3>7
  <2> QED
    BY <2>1, <2>2, <2>4, <2>5
<1> QED
  BY <1>1, <1>2

\* A page's data goes: its rows, its file_meta, the epoch.
LEMMA DeleteStep ==
  ASSUME IgnoreInv, DeleteChunks \/ DeleteMeta \/ bump_index_epoch
  PROVE  IgnoreInv'
<1> USE DEF IgnoreInv
<1>1. /\ UNCHANGED <<ignored, current, shard, mut, mutating, iop, page, vec, taken, warmvars,
                     promised, blind>>
      /\ rows' \subseteq rows /\ meta' \subseteq meta
      /\ \/ /\ istep = "delete" /\ istep' = "delete_meta"
            /\ rows' = rows \ page /\ meta' = meta /\ epoch' = epoch
            /\ excused' = IF iop = "one" THEN excused \cup page ELSE excused
         \/ /\ istep = "delete_meta" /\ istep' = "bump"
            /\ rows' = rows /\ epoch' = epoch /\ excused' = excused
         \/ /\ istep = "bump" /\ istep' = "evict"
            /\ rows' = rows /\ meta' = meta /\ epoch' \in {epoch, epoch + 1} /\ excused' = excused
  <2>1. CASE DeleteChunks
    BY <2>1 DEF DeleteChunks, reqvars
  <2>2. CASE DeleteMeta
    BY <2>2 DEF DeleteMeta, reqvars, After
  <2>3. CASE bump_index_epoch
    BY <2>3 DEF bump_index_epoch, reqvars, After
  <2> QED
    BY <2>1, <2>2, <2>3
<1>2. epoch' \in Nat /\ epoch' >= epoch
  BY <1>1 DEF IgnoreTypes
<1>3. IgnoreTypes'
  BY <1>1, <1>2 DEF IgnoreTypes, warmvars, HandlerSteps
<1>4. HolderStep
  BY <1>1, <1>2 DEF HolderStep, StampKept, MutationInv, RunSteps
<1>5. MutationInv' /\ StampInv'
  BY <1>4, HolderStamps
<1>6. ASSUME ~blind
      PROVE  HolderInv' /\ OutInv' /\ MarkerDominates'
  <2>1. HolderInv'
    BY <1>1, <1>6 DEF HolderInv, HandlerSteps, RunSteps
  <2>2. Out' = Out
    BY <1>1 DEF Out, HandlerSteps
  <2>3. /\ promised' \subseteq ignored' /\ Out' \cap rows' = {}
        /\ Out' \cap shard'.files = {} /\ Out' \subseteq Out
    BY <1>1, <1>6, <2>2 DEF OutInv
  <2>4. OutInv'
    BY <1>4, <1>6, <2>3, HolderOut
  <2>5. MarkerDominates'
    <3>1. CASE istep = "delete"
      <4>1. iop = "batch" => page \subseteq ignored
        BY <1>6, <3>1 DEF HolderInv
      <4>2. iop \in {"one", "batch"}
        BY <1>6, <3>1 DEF HolderInv, HandlerSteps
      <4> QED
        BY <1>1, <1>6, <3>1, <4>1, <4>2 DEF MarkerDominates
    <3>2. CASE istep # "delete"
      BY <1>1, <1>6, <3>2 DEF MarkerDominates
    <3> QED
      BY <3>1, <3>2
  <2> QED
    BY <2>1, <2>4, <2>5
<1> QED
  BY <1>1, <1>3, <1>5, <1>6

\* The page leaves the resident shard, and every warm in flight is stale.
LEMMA EvictStep ==
  ASSUME IgnoreInv, Evict
  PROVE  IgnoreInv'
<1> USE DEF IgnoreInv
<1>1. /\ UNCHANGED <<rows, meta, ignored, epoch, current, mutating, iop, page, vec, warmvars,
                     promised, excused, blind>>
      /\ istep = "evict" /\ taken' = taken \cup page /\ mut' = mut + 1
      /\ istep' \in {"page", "current"} /\ (istep' = "page" => iop = "batch")
      /\ shard' = Without(page)
  BY DEF Evict, apply_incremental, dbvars
<1>2. shard' \in [on : BOOLEAN, files : SUBSET Paths] /\ shard'.files = shard.files \ page
  BY <1>1 DEF Without, NoShard, IgnoreTypes
<1>3. IgnoreTypes'
  BY <1>1, <1>2 DEF IgnoreTypes, warmvars, HandlerSteps
<1>4. HolderStep
  BY <1>1 DEF HolderStep, StampKept, MutationInv, RunSteps, IgnoreTypes
<1>5. MutationInv' /\ StampInv'
  BY <1>4, HolderStamps
<1>6. ASSUME ~blind
      PROVE  HolderInv' /\ OutInv' /\ MarkerDominates'
  <2>1. HolderInv'
    BY <1>1, <1>6 DEF HolderInv, HandlerSteps, RunSteps
  <2>2. Out' = Out \cup page
    BY <1>1 DEF Out, HandlerSteps
  <2>3. page \cap rows = {}
    BY <1>1, <1>6 DEF HolderInv
  <2>4. /\ promised' \subseteq ignored' /\ Out' \cap rows' = {}
        /\ Out' \cap shard'.files = {}
    BY <1>1, <1>2, <1>6, <2>2, <2>3 DEF OutInv
  <2>5. mut' # mut
    BY <1>1 DEF IgnoreTypes
  <2>6. OutInv'
    BY <1>4, <1>6, <2>4, <2>5, HolderOut
  <2>7. MarkerDominates'
    BY <1>1, <1>6 DEF MarkerDominates
  <2> QED
    BY <2>1, <2>6, <2>7
<1> QED
  BY <1>1, <1>3, <1>5, <1>6

\* The persisted shard goes, the single file is marked, the request ends.
LEMMA EndStep ==
  ASSUME IgnoreInv, RemoveCurrent \/ AppendMark \/ AnswerOk \/ Abandon
  PROVE  IgnoreInv'
<1> USE DEF IgnoreInv
<1>1. /\ UNCHANGED <<rows, meta, epoch, shard, mut, mutating, iop, page, vec, taken, warmvars,
                     excused>>
      /\ current' \subseteq current
      /\ \/ /\ istep = "current" /\ UNCHANGED <<ignored, promised, blind>>
            /\ istep' = IF iop = "one" THEN "append" ELSE "answer"
         \/ /\ istep = "append" /\ istep' = "answer" /\ promised' = promised
            /\ ~blind' => ~blind /\ ignored' = ignored \cup page
         \/ /\ istep = "answer" /\ istep' = "free" /\ UNCHANGED <<ignored, blind>>
            /\ promised' = promised \cup taken
         \/ /\ istep \in HandlerSteps /\ istep' = "free" /\ UNCHANGED <<ignored, promised, blind>>
  <2>1. CASE RemoveCurrent
    BY <2>1 DEF RemoveCurrent, reqvars, dbvars
  <2>2. CASE AppendMark
    <3>1. PICK list : /\ ReadIgnored(list)
                      /\ ignored' = IF page \subseteq list THEN ignored ELSE list \cup page
      BY <2>2 DEF AppendMark
    <3>2. ~blind' => ~blind /\ ignored' = ignored \cup page
      BY <3>1, ReadFacts
    <3> QED
      BY <2>2, <3>2 DEF AppendMark, reqvars
  <2>3. CASE AnswerOk
    BY <2>3 DEF AnswerOk, reqvars, dbvars
  <2>4. CASE Abandon
    BY <2>4 DEF Abandon, reqvars, dbvars, IgnoreTypes, RunSteps
  <2> QED
    BY <2>1, <2>2, <2>3, <2>4
<1>2. IgnoreTypes'
  BY <1>1 DEF IgnoreTypes, warmvars, HandlerSteps
<1>3. HolderStep
  BY <1>1 DEF HolderStep, StampKept, MutationInv, RunSteps, HandlerSteps, IgnoreTypes
<1>4. MutationInv' /\ StampInv'
  BY <1>3, HolderStamps
<1>5. ASSUME ~blind'
      PROVE  HolderInv' /\ OutInv' /\ MarkerDominates'
  <2>1. ~blind /\ HolderInv /\ OutInv /\ MarkerDominates /\ ignored \subseteq ignored'
    BY <1>1, <1>5
  <2>2. HolderInv'
    BY <1>1, <1>5, <2>1 DEF HolderInv, HandlerSteps, RunSteps
  <2>3. Out' \subseteq Out
    BY <1>1 DEF Out, HandlerSteps
  <2>4. istep = "answer" => taken \subseteq ignored
    BY <2>1 DEF HolderInv
  <2>5. /\ promised' \subseteq ignored' /\ Out' \cap rows' = {}
        /\ Out' \cap shard'.files = {}
    BY <1>1, <2>1, <2>3, <2>4 DEF OutInv
  <2>6. OutInv'
    BY <1>3, <2>1, <2>3, <2>5, HolderOut
  <2>7. MarkerDominates'
    BY <1>1, <2>1 DEF MarkerDominates
  <2> QED
    BY <2>2, <2>6, <2>7
<1> QED
  BY <1>2, <1>4, <1>5

\* A file is restored: what is cut at that moment is excused.
LEMMA UnignoreStep ==
  ASSUME IgnoreInv, NEW f \in Paths, post_unignore_file(f)
  PROVE  IgnoreInv'
<1> USE DEF IgnoreInv
<1>1. /\ UNCHANGED <<rows, meta, epoch, current, shard, mut, mutating, istep, iop, page, vec, taken,
                     warmvars>>
      /\ istep = "free" /\ promised' = promised \ {f}
      /\ excused' = excused \cup (meta \ rows)
  BY DEF post_unignore_file, reqvars
<1>2. PICK list : ReadIgnored(list) /\ ignored' = list \ {f}
  BY DEF post_unignore_file
<1>3. ~blind' => ~blind /\ ignored' = ignored \ {f}
  BY <1>2, ReadFacts
<1>4. IgnoreTypes'
  BY <1>1 DEF IgnoreTypes, warmvars
<1>5. HolderStep
  BY <1>1 DEF HolderStep, StampKept, MutationInv, RunSteps, IgnoreTypes
<1>6. MutationInv' /\ StampInv'
  BY <1>5, HolderStamps
<1>7. ASSUME ~blind'
      PROVE  HolderInv' /\ OutInv' /\ MarkerDominates'
  <2>1. ~blind /\ HolderInv /\ OutInv
    BY <1>3, <1>7
  <2>2. HolderInv'
    BY <1>1 DEF HolderInv, HandlerSteps, RunSteps
  <2>3. Out = promised /\ Out' = promised \ {f}
    BY <1>1 DEF Out, HandlerSteps
  <2>4. /\ promised' \subseteq ignored' /\ Out' \cap rows' = {}
        /\ Out' \cap shard'.files = {} /\ Out' \subseteq Out
    BY <1>1, <1>3, <1>7, <2>1, <2>3 DEF OutInv
  <2>5. OutInv'
    BY <1>5, <2>1, <2>4, HolderOut
  <2>6. MarkerDominates'
    BY <1>1 DEF MarkerDominates
  <2> QED
    BY <2>2, <2>5, <2>6
<1> QED
  BY <1>4, <1>6, <1>7

-----------------------------------------------------------------------------
(* Index runs.                                                             *)

\* A run reads the marks, moves the epoch and keeps out what is marked.
LEMMA RunStep ==
  ASSUME IgnoreInv, RunBegins \/ RunWrites \/ RunPublishes
  PROVE  IgnoreInv'
<1> USE DEF IgnoreInv
<1>1. CASE RunBegins
  <2>1. /\ UNCHANGED <<rows, meta, ignored, current, shard, iop, page, taken, warmvars, promised,
                       excused>>
        /\ istep = "free" /\ istep' = "run" /\ epoch' = epoch + 1 /\ mut' = mut + 1
        /\ mutating'
    BY <1>1 DEF RunBegins
  <2>2. PICK list : ReadIgnored(list) /\ vec' = list
    BY <1>1 DEF RunBegins
  <2>3. ~blind' => ~blind /\ vec' = ignored
    BY <2>2, ReadFacts
  <2>4. IgnoreTypes'
    BY <2>1 DEF IgnoreTypes, warmvars, RunSteps
  <2>5. HolderStep
    BY <2>1 DEF HolderStep, StampKept, RunSteps, IgnoreTypes
  <2>6. MutationInv' /\ StampInv'
    BY <2>5, HolderStamps
  <2>7. ASSUME ~blind'
        PROVE  HolderInv' /\ OutInv' /\ MarkerDominates'
    <3>1. ~blind /\ HolderInv /\ OutInv /\ MarkerDominates
      BY <2>3, <2>7
    <3>2. HolderInv'
      BY <2>1, <2>3, <2>7 DEF HolderInv, HandlerSteps, RunSteps
    <3>3. Out = promised /\ Out' = promised
      BY <2>1 DEF Out, HandlerSteps
    <3>4. /\ promised' \subseteq ignored' /\ Out' \cap rows' = {}
          /\ Out' \cap shard'.files = {} /\ Out' \subseteq Out
      BY <2>1, <3>1, <3>3 DEF OutInv
    <3>5. OutInv'
      BY <2>5, <3>1, <3>4, HolderOut
    <3>6. MarkerDominates'
      BY <2>1, <3>1 DEF MarkerDominates
    <3> QED
      BY <3>2, <3>5, <3>6
  <2> QED
    BY <2>4, <2>6, <2>7
<1>2. CASE RunWrites
  <2>1. /\ UNCHANGED <<ignored, epoch, current, shard, mut, mutating, iop, page, vec, taken, warmvars,
                       promised, excused, blind>>
        /\ istep = "run" /\ istep' = "run_rows"
        /\ rows' = {f \in Paths \ vec : f \in meta => f \in rows} /\ meta' = meta \ vec
    BY <1>2 DEF RunWrites, reqvars
  <2>2. IgnoreTypes'
    BY <2>1 DEF IgnoreTypes, warmvars, RunSteps
  <2>3. HolderStep
    BY <2>1 DEF HolderStep, StampKept, RunSteps, IgnoreTypes, MutationInv
  <2>4. MutationInv' /\ StampInv'
    BY <2>3, HolderStamps
  <2>5. ASSUME ~blind
        PROVE  HolderInv' /\ OutInv' /\ MarkerDominates'
    <3>1. vec = ignored
      BY <2>1, <2>5 DEF HolderInv, RunSteps
    <3>2. HolderInv'
      BY <2>1, <3>1 DEF HolderInv, HandlerSteps, RunSteps
    <3>3. Out = promised /\ Out' = promised
      BY <2>1 DEF Out, HandlerSteps
    <3>4. /\ promised' \subseteq ignored' /\ Out' \cap rows' = {}
          /\ Out' \cap shard'.files = {} /\ Out' \subseteq Out
      BY <2>1, <2>5, <3>1, <3>3 DEF OutInv
    <3>5. OutInv'
      BY <2>3, <2>5, <3>4, HolderOut
    <3>6. MarkerDominates'
      BY <2>1, <2>5, <3>1 DEF MarkerDominates, IgnoreTypes
    <3> QED
      BY <3>2, <3>5, <3>6
  <2> QED
    BY <2>1, <2>2, <2>4, <2>5
<1>3. CASE RunPublishes
  <2>1. /\ UNCHANGED <<rows, ignored, epoch, iop, page, vec, taken, warmvars, promised, excused, blind>>
        /\ istep = "run_rows" /\ istep' = "free" /\ meta' = Paths \ vec
        /\ shard' = IF shard.on /\ rows # {} THEN [on |-> TRUE, files |-> rows] ELSE NoShard
        /\ mut' = mut + 1 /\ ~mutating' /\ current' = {}
    BY <1>3 DEF RunPublishes, reqvars
  <2>2. shard' \in [on : BOOLEAN, files : SUBSET Paths] /\ shard'.files \subseteq rows
    BY <2>1 DEF NoShard, IgnoreTypes
  <2>3. IgnoreTypes'
    BY <2>1, <2>2 DEF IgnoreTypes, warmvars
  <2>4. HolderStep
    BY <2>1 DEF HolderStep, StampKept, RunSteps, IgnoreTypes
  <2>5. MutationInv' /\ StampInv'
    BY <2>4, HolderStamps
  <2>6. ASSUME ~blind
        PROVE  HolderInv' /\ OutInv' /\ MarkerDominates'
    <3>1. vec = ignored /\ (Paths \ vec) \ rows \subseteq meta
      BY <2>1, <2>6 DEF HolderInv, RunSteps
    <3>2. HolderInv'
      BY <2>1 DEF HolderInv, HandlerSteps, RunSteps
    <3>3. Out = promised /\ Out' = promised
      BY <2>1 DEF Out, HandlerSteps, RunSteps
    <3>4. /\ promised' \subseteq ignored' /\ Out' \cap rows' = {}
          /\ Out' \cap shard'.files = {} /\ Out' \subseteq Out
      BY <2>1, <2>2, <2>6, <3>3 DEF OutInv
    <3>5. OutInv'
      BY <2>4, <2>6, <3>4, HolderOut
    <3>6. MarkerDominates'
      BY <2>1, <2>6, <3>1 DEF MarkerDominates
    <3> QED
      BY <3>2, <3>5, <3>6
  <2> QED
    BY <2>1, <2>3, <2>5, <2>6
<1> QED
  BY <1>1, <1>2, <1>3

-----------------------------------------------------------------------------
(* Warms.                                                                  *)

\* What no step of a warm touches.
WarmFrame == UNCHANGED <<dbvars, mut, mutating, istep, reqvars, promised, excused, blind>>

LEMMA WarmKeeps ==
  ASSUME WarmFrame
  PROVE  /\ Out' = Out
         /\ HolderInv => HolderInv'
         /\ MarkerDominates => MarkerDominates'
         /\ \A f, n, e : StampHolds(f, n, e) => (StampHolds(f, n, e))'
<1> USE DEF WarmFrame, dbvars, reqvars
<1>1. Out' = Out
  BY DEF Out
<1>2. HolderInv => HolderInv'
  BY DEF HolderInv
<1>3. MarkerDominates => MarkerDominates'
  BY DEF MarkerDominates
<1>4. \A f, n, e : StampHolds(f, n, e) => (StampHolds(f, n, e))'
  BY DEF StampHolds
<1> QED
  BY <1>1, <1>2, <1>3, <1>4

\* The warm begins and reads the stamp of the database: a persisted shard with
\* that stamp holds files that still have rows.
LEMMA WarmBeginStep ==
  ASSUME IgnoreInv, WarmBegins \/ WarmStamps
  PROVE  IgnoreInv'
<1> USE DEF IgnoreInv
<1>1. CASE WarmBegins
  <2>1. /\ WarmFrame /\ UNCHANGED <<current, shard>>
        /\ ~mutating /\ wstep' = "stamp" /\ warm' = [mut |-> mut, count |-> 0, epoch |-> 0, files |-> {}]
    BY <1>1 DEF WarmBegins, WarmFrame
  <2>2. IgnoreTypes'
    BY <2>1 DEF IgnoreTypes, WarmFrame, dbvars, reqvars
  <2>3. MutationInv'
    BY <2>1 DEF MutationInv, WarmFrame, IgnoreTypes
  <2>4. StampInv'
    BY <2>1, WarmKeeps DEF StampInv
  <2>5. ~blind => OutInv'
    BY <2>1, WarmKeeps DEF OutInv, WarmFrame, dbvars
  <2> QED
    BY <2>1, <2>2, <2>3, <2>4, <2>5, WarmKeeps DEF WarmFrame
<1>2. CASE WarmStamps
  <2>1. /\ WarmFrame /\ UNCHANGED <<current, shard>> /\ wstep = "stamp"
        /\ warm' = [warm EXCEPT !.count = Cardinality(rows), !.epoch = epoch]
        /\ wstep' = IF rows = {} THEN "idle" ELSE "open"
    BY <1>2 DEF WarmStamps, WarmFrame
  <2>2. /\ warm' \in [mut : Nat, count : Nat, epoch : Nat, files : SUBSET Paths]
        /\ warm'.count = Cardinality(rows) /\ warm'.epoch = epoch /\ warm'.mut = warm.mut
        /\ warm'.files = warm.files
    BY <2>1, RowsCount DEF IgnoreTypes
  <2>3. IgnoreTypes'
    BY <2>1, <2>2 DEF IgnoreTypes, WarmFrame, dbvars, reqvars
  <2>4. MutationInv'
    BY <2>1, <2>2 DEF MutationInv, WarmFrame
  <2>5. StampInv'
    <3>1. \A c \in current' : (StampHolds(c.files, c.count, c.epoch))'
      BY <2>1, WarmKeeps DEF StampInv
    <3>2. rows' = rows /\ epoch' = epoch /\ epoch \in Nat /\ rows \in SUBSET Paths
      BY <2>1 DEF WarmFrame, dbvars, IgnoreTypes
    <3>3. warm'.files = {}
      BY <2>1, <2>2 DEF StampInv
    <3>4. /\ warm'.epoch <= epoch'
          /\ \E base \in SUBSET Paths :
                /\ warm'.count = Cardinality(base) /\ rows' \subseteq base
                /\ warm'.files \subseteq base
      BY <2>2, <3>2, <3>3
    <3>5. wstep' \in {"idle", "open"}
      BY <2>1
    <3> QED
      BY <3>1, <3>4, <3>5 DEF StampInv
  <2>6. ASSUME ~blind
        PROVE  OutInv'
    <3>1. ASSUME NEW c \in Valid', Fresh'
          PROVE  Out \cap c.files = {}
      <4>1. c \in current /\ c.count = Cardinality(rows) /\ c.epoch = epoch
        BY <2>1, <2>2 DEF Valid
      <4>2. PICK base \in SUBSET Paths :
               /\ c.count = Cardinality(base) /\ c.files \subseteq base /\ rows \subseteq base
        BY <4>1 DEF StampInv, StampHolds
      <4>3. rows \in SUBSET base /\ Cardinality(rows) = Cardinality(base)
        BY <4>1, <4>2
      <4>4. rows = base
        BY <4>3, RowsCount
      <4> QED
        BY <2>6, <4>2, <4>4 DEF OutInv
    <3> QED
      BY <2>1, <2>6, <3>1, WarmKeeps DEF OutInv, WarmFrame, dbvars
  <2> QED
    BY <2>1, <2>3, <2>4, <2>5, <2>6, WarmKeeps DEF WarmFrame
<1> QED
  BY <1>1, <1>2

\* The warm installs a persisted shard whose stamp is the database's, or reads
\* the rows.
LEMMA WarmOpenStep ==
  ASSUME IgnoreInv, WarmOpens
  PROVE  IgnoreInv'
<1> USE DEF IgnoreInv
<1>1. WarmFrame /\ wstep = "open" /\ current' = current
  BY DEF WarmOpens, WarmFrame
<1>2. ASSUME NEW c \in Valid, shard' = IF Fresh THEN [on |-> TRUE, files |-> c.files] ELSE shard,
             wstep' = "idle", warm' = warm
      PROVE  IgnoreInv'
  <2>1. IgnoreTypes'
    BY <1>1, <1>2 DEF IgnoreTypes, WarmFrame, dbvars, reqvars, Valid
  <2>2. MutationInv' /\ StampInv'
    BY <1>1, <1>2, WarmKeeps DEF MutationInv, StampInv, WarmFrame
  <2>3. ASSUME ~blind
        PROVE  OutInv'
    <3>1. Fresh => Out \cap c.files = {}
      BY <1>1, <2>3 DEF OutInv
    <3>2. Out \cap shard'.files = {}
      BY <1>2, <2>3, <3>1 DEF OutInv
    <3> QED
      BY <1>1, <1>2, <2>3, <3>2, WarmKeeps DEF OutInv, WarmFrame, dbvars
  <2> QED
    BY <1>1, <2>1, <2>2, <2>3, WarmKeeps DEF WarmFrame
<1>3. ASSUME warm' = [warm EXCEPT !.files = rows], wstep' = IF rows = {} THEN "idle" ELSE "check",
             shard' = shard
      PROVE  IgnoreInv'
  <2>1. /\ warm' \in [mut : Nat, count : Nat, epoch : Nat, files : SUBSET Paths]
        /\ warm'.count = warm.count /\ warm'.epoch = warm.epoch /\ warm'.mut = warm.mut
        /\ warm'.files = rows
    BY <1>3 DEF IgnoreTypes
  <2>2. IgnoreTypes'
    BY <1>1, <1>3, <2>1 DEF IgnoreTypes, WarmFrame, dbvars, reqvars
  <2>3. MutationInv'
    BY <1>1, <1>3, <2>1 DEF MutationInv, WarmFrame
  <2>4. Fresh' => Fresh
    BY <1>1, <2>1 DEF Fresh, WarmFrame
  <2>5. StampInv'
    <3>1. \A c \in current' : (StampHolds(c.files, c.count, c.epoch))'
      BY <1>1, WarmKeeps DEF StampInv
    <3>2. Fresh' => /\ warm'.epoch <= epoch'
                    /\ \E base \in SUBSET Paths :
                          /\ warm'.count = Cardinality(base) /\ rows' \subseteq base
                          /\ warm'.files \subseteq base
      BY <1>1, <2>1, <2>4 DEF StampInv, WarmFrame, dbvars
    <3>3. wstep' \in {"idle", "check"}
      BY <1>3
    <3> QED
      BY <3>1, <3>2, <3>3 DEF StampInv
  <2>6. ~blind => OutInv'
    BY <1>1, <1>3, <2>1, WarmKeeps DEF OutInv, WarmFrame, dbvars
  <2> QED
    BY <1>1, <2>2, <2>3, <2>5, <2>6, WarmKeeps DEF WarmFrame
<1> QED
  BY <1>2, <1>3 DEF WarmOpens, Install

\* The warm checks that it is not stale, persists what it read, installs it,
\* and takes it back if it has become stale meanwhile.
LEMMA WarmEndStep ==
  ASSUME IgnoreInv, WarmChecks \/ WarmPersists \/ WarmInstalls
  PROVE  IgnoreInv'
<1> USE DEF IgnoreInv
<1>1. CASE WarmChecks
  <2>1. /\ WarmFrame /\ wstep = "check" /\ UNCHANGED <<current, shard, warm>>
        /\ wstep' = IF Fresh THEN "persist" ELSE "idle"
    BY <1>1 DEF WarmChecks, WarmFrame
  <2>2. IgnoreTypes'
    BY <2>1 DEF IgnoreTypes, WarmFrame, dbvars, reqvars
  <2>3. MutationInv' /\ (Fresh' <=> Fresh)
    BY <2>1 DEF MutationInv, WarmFrame, Fresh
  <2>4. StampInv'
    <3>1. \A c \in current' : (StampHolds(c.files, c.count, c.epoch))'
      BY <2>1, WarmKeeps DEF StampInv
    <3>2. ASSUME Fresh
          PROVE  (StampHolds(warm.files, warm.count, warm.epoch))'
      <4>1. PICK base \in SUBSET Paths : /\ warm.count = Cardinality(base) /\ rows \subseteq base
                                         /\ warm.files \subseteq base
        BY <2>1, <3>2 DEF StampInv
      <4>2. warm.epoch <= epoch
        BY <2>1, <3>2 DEF StampInv
      <4>3. istep # "run"
        BY <3>2 DEF Fresh, MutationInv, RunSteps
      <4> QED
        BY <2>1, <4>1, <4>2, <4>3 DEF StampHolds, WarmFrame, dbvars
    <3> QED
      BY <2>1, <3>1, <3>2 DEF StampInv
  <2>5. ~blind => OutInv'
    BY <2>1, <2>3, WarmKeeps DEF OutInv, WarmFrame, dbvars
  <2> QED
    BY <2>1, <2>2, <2>3, <2>4, <2>5, WarmKeeps DEF WarmFrame
<1>2. CASE WarmPersists
  <2>1. /\ WarmFrame /\ wstep = "persist" /\ wstep' = "install" /\ UNCHANGED <<shard, warm>>
        /\ current' = {Own} \/ current' = current
    BY <1>2 DEF WarmPersists, WarmFrame
  <2>2. IgnoreTypes'
    BY <2>1 DEF IgnoreTypes, WarmFrame, dbvars, reqvars, Own
  <2>3. MutationInv' /\ (Fresh' <=> Fresh)
    BY <2>1 DEF MutationInv, WarmFrame, Fresh
  <2>4. StampInv'
    <3>1. StampHolds(warm.files, warm.count, warm.epoch)
      BY <2>1 DEF StampInv
    <3>2. (StampHolds(warm.files, warm.count, warm.epoch))'
      BY <2>1, <3>1 DEF StampHolds, WarmFrame, dbvars
    <3>3. \A c \in current : (StampHolds(c.files, c.count, c.epoch))'
      BY <2>1, WarmKeeps DEF StampInv
    <3>4. Own.files = warm'.files /\ Own.count = warm'.count /\ Own.epoch = warm'.epoch
      BY <2>1 DEF Own
    <3>5. \A c \in current' : (StampHolds(c.files, c.count, c.epoch))'
      BY <2>1, <3>2, <3>3, <3>4 DEF StampHolds
    <3> QED
      BY <2>1, <3>2, <3>5 DEF StampInv
  <2>5. ~blind => OutInv'
    BY <2>1, <2>3, WarmKeeps DEF OutInv, WarmFrame, dbvars
  <2> QED
    BY <2>1, <2>2, <2>3, <2>4, <2>5, WarmKeeps DEF WarmFrame
<1>3. CASE WarmInstalls
  <2>1. /\ WarmFrame /\ wstep = "install" /\ wstep' = "idle" /\ warm' = warm
        /\ current' \subseteq current
        /\ shard' = IF Fresh THEN [on |-> TRUE, files |-> warm.files] ELSE shard
    BY <1>3 DEF WarmInstalls, WarmFrame, Install
  <2>2. IgnoreTypes'
    BY <2>1 DEF IgnoreTypes, WarmFrame, dbvars, reqvars
  <2>3. MutationInv' /\ StampInv'
    BY <2>1, WarmKeeps DEF MutationInv, StampInv, WarmFrame
  <2>4. ASSUME ~blind
        PROVE  OutInv'
    <3>1. Out \cap shard'.files = {}
      BY <2>1, <2>4 DEF OutInv
    <3> QED
      BY <2>1, <2>4, <3>1, WarmKeeps DEF OutInv, WarmFrame, dbvars
  <2> QED
    BY <2>1, <2>2, <2>3, <2>4, WarmKeeps DEF WarmFrame
<1> QED
  BY <1>1, <1>2, <1>3

\* A restart forgets the resident shard, the requests and the warms.
LEMMA CrashStep ==
  ASSUME IgnoreInv, Crash
  PROVE  IgnoreInv'
<1> USE DEF IgnoreInv
<1>1. /\ UNCHANGED <<rows, meta, ignored, epoch, current, iop, page, vec, taken, warm, promised,
                     excused, blind>>
      /\ shard' = NoShard /\ mut' = 0 /\ ~mutating' /\ istep' = "free" /\ wstep' = "idle"
  BY DEF Crash, dbvars, reqvars
<1>2. IgnoreTypes'
  BY <1>1 DEF IgnoreTypes, NoShard
<1>3. MutationInv'
  BY <1>1 DEF MutationInv, RunSteps
<1>4. StampInv'
  <2>1. StampKept
    BY <1>1 DEF StampKept, IgnoreTypes
  <2>2. \A c \in current' : (StampHolds(c.files, c.count, c.epoch))'
    <3> SUFFICES ASSUME NEW c \in current PROVE (StampHolds(c.files, c.count, c.epoch))'
      BY <1>1
    <3>1. c.epoch \in Nat /\ StampHolds(c.files, c.count, c.epoch)
      BY DEF StampInv, IgnoreTypes
    <3> QED
      BY <2>1, <3>1, StampStays
  <2> QED
    BY <1>1, <2>2 DEF StampInv
<1>5. ASSUME ~blind
      PROVE  HolderInv' /\ OutInv' /\ MarkerDominates'
  <2>1. HolderInv'
    BY <1>1 DEF HolderInv, HandlerSteps, RunSteps
  <2>2. Out' \subseteq Out
    BY <1>1 DEF Out, HandlerSteps
  <2>3. OutInv'
    BY <1>1, <1>5, <2>2 DEF OutInv, NoShard
  <2>4. MarkerDominates'
    BY <1>1, <1>5 DEF MarkerDominates
  <2> QED
    BY <2>1, <2>3, <2>4
<1> QED
  BY <1>1, <1>2, <1>3, <1>4, <1>5

-----------------------------------------------------------------------------
(* The theorems.                                                           *)

\* The invariant the two theorems rest on.
LEMMA IgnoreInvariant == ISpec => []IgnoreInv
<1>1. IInit => IgnoreInv
  <2> SUFFICES ASSUME IInit PROVE IgnoreInv
    OBVIOUS
  <2>0. Cardinality(Paths) = NPaths /\ NPaths \in Nat
    BY IgnoreAssumption, FS_Interval DEF Paths
  <2>1. IgnoreTypes
    <3>1. shard \in [on : BOOLEAN, files : SUBSET Paths]
      <4>1. \/ shard = [on |-> FALSE, files |-> {}]
            \/ shard = [on |-> TRUE, files |-> Paths]
        BY DEF IInit, NoShard
      <4>2. CASE shard = [on |-> FALSE, files |-> {}]
        BY <4>2
      <4>3. CASE shard = [on |-> TRUE, files |-> Paths]
        BY <4>3
      <4> QED
        BY <4>1, <4>2, <4>3
    <3>2. current \subseteq [files : SUBSET Paths, count : Nat, epoch : Nat]
      BY <2>0 DEF IInit
    <3>3. warm \in [mut : Nat, count : Nat, epoch : Nat, files : SUBSET Paths]
      BY DEF IInit
    <3> QED
      BY <3>1, <3>2, <3>3 DEF IInit, IgnoreTypes
  <2>2. MutationInv
    BY DEF IInit, MutationInv, RunSteps
  <2>3. StampInv
    <3>1. \A c \in current : StampHolds(c.files, c.count, c.epoch)
      BY <2>0 DEF IInit, StampHolds
    <3> QED
      BY <3>1 DEF IInit, StampInv
  <2>4. HolderInv
    BY DEF IInit, HolderInv, HandlerSteps, RunSteps
  <2>5. OutInv
    BY DEF IInit, OutInv, Out, HandlerSteps
  <2>6. MarkerDominates
    BY DEF IInit, MarkerDominates
  <2> QED
    BY <2>1, <2>2, <2>3, <2>4, <2>5, <2>6 DEF IgnoreInv
<1>2. IgnoreInv /\ [INext]_ivars => IgnoreInv'
  <2> SUFFICES ASSUME IgnoreInv, [INext]_ivars PROVE IgnoreInv'
    OBVIOUS
  <2>1. CASE INext
    BY <2>1, BeginStep, PageStep, DeleteStep, EvictStep, EndStep, UnignoreStep, RunStep,
       WarmBeginStep, WarmOpenStep, WarmEndStep, CrashStep DEF INext
  <2>2. CASE UNCHANGED ivars
    <3>1. WarmFrame /\ UNCHANGED <<current, shard, wstep, warm>>
      BY <2>2 DEF ivars, WarmFrame, warmvars
    <3>2. IgnoreTypes'
      BY <3>1 DEF IgnoreInv, IgnoreTypes, WarmFrame, dbvars, reqvars
    <3>3. MutationInv' /\ (Fresh' <=> Fresh) /\ Valid' = Valid
      BY <3>1 DEF IgnoreInv, MutationInv, Fresh, Valid, WarmFrame
    <3>4. StampInv'
      BY <3>1, <3>3 DEF IgnoreInv, StampInv, StampHolds, WarmFrame, dbvars
    <3>5. ~blind => OutInv'
      BY <3>1, <3>3, WarmKeeps DEF IgnoreInv, OutInv, WarmFrame, dbvars
    <3> QED
      BY <3>1, <3>2, <3>3, <3>4, <3>5, WarmKeeps DEF IgnoreInv, WarmFrame
  <2> QED
    BY <2>1, <2>2
<1> QED
  BY <1>1, <1>2, PTL DEF ISpec

\* A file whose ignore was answered ok is never searched again, whatever warm,
\* run, restart or abandoned request comes after it (post_ignore_file,
\* post_ignore_files, the mutation epoch of apply_incremental).
THEOREM IgnoredOut == ISpec => []IgnoredStaysOut
<1>1. IgnoreInv => IgnoredStaysOut
  BY DEF IgnoreInv, OutInv, Out, IgnoredStaysOut
<1> QED
  BY <1>1, IgnoreInvariant, PTL

\* A file_meta row that outlives its chunks is marked, at whatever page and
\* step a batch was abandoned or the process died (post_ignore_files).
THEOREM MarkerFirst == ISpec => []MarkerDominates
<1>1. IgnoreInv => MarkerDominates
  BY DEF IgnoreInv, MarkerDominates
<1> QED
  BY <1>1, IgnoreInvariant, PTL

=============================================================================
