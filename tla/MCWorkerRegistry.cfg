\* Two requests, two faults of any kind.  Four spawns are the most these can cause,
\* so the bound on elections never holds a request up.
CONSTANTS
    Callers = {r1, r2}
    MaxSpawns = 4
    MaxFaults = 2
    AcquireRounds = 3
    WORKER_LOST_RETRIES = 1
SPECIFICATION FairSpec
INVARIANTS
    ExclusiveOwner
    StraysAreKilled
    IdleExitInvisible
PROPERTIES
    OwnerSpec
    SpawningResolved
    RequestsEnd
CHECK_DEADLOCK FALSE
