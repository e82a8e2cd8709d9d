SPECIFICATION Spec
CONSTANTS
    Files = {f1, f2}
    Identities = {A, B}
    NoRow = NoRow
    None = None
    NoShard = NoShard
    NoFile = NoFile
    NoDb = NoDb
    MaxEdits = 0
    MaxRuns = 2
    MaxFaults = 0
    MaxLost = 1
    MaxCrashes = 0
    MaxSwitches = 1
    MaxRemovals = 1
INVARIANTS LiveOneSpace
CONSTRAINT ClearsSeenOnly
SYMMETRY Symmetry
CHECK_DEADLOCK FALSE
