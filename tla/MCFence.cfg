SPECIFICATION Spec
CONSTANTS
    Files = {f1, f2}
    Identities = {A}
    NoRow = NoRow
    None = None
    NoShard = NoShard
    NoFile = NoFile
    NoDb = NoDb
    MaxEdits = 1
    MaxRuns = 2
    MaxFaults = 1
    MaxLost = 1
    MaxCrashes = 1
    MaxSwitches = 0
    MaxRemovals = 0
INVARIANTS LiveIsCommitted SnapshotsBehindFence StampSound
CONSTRAINT UnseenAlone
SYMMETRY Symmetry
CHECK_DEADLOCK FALSE
