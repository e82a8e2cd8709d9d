\* Liveness: edits, transient errors and a statement lost unseen, then nothing more
\* goes wrong.
CONSTANTS
    CA = CA  CB = CB  CBin = CBin
    Absent = Absent  None = None
    Generated = {}
    Files <- MCFiles
    Parts <- MCParts
    SymbolsOf <- MCSymbolsOf
    EdgesOf <- MCEdgesOf
    Identities = {"m1"}
    Contents = {CA, CB}
    Binary = {}
    WRITE_BATCH_SIZE = 3
    SYM_BATCH_SIZE = 3
    RAW_EDGE_INSERT_BATCH_SIZE = 3
    IDENTITY_PROBE_SAMPLES = 1
    FallbackMinFiles = 3
    FallbackDivisor = 1
    MaxEdits = 1
    MaxCrashes = 0
    MaxErrors = 2
    MaxFatal = 0
    MaxRequests = 0
    MaxSoftErrors = 0
    MaxLost = 1
    MaxHealErrors = 0
SPECIFICATION FairSpec
PROPERTIES
    EventuallyConverged
CHECK_DEADLOCK FALSE
