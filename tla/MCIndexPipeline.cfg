\* A process death or a failed statement, seen or not, anywhere in a run; the files
\* are edited while the run reads them, and a run is cancelled or a rebuild requested.
CONSTANTS
    CA = CA  CB = CB  CBin = CBin
    Absent = Absent  None = None
    Generated = {}
    Files <- MCFiles
    Parts <- MCParts
    SymbolsOf <- MCSymbolsOf
    EdgesOf <- MCEdgesOf
    Identities = {"m1"}
    Contents = {CA, CB}
    Binary = {}
    WRITE_BATCH_SIZE = 3
    SYM_BATCH_SIZE = 3
    RAW_EDGE_INSERT_BATCH_SIZE = 3
    IDENTITY_PROBE_SAMPLES = 1
    FallbackMinFiles = 3
    FallbackDivisor = 1
    MaxEdits = 2
    MaxCrashes = 1
    MaxErrors = 1
    MaxFatal = 0
    MaxRequests = 1
    MaxSoftErrors = 0
    MaxLost = 1
    MaxHealErrors = 0
SPECIFICATION Spec
CONSTRAINT AtMost3
INVARIANTS
    CommitMarker
    UnchangedMeansCurrent
    CallGraphSound
    QuiescentFresh
CHECK_DEADLOCK FALSE
