\* Failing statements and embedding calls, cancels, forced rebuilds, a change of the
\* embedding model; one of the contents is binary.  A write whose result the code
\* ignores and a statement whose failure it does not see may fail, and a heal may
\* meet files it cannot read.
CONSTANTS
    CA = CA  CB = CB  CBin = CBin
    Absent = Absent  None = None
    Generated = {}
    Files <- MCFiles
    Parts <- MCParts
    SymbolsOf <- MCSymbolsOf
    EdgesOf <- MCEdgesOf
    Identities = {"m1", "m2"}
    Contents = {CA, CBin}
    Binary = {CBin}
    WRITE_BATCH_SIZE = 3
    SYM_BATCH_SIZE = 3
    RAW_EDGE_INSERT_BATCH_SIZE = 3
    IDENTITY_PROBE_SAMPLES = 1
    FallbackMinFiles = 3
    FallbackDivisor = 1
    MaxEdits = 1
    MaxCrashes = 0
    MaxErrors = 1
    MaxFatal = 1
    MaxRequests = 2
    MaxSoftErrors = 1
    MaxLost = 1
    MaxHealErrors = 1
SPECIFICATION Spec
CONSTRAINT AtMost4
INVARIANTS
    VectorsOneSpace
CHECK_DEADLOCK FALSE
