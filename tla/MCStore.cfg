SPECIFICATION MCSpec
CONSTANTS
    MaxGen = 1
    MaxMishaps = 1
    NRows = 3
    PageSize = 2
    MaxFaults = 3
    NPaths = 2
    BATCH = 1
    MaxCalls = 3
    MaxTroubles = 2
    EmbedTexts = {"s", "m"}
    Bytes <- MCBytes
    MaxTexts = 3
    EmbedKeyCount = 2
    MAX_BATCH_SIZE = 2
    MAX_BATCH_BYTES = 3
    TRANSIENT_RETRY_LIMIT = 2
    QUERY_TRANSIENT_RETRY = 1
    Sessions = {"s1", "s2"}
    MAX_SESSIONS = 1
    Clients = {1, 2}
    MaxServices = 2
INVARIANTS
    RemovedStaysRemoved
    NothingBeyondFile
    PipelineHandleShared
    OpenMeansMigrated
    IgnoredStaysOut
    MarkerDominates
    EmbeddingsAligned
    SessionSurvives
CHECK_DEADLOCK FALSE
