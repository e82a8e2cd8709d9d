SPECIFICATION MCSpec
CONSTANTS
    Ranking <- MCRanking
    DocChunks <- MCDocChunks
    Calls <- MCCalls
    Filters <- MCFilters
    top_k = 2
    MaxWorld = 2
    BaseChunks = 1
    max_turns = 1
    max_chunk_chars = 5
    MinIterations = 4
    MaxFormatRetries = 1
    InfoRequests = {"", "a", "b"}
    MaxPool = 3
    MaxCalls = 2
    Files = {1, 2}
    Generated = {1}
    Lines = 4
    Ranks = {1, 2}
    MergeCap = 3
    Pad = 1
    MaxOutput = 9
    FooterReserve = 2
    MaxParts = 3
    NKeys = 2
    MaxFrames = 3
    MaxTurns = 1
    ConvIds = {"c1", "c2"}
    ChatRepos = {"p"}
    ChatTurns = 2
    SearchingTurns = {1}
    MAX_TURNS = 3
    MAX_CONVERSATIONS = 1
    MAX_TURNS_KEPT = 1
    TOOL_CTX_TURNS_KEPT = 1
    MaxToolCalls = 1
    Queries = {"a", "A", "b"}
    Canon <- MCCanon
    LineSizes = {1, 3}
    ToolLines = 4
    READ_MAX_LINES = 3
    READ_MAX_BYTES = 4
    GREP_MAX_MATCHES = 4
    GREP_MAX_PER_FILE = 2
    GREP_MAX_FILES_SCANNED = 2
    GREP_MAX_CONTEXT = 1
    ToolFiles = 3
    DOC_PER_FILE = 4
    DOC_TOTAL = 6
    Marker = 1
INVARIANTS
    EmptySearchSound
    
    AgentLoopSound
    ShapingSound
    
    TurnHonest
    ToolsExact
CHECK_DEADLOCK FALSE
