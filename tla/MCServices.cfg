CONSTANTS
    Tasks = {t1, t2}
    NoTask = NoTask
    Descriptors = {d1, d2}
    NoDescriptor = NoDescriptor
    MaxPolls = 1
    CardInterfaces = 1
    CALLS = 2
    s1 = s1
    Registry = Registry
    Configured <- InOrder
    Names = {a}
    Unmanaged = Unmanaged
    MAX_MCP_TOOLS = 2
    MAX_RESOURCE_PAGES = 3
    CALLS_PER_TOOL = 2
    Windows = {w1, w2}
    Runs = {q1}
    Places = {p1, p2}
    NoPlace = NoPlace
    EnvPlace = EnvPlace
    Policies = {l1}
    SAVES = 2
    RESTARTS = 1
    TextChunks <- TextPieces
    ThinkingChunks <- ThinkingPieces
    Indexes = {1, 2}
    Ids = {i1, i2}
    NoId = NoId
    MAX_REQUEST_ATTEMPTS = 2
    MAX_STREAM_PREFLIGHT_ATTEMPTS = 2
    MAX_TOOL_CALLS_PER_TURN = 2
    DELTAS = 3
INIT ServicesInit
NEXT ServicesNext
CHECK_DEADLOCK FALSE
INVARIANTS
    RemoteEffectsAreBounded
    RemoteAnswersAreKept
    McpIsBounded
    SettingsAreCoherent
    StreamIsSound
