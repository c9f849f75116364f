SPECIFICATION BoundedSpec
CONSTANTS
    r1 = r1
    r2 = r2
    s1 = s1
    c1 = c1
    c2 = c2
    NoRun = NoRun
    Runs = {r1, r2}
    Streams = {r1, r2}
    Sessions = {s1}
    SessionOf <- TwoRuns
    Stops = {c1, c2}
    MAX_RECENT_RUN_CONTROLS = 1
    MAX_PRE_CANCELLED_RUNS = 1
    EVENT_CHANNEL_CAP = 1
INVARIANTS
    TypeOK
    TerminalAfterCleanup
    StopAckAfterRelease
    NoCompletionAfterStop
    EndsAreTold
    ActiveRunIsStoppable
    PreCancelledNeverStarts
    LiveRunOwnsSession
PROPERTIES
    KeepsTheContract
    AbandonedRunEnds
