CONSTANTS
    Runs = {r1, r2, r3}
    NoRun = NoRun
    NoPlan = NoPlan
    NoRow = NoRow
    BATCHES = 2
    CRASHES = 1
    DROPS = 1
    PLAN_READ_FAILS = TRUE
    Turns <- SomeTurns
    Prompts <- SomePrompts
    SummaryWeights = {1, 3}
    RESERVED = 1
    TRIGGER = 9
    TARGET = 8
    WALL = 10
    MIN_CHUNK = 2
    MAX_SUMMARY = 3
    PASS_CAP = 3
    MAX_LOG = 6
    RESTARTS = 1
SYMMETRY Symmetry
INIT TranscriptInit
NEXT TranscriptNext
CHECK_DEADLOCK FALSE
INVARIANTS
    TypeOK
    DurablePrefix
    RunsAreAccountedFor
    PlansAreDurable
    CompactionIsSound
