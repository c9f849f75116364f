CONSTANTS
    Runs = {r1, r2}
    NoRun = NoRun
    NoPlan = NoPlan
    NoRow = NoRow
    BATCHES = 1
    CRASHES = 0
    DROPS = 0
    PLAN_READ_FAILS = FALSE
SYMMETRY Symmetry
SPECIFICATION Spec
CHECK_DEADLOCK FALSE
INVARIANTS
    EvidenceCoversTheRun
