CONSTANTS
    b1 = b1
    b2 = b2
    Bodies = {b1, b2}
    Items <- ThreeItems
    Ids = {m1, m2}
    Projects = {x1, x2}
    Profile = Profile
    Extractions = {e1}
    Recalls = {c1}
    NoIndex = NoIndex
    MAX_ITEMS = 2
    EDITS = 2
    FAULTS = 0
    Jobs = {j1, j2}
    JobRuns = {r1, r2}
    NoRun = NoRun
    ACTS = 0
    LOSSES = 0
    REBOOTS = 0
    Calls = {w1}
    NoCall = NoCall
    Rooms = {y1}
    Helpers = {h1}
    Shelves = {k1}
    DefaultShelf = proj_default
    NoShelf = NoShelf
    NoHelper = NoHelper
    Editors = {f1, f2}
    Homes = {here, there}
    OUTAGES = 0
    Launches = {a1, a2}
    PORTS = 2
SYMMETRY Symmetry
INIT TablesInit
NEXT TablesNext
CHECK_DEADLOCK FALSE
INVARIANTS
    NoLiveRunIsRepaired
