SPECIFICATION RequestsSpec
CONSTANTS
    p1 = p1
    p2 = p2
    p3 = p3
    NoRef = NoRef
    Prompts = {p1, p2, p3}
    REVISIONS = 2
    RUNS = 4
    s1 = s1
    s2 = s2
    q1 = q1
    q2 = q2
    q3 = q3
    q4 = q4
    q5 = q5
    NoRequest = NoRequest
    NoObject = NoObject
    Sessions = {s1, s2}
    Requests = {q1, q2, q3, q4, q5}
    SessionOf <- TwoSessions
    KindOf <- Kinds
    MAX_ACTIVE_SESSIONS = 1
INVARIANTS
    TypeOK
    EveryPromptOnce
    LeaseDiscipline
    CacheTypeOK
    OneMutexUnlessDisplaced
    DeletionIsClean
PROPERTIES
    StopSettles
    EveryRequestIsAnswered
