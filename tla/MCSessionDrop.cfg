SPECIFICATION CacheSpec
CONSTANTS
    s1 = s1
    s2 = s2
    q1 = q1
    q2 = q2
    q3 = q3
    q4 = q4
    NoRequest = NoRequest
    NoObject = NoObject
    Sessions = {s1, s2}
    Requests = {q1, q2, q3}
    SessionOf <- OtherSession
    KindOf <- Kinds
    MAX_ACTIVE_SESSIONS = 2
INVARIANT RunKeepsItsRow
