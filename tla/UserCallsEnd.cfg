SPECIFICATION FairSpec
CONSTANTS
    None = None
    u1 = u1  u2 = u2  r1 = r1  r2 = r2  r3 = r3  c1 = c1  c2 = c2  c3 = c3  p1 = p1  p2 = p2
    Users = {u1}
    Requests = {r1}
    Calls = {c1, c2}
    Params = {p1, p2}
    UserOf <- OneUser
    RequestOf <- AllInOne
    OneTimeOnly = FALSE
    Faults = TRUE
INVARIANTS
    LockGuardsSession
PROPERTIES
    EveryCallEnds
CHECK_DEADLOCK FALSE
