SPECIFICATION MCSpec
CONSTANTS
    None = None
    u1 = u1  u2 = u2  r1 = r1  r2 = r2  r3 = r3  c1 = c1  c2 = c2  c3 = c3  p1 = p1  p2 = p2
    Users = {u1, u2}
    Requests = {r1, r2, r3}
    Calls = {c1, c2, c3}
    Params = {p1}
    UserOf <- TwoUsers
    RequestOf <- OneEach
    OneTimeOnly = TRUE
    Faults = TRUE
SYMMETRY Symmetry
INVARIANTS
    SingleFlight
    EntryIsAwaited
    ReturnedTokenIsStored
    SessionIsNeverTorn
    NewestRefreshTokenIsKept
PROPERTIES
    ImplementsRotation
CHECK_DEADLOCK FALSE
