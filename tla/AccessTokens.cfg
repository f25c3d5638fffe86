SPECIFICATION MCSpec
CONSTANTS
    None = None
    r1 = r1  r2 = r2  a1 = a1  a2 = a2
    Requests = {r1, r2}
    Apis = {a1, a2}
    MaxIssued = 3
    MaxNonce = 1
    Resources = {api1, api2}
    Schemes = {s1, s2}
    Scoped = TRUE
    SignedIn = TRUE
    MaxSets = 3
SYMMETRY Symmetry
INVARIANTS
    OneProofPerToken
    RetryUsesSuppliedNonce
    DeniedTokensAreRenewed
PROPERTIES
    SharedItemsLastAsNeeded
CHECK_DEADLOCK FALSE
