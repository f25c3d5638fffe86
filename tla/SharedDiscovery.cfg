SPECIFICATION MCSpec
CONSTANTS
    None = None
    Callers = {1, 2, 3}
    CacheCallers = {1, 2}
    MaxAttempts = 3
    CacheDuration = 1
    MaxRefreshes = 1
    MaxCalls = 3
    MaxTime = 1
    MaxRotations = 1
    Calls = {1, 2}
    Server <- TheServer
    Addresses <- TheAddresses
    Documents <- TheDocuments
    Policies <- ThePolicies
INVARIANTS
    OneAttemptRuns
    FailuresAreNotKept
    RefreshGetsCurrentKeys
    VerdictsAreRight
CHECK_DEADLOCK FALSE
