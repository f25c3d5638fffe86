SPECIFICATION MCSpec
CONSTANTS
    None = None
    Requests = {1, 2, 3}
    CacheDuration = 2
    TokenExpires = 1
    HasExp = TRUE
    Lifetime = 1
    MaxTime = 1
    MaxConcurrent = 2
INVARIANTS
    FailuresAreNotShared
    OneSharedCall
    EntryHasOwner
PROPERTIES
    ExpiredClaimsAreNotServed
    AssertionsAreRenewedOnce
    EveryRequestEnds
CHECK_DEADLOCK FALSE
