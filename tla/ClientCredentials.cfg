SPECIFICATION FairSpec
CONSTANTS
    None = None
    c1 = c1
    c2 = c2
    c3 = c3
    Calls = {c1, c2}
    Lifetimes = {1, 3}
    CacheLifetimeBuffer = 1
    DefaultCacheLifetime = 3
    UseCacheAutoTuning = TRUE
    CacheFaults = TRUE
    Never = 99
    MaxTime = 2
PROPERTIES
    ForcedRenewalIsNew
    ReturnsUsableToken
    EveryCallReturns
CHECK_DEADLOCK FALSE
