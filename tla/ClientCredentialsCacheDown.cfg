SPECIFICATION Spec
CONSTANTS
    None = None
    c1 = c1
    c2 = c2
    c3 = c3
    Calls = {c1, c2}
    Lifetimes = {3}
    CacheLifetimeBuffer = 1
    DefaultCacheLifetime = 2
    UseCacheAutoTuning = FALSE
    CacheFaults = TRUE
    Never = 99
    MaxTime = 1
SYMMETRY Symmetry
INVARIANTS
    ReturnsTokenOrFailure
CHECK_DEADLOCK FALSE
