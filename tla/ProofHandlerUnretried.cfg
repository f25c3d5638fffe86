SPECIFICATION Spec
CONSTANTS
    Requests = {r1, r2}
    MaxNonce = 1
INVARIANTS
    RefusalsAreRetried
CHECK_DEADLOCK FALSE
