SPECIFICATION Spec
CONSTANTS
    None = None
    Renders = {r1, r2}
    Threads = {t1}
    Writers = {w1, w2}
    Trackers = {k1}
    Environments <- NoneCounted
    MaxPieces = 1
INVARIANTS
    TextStaysInItsRender
CHECK_DEADLOCK FALSE
