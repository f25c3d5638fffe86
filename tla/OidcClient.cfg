SPECIFICATION MCSpec
CONSTANTS
    None = None
    Requests = {1, 2}
    Rotates = TRUE
    Faults = TRUE
    MaxExpiries = 1
    Logins = {1, 2}
    Users = {u1, u2}
    MaxKeys = 2
    MaxFaults = 1
    ProofRequests = {1, 2}
    MaxNonce = 2
INVARIANTS
    SpentTokenIsNeverSent
    SavedTokenIsCurrent
    LoginsAreNotMixed
    SessionsSurviveRotation
    SoleRefusalsAreOvercome
PROPERTIES
    RetryCarriesNewerToken
    EveryCallEnds
CHECK_DEADLOCK FALSE
