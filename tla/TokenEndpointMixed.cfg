SPECIFICATION MCSpec
CONSTANTS
    Logins = {u1}
    Clients = {c1}
    MaxKey = 2
    MaxNonce = 2
    MaxRounds = 2
    Requests = {1, 2}
    Configurations <- TheConfigurations
    Given <- TheGiven
    Application = Application
    None = None
INVARIANTS
    KeysAreKept
    RetriesCanSucceed
    RequestsCanBeSentAgain
CHECK_DEADLOCK FALSE
