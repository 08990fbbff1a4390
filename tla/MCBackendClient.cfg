SPECIFICATION FairSpec
CONSTANTS
    MaxCalls = 2
    MaxRetries = 2
    MaxDelay = 4
    RetryAfters = {3, 9}
INVARIANTS
    IndInv
    ServedAsSent
PROPERTIES
    OrderKeptUnlessLost
    CallsEnd
