SPECIFICATION FairSpec
CONSTANTS
    MaxAttempts = 2
    MaxForeign = 1
    StartBase = 2
    StartQuote = 1
INVARIANTS
    IndInv
    OneInFlight
    ResultsAreTrue
    BuysOnce
PROPERTIES
    AttemptsEnd
