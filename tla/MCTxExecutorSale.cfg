SPECIFICATION Spec
CONSTANTS
    MaxAttempts = 2
    MaxForeign = 1
    StartBase = 2
    StartQuote = 0
INVARIANTS
    SellsWhatItBought
