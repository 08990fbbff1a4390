SPECIFICATION TradingSpec
CONSTANTS
    d1 = d1
    Dexes = {d1}
    MaxPairs = 1
    MaxAttempts = 2
    MaxForeign = 0
    StartBase = 1
    StartQuote = 0
INVARIANTS
    TradingInv
    FewMinedLate
    TradesAreRecorded
CONSTRAINT OneWarning
VIEW Seen
PROPERTIES
    ImplementsLedger
