SPECIFICATION MCFairSpec
CONSTANTS
    w1 = w1
    w2 = w2
    w3 = w3
    i1 = i1
    i2 = i2
    Wallets = {w1, w2, w3}
    Ids = {i1}
    NoId = NoId
PROPERTIES
    DroppedWalletStops
    WantedWalletHasEntry
    ShutdownCompletes
