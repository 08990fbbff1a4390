SPECIFICATION Spec
CONSTANTS
    w1 = w1
    w2 = w2
    w3 = w3
    i1 = i1
    i2 = i2
    Wallets = {w1, w2}
    Ids = {i1, i2}
    NoId = NoId
SYMMETRY MCSymmetry
INVARIANTS
    IndInv
    OneWorkerPerWallet
    NoForgottenWorker
    OnlyFailuresKeepEntries
PROPERTIES
    StartsOnlyWhatWasReported
    StopsOnlyWhatWasLeftOut
    ImplementsPool
