SPECIFICATION FairSpec
CONSTANTS
    d1 = d1
    d2 = d2
    Dexes = {d1, d2}
    MaxPairs = 2
INVARIANTS
    IndInv
    FewExecutionsAfterStop
    EveryOpportunityAccounted
PROPERTIES
    ScansEnd
