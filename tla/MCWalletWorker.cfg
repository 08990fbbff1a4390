SPECIFICATION FairSpec
INVARIANTS
    IndInv
    StatusMatchesRun
PROPERTIES
    LoopGivesWay
    StopEndsRun
    ScansAgain
    ImplementsLife
