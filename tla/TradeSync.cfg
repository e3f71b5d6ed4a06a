CONSTANTS
    m1 = m1
    m2 = m2
    Market = {m1, m2}
    Trade <- FourTrades
    Oracle <- TwoEvents
    Ending = {m1}
    BatchSize = 2
    EventBatch = 1
    LastDay = 2
    MaxFaults = 1
SPECIFICATION FairSpec
INVARIANTS
    CountsAreExact
    LatestIsNewest
    ServingMatches
    StatusCoversEvents
PROPERTIES
    CatchesUp
