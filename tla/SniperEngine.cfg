\* Two scan passes, one monitor tick, one kind of disturbance at a time.
SPECIFICATION FairSpec
CONSTANTS
    Masters = {x, y}
    Scans = {s1, s2}
    Monitors = {k1}
    MaxOpen = 1
    PerTrade = 1
    Gas = 1
    LossLimit = 1
    SellQuotes <- RugOrEven
    MaxCost = 2
    MaxLedger = 3
    MaxDisturbances = 1
INVARIANTS
    ExposureBounded
    DailyLossBounded
    CostBasisKept
    NoDoubleExit
    ParkedStaysParked
PROPERTY PositionsEnd
