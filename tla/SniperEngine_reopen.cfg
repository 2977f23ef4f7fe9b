\* A row the operator closes under a running tick: expected to be violated.
SPECIFICATION Spec
CONSTANTS
    Masters = {x, y}
    Scans = {s1}
    Monitors = {k1}
    MaxOpen = 1
    PerTrade = 1
    Gas = 1
    LossLimit = 1
    SellQuotes <- RugOrEven
    MaxCost = 2
    MaxLedger = 3
    MaxDisturbances = 1
PROPERTY RepriceNeverReopens
