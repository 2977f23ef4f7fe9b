SPECIFICATION TurnsSpec
CONSTANTS
    StonfiPools = {p, q}
    DedustPools = {d, u}
    Listed = {d}
    Rounds = {1, 2}
    MaxMoves = 1
    MaxFaults = 1
PROPERTIES
    ReadingsNeverGoBack
    PricesArrive
CHECK_DEADLOCK FALSE
