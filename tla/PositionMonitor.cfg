\* Two positions in one jetton of one wallet, one kind of trouble in each behaviour.
SPECIFICATION Spec
CONSTANTS
    Positions = {p1, p2}
    Jettons = {j}
    Ticks = {t1, t2}
    Confirm = 1
    Deep = {p1}
    UpsertCompiles = TRUE
    HdLowWallet = "undeployed"
    MaxTroubles = 1
    Master <- MCMaster
    Tier <- MCTier
INVARIANTS
    NoDoubleBooking
    NothingOrphaned
    
    WatchersCounted
