\* The store as it is: its upsert always throws.
SPECIFICATION FairSpec
CONSTANTS
    Positions = {p1}
    Jettons = {j}
    Ticks = {t1}
    Confirm = 1
    Deep = {p1}
    UpsertCompiles = FALSE
    HdLowWallet = "undeployed"
    MaxTroubles = 0
    Master <- MCMaster
    Tier <- MCTier
PROPERTIES
    StopsAreServed
