\* Two callers, one operator's desk, a caution buy and an exit sell.
SPECIFICATION FairSpec
CONSTANTS
    MaxPosition = 100
    MaxOpen = 1
    MinAiScore = 80
    AllocationPct = 5
    CeilingPct = 100
    MaxSlippage = 150
    DepthPct = 5
    RequireTvl = FALSE
    GasCushion = 30
    TradeReserve = 100
    Callers = {c1, c2}
    ApprovalIds = {a1}
    Proposals <- CautionAndExit
    Balances <- Rich
    ObserveOnly = FALSE
    Ttl = 0
    RowWrites = {"ok", "throws"}
    JournalThrows = {TRUE, FALSE}
    MaxRows = 1
INVARIANTS
    HitlHonoured
PROPERTIES
    HaltContainment
    HaltDrains
    ImplementsPermits
