\* Both engines, and the gates before a swing entry over a grid of proposals and tier states.
\* Averages that remember, so that a fall outlasts the recovery from it, over five prices, the
\* least that the tracker's constructor allows.
SPECIFICATION EntrySpec
CONSTANTS
    Fast = 2
    Slow = 3
    History = 3
    Confirm = 2
    MinObs = 3
    SpikedExtra = 1
    StopConfirm = 2
    Lookback = 2
    AtrMult = 100
    StopPct = 35
    WidenMaxPct = 50
    ArmPct = 10
    DropPct = 15
    EntryGas = 10
    ExitGas = 10
    FeeBp = 60
    MinVerification = 3
    MinCurve = 5000
    MaxCurvePct = 60
    CurveMax = 255000
    MinBuyers = 3
    MinScore = 55
    TargetPct = 100
    Safety = 2
    PerTrade = 300
    PortfolioPct = 100
    SniperMaxOpen = 2
    RouterGas = 10
    DepthSharePct = 2
    MaxImpactPct = 5
    Prices = {45, 90, 115}
    SwingLots = {100}
    Bankrolls = {140, 500}
    Coins <- MCCoins
    Feeds <- MCFeeds
    MaxPosition = 100
    MaxOpen = 2
    MinAiScore = 80
    AllocationPct = 5
    CeilingPct = 100
    MaxSlippage = 150
    DepthPct = 5
    RequireTvl = FALSE
    GasCushion = 30
    TradeReserve = 100
    Proposals <- MCProposals
    Balances <- MCBalances
    ObserveOnly = FALSE
INVARIANTS
    GateIsStricter
    ExitsAreFunded
    LossesAreCut
    WinnersRide
    WicksAreRidden
PROPERTIES
    CapsMonotone
    StaleEnds
