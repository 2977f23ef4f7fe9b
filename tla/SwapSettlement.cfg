\* Two callers on one jetton, one kind of trouble in each behaviour.
SPECIFICATION FairSpec
CONSTANTS
    Testnet = FALSE
    Callers = {c1, c2}
    Tokens = {t}
    StonfiTokens = {t}
    BuyTon = 10
    ExitReserve = 35
    BankrollFloor = 30
    PoolMinimum = 5
    SellFloor = 35
    Funding = 70
    Rent = 2
    Attempts = 1
    MaxTroubles = 1
    MaxPending = 2
    MaxSettling = 1
    MaxLots = 1
INVARIANTS
    NoPhantomBuy
    NoPhantomSale
PROPERTIES
    CallsReturn
    UnnoticedSaleIsBooked
