SPECIFICATION Spec
CONSTANTS
    Users = {u1, u2}
    Amounts = {1, 2}
    Tiers = {0, 2}
    MaxTierScan = 256
    Prices = {1}
    ExpectedPrices = {0}
    Slippages = {0}
    PriceScale = 1
    WINDOW_LEDGERS = 2
    DefaultExpiry = 0
    DefaultReset = 1
    InitLimit = 3
    InitMinDeposit = 1
    U32_MAX = 100
    I128_MAX = 4
    U64_MAX = 3
    MaxLedger = 1
    MaxChanged = 0
    MaxFees = 0
    MaxSurplus = 0
    Choices <- QueueChoices
ACTION_CONSTRAINT QueueScenario
SYMMETRY UserSymmetry
INVARIANTS
    TypeOK
    QueueCoherent
    ReservationsBacked
    SchedulerSound
PROPERTIES
    ImplementsEscrow
