SPECIFICATION Spec
CONSTANTS
    Users = {u1}
    Amounts = {1, 2}
    Tiers = {0}
    MaxTierScan = 256
    Prices = {1}
    ExpectedPrices = {0, 1}
    Slippages = {0}
    PriceScale = 1
    WINDOW_LEDGERS = 1
    DefaultExpiry = 0
    DefaultReset = 1
    InitLimit = 3
    InitMinDeposit = 1
    U32_MAX = 100
    I128_MAX = 3
    U64_MAX = 2
    MaxLedger = 2
    MaxChanged = 1
    MaxFees = 1
    MaxSurplus = 1
    Choices <- AllChoices
ACTION_CONSTRAINT TreasuryScenario
PROPERTIES
    BreachRejected
