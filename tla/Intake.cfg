SPECIFICATION HistorySpec
CONSTANTS
    Users = {u1}
    Amounts = {1, 2}
    Payouts = {1}
    Funding = 0
    Tiers = {0}
    MaxTierScan = 256
    Prices = {0, 1, 2}
    ExpectedPrices = {0}
    Slippages = {0}
    PriceScale = 1
    WINDOW_LEDGERS = 2
    DefaultExpiry = 0
    DefaultReset = 2
    InitLimit = 3
    InitMinDeposit = 1
    U32_MAX = 100
    I128_MAX = 7
    U64_MAX = 5
    MaxLedger = 5
    MaxResets = 0
    DelayedFunds = 5
    MaxChanged = 2
    Choices <- IntakeChoices
ACTION_CONSTRAINT IntakeScenario
INVARIANTS
    DepositLimitsHold
PROPERTIES
    DepositWaitsHold
    LargeDepositHolds
