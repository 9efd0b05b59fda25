SPECIFICATION HistorySpec
CONSTANTS
    Users = {u1, u2}
    Amounts = {1, 2, 8}
    Payouts = {1, 2}
    Funding = 8
    Tiers = {0}
    MaxTierScan = 256
    Prices = {1}
    ExpectedPrices = {0}
    Slippages = {0}
    PriceScale = 1
    WINDOW_LEDGERS = 2
    DefaultExpiry = 0
    DefaultReset = 2
    InitLimit = 8
    InitMinDeposit = 1
    U32_MAX = 100
    I128_MAX = 8
    U64_MAX = 1
    MaxLedger = 3
    MaxResets = 1
    DelayedFunds = 0
    MaxChanged = 2
    Choices <- PayoutChoices
ACTION_CONSTRAINT PayoutScenario
SYMMETRY UserSymmetry
INVARIANTS
    BreakerBoundsOutflow
    TripHalts
    QuotaBoundsUser
