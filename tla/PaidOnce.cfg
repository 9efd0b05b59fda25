SPECIFICATION MCMoneySpec
CHECK_DEADLOCK FALSE
CONSTANTS
    MoneyScenes = {"payout"}
    Sessions = {1, 2}
    MaxTransfers = 2
    MaxRestarts = 0
    Banks = {1, 2}
    Accounts = {1}
    Saved <- OneSaved
    MaxDeposits = 1
    MaxTxs = 2
    MaxReopens = 2
    MaxLoads = 1
    FormWallets = {1, 2}
    Amounts = {0, 1, 5}
    HighValue = 5
    BridgeLimits = {7}
    MaxFormMoves = 2
    Keys = {1, 2}
    CacheFor = 2
    LockFor = 2
    MaxPriceNow = 7
    MaxAsks = 3
    Currencies = {1, 2}
    MaxTicks = 4
    MaxConverts = 3
    Ips = {1}
    ApiRoutes = {"banks", "verify-account", "create-recipient", "initiate-transfer", "events", "transfer-status"}
    RouteLimit <- OnePerWindow
    WindowMs = 3
    MaxClock = 4
    MaxCalls = 3
    Queries = {1, 2}
    MaxFetches = 3
    MaxRetry = 2
    Entries <- SomeEntries
    Kinds = {"a", "b"}
    PageRows = 2
    MaxDeskMoves = 2
    MaxVersions = 2
    MaxFetched = 3
    Values = {1, 2}
    StrayStatus = 9
    MaxSelects = 2
    MaxEntries = 2
    MaxAdded = 2
    WalletAccounts = {1}
    AdminAccount = 2
    MaxWalletOps = 2
    Places = {"settings", "bank"}
    PeopleMax = 2
    Names = {1}
    Watchable = {1}
    Thresholds = {7}
    MaxVisits = 1
INVARIANT
    PaidOnce
