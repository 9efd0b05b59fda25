SPECIFICATION MCLiveSpec
CHECK_DEADLOCK FALSE
CONSTANTS
    LiveScenes = {"session", "payout", "deposit"}
    MaxSends = 2
    MaxReloads = 1
    MinimalCount = 3
    AutoCount = 5
    Outcomes = {"other"}
    Sessions = {1}
    MaxTransfers = 1
    MaxRestarts = 0
    Banks = {1}
    Accounts = {1}
    Saved <- OneSaved
    MaxDeposits = 1
    MaxTxs = 1
    MaxReopens = 2
    MaxLoads = 1
PROPERTIES
    SpinnerStops
    QueueServed
    PayoutSettles
    SentSettles
