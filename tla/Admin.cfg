SPECIFICATION MCAdminSpec
CHECK_DEADLOCK FALSE
CONSTANTS
    a1 = a1
    a2 = a2
    a3 = a3
    Nobody = Nobody
    Addresses = {a1, a2, a3}
    FirstAdmin = a1
    Signers = {a1, a2, a3}
    Threshold = 2
    TimelockDelay = 2
    MinUpgradeDelay = 1
    Inactivity = 1
    Delays = {1, 2}
    Caps = {0, 1}
    Operations <- SomeOperations
    Batches <- SomeBatches
    LastLedger = 5
    MaxActions = 1
    MaxProposals = 2
    MaxNonce = 2
    MaxSlots = 3
    AdminScenes = {"seat", "signers", "roster", "lists", "migration"}
    Amounts = {5}
    MinTTL = 1
    BatchSizes = {0, 1, 2}
    Cursors = {0, 2, 4, 7}
    CursorMax = 7
    Word = 4
    MaxReceipts = 3
INVARIANTS
    AdminStorageOK
    ListsMatchFlags
    NoneLeftBehind
PROPERTIES
    AuthorityHolds
