SPECIFICATION MCChatSpec
CHECK_DEADLOCK FALSE
CONSTANTS
    ChatScenes = {"session", "store", "composer", "retry", "assistant", "search", "text", "split", "shell", "messages", "sidebar", "alerts", "banner", "dialogs", "telemetry"}
    MaxSends = 2
    MaxReloads = 1
    MinimalCount = 1
    AutoCount = 2
    Outcomes = {"other", "conversion", "vague"}
    Ids = {1, 2, 3}
    MaxSessions = 2
    MaxEdits = 3
    MaxPages = 3
    BoxSessions = {"s1", "s2"}
    MaxTexts = 3
    MaxAutoRetries = 3
    MaxManual = 3
    MaxMounts = 2
    Messages <- SomeMessages
    ModelAnswers <- SomeAnswers
    MaxAsked = 2
    SearchedHistories <- SomeHistories
    Keywords = {1, 2}
    Wallets = {1}
    Days = {1}
    MaxFilterEdits = 2
    MaxHistoryEdits = 2
    Alphabet = {1, 2, 3, 4}
    Lower <- SomeLower
    MaxText = 3
    Terms <- SomeTerms
    Before = 1
    After = 1
    Threads = {1, 2}
    Bubbles = {1}
    MaxProbes = 2
    MaxSplitMoves = 4
    ShellAccounts = {1, 2}
    ShellAdmin = 2
    MaxShellMoves = 3
    MaxDepthPolls = 2
    MaxFlips = 1
    ListPage = 2
    MaxListed = 5
    HelpCards = {1, 2}
    Notes = {1, 2}
    DedupeMs = 1
    ToastMs = 2
    MaxVisible = 1
    MaxKept = 2
    MaxNow = 4
    MaxRaised = 2
    MaxPayments = 2
    MaxPolls = 2
    MaxDrops = 2
    Modals = {"deposit", "bank", "sheet"}
    Sheet = "sheet"
    Faulty = {"bank"}
    MaxOpenings = 3
    Tabs = {"t1", "t2"}
    Colours = {"light", "dark", "grey"}
    LightText = "light"
    DarkText = "dark"
    Contrast <- SomeContrast
    MinContrast = 4
    MaxEvents = 2
    MaxSwitches = 2
INVARIANTS
    ChatPartsTypeOK
    SpinnerHasRequest
    OneAnswerEach
    HistoryKept
    DraftsFollowUser
    PaymentsAreGrounded
    TextsAreMarkedRight
    ScreenIsCurrent
PROPERTIES
    RecordOutlivesSend
