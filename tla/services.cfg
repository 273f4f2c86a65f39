SPECIFICATION ServicesSpec
SYMMETRY FlushSymmetry
CHECK_DEADLOCK FALSE

CONSTANTS
    Calls = {"c1", "c2"}
    Providers = {"h", "p"}
    Methods = {"light", "heavy"}
    HeavyMethods = {"heavy"}
    CallMethod <- RpcMethods
    HeavyCalls = {}
    LightOrder <- PublicFirst
    HeavyOrder <- FastFirst
    Unsupported <- AllMethods
    LocalAttempts = 3
    AttemptBudget = 3
    FailureThreshold = 1
    Interval = 1
    Cooldown = 2
    LeaseTime = 2
    Documents <- LeftBehind
    Delays = {0}
    MaxInline = 1
    MaxLost = 1
    NoCall = NoCall

    LiveMints = {"m"}
    LiveLoops = {r1, r2}
    Stake = 5
    Ratios = {80, 100, 130, 200}
    MaxBundles = 3
    NoLoop = NoLoop

    Askers = {a1, a2}
    Tokens = {"t", "u"}
    Tasks = {k1, k2}
    CacheTime = 1
    CacheLimit = 1
    Findings <- Known4
    MinimumLocked = 80
    MinimumLiquidity = 10000
    RouteBLiquidity = 10000
    MaximumDeveloper = 10
    MinimumScore = 70
    Unknown = Unknown
    NoTask = NoTask

    Signals = {s1}
    Rejections = {"REJECT_RISK"}
    QueueLimit = 1
    MaxCrashes = 1
    NoDecision = NoDecision
    NoItem = NoItem

    CodeVersions = {v1, v2}
    MaxSeq = 3
    MaxEpochs = 2
    MaxBorn = 3
    NoSnapshot = NoSnapshot

    Entries = {"b", "c"}
    Early = {}
    Day <- AgeDays
    DayCap = 2
    TradeCap = 1
    KeptEvents = 3
    MaxEvents = 4
    Absent = Absent

    Revisions = {r1, r2, r3}
    Keep = 1
    MaxBackups = 4
    NoRevision = NoRevision

    Flushes = {f1, f2}
    Stages = {"s"}
    Keys = {1, 2}
    MethodKeys = {1}
    RpcCalls <- OneCall
    Bits = {"b"}
    HourBuckets = 1
    MaxBuckets = 2
    MaxHours = 2
    MaxKeys = 1
    MaxTime = 2
    MaxCounts = 2
    MaxFaults = 1
    None = None

    Wallets = {"u", "v"}
    Buys = {"b1", "b2", "b3"}
    BuyerOf <- Buyer
    UnsafeBuyers = {"u"}
    Returns <- LossOrWin
    MaxWallets = 2
    EliteSlots = 1
    TriggerCount = 0
    FeedInterval = 1
    CoolTime = 1
    SampleLimit = 2
    MaxVerdicts = 5
    SafetyBlocks = 2
    MaxStartFaults = 0

INVARIANTS
    ProbesApart
    EveryProviderReached
    UnblamedIsAvailable
    WalletIsBooked
    OneAnalysisPerToken
    EntersOnEvidence
    EvidenceIsWhole
    ObserverIsFaithful
    DeployedCanBeRestored
    CountsAddUp
    RecentBuysJudgedOnce
PROPERTIES
    EpochStartsAtLedger
    ReviewStands
