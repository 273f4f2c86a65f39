SPECIFICATION MonitorSpec
CHECK_DEADLOCK FALSE

CONSTANTS
    Quotes = {q1, q2}
    SlotInterval = 1
    Resets = {0, 3}
    MaxReset = 2
    QuoteAttempts = 2
    NoQuote = NoQuote

    Trades = {"t1"}
    TradeAmount <- Amounts
    TradeDexes <- Programs
    TradeWallets <- Mentioned
    MinTrade = 1
    SingleTrade = 4
    TradeTarget = 5
    TradeWindow = 1
    MaxShadows = 1
    RefreshTime = 2
    ProbeTime = 2
    MaxLists = 1

    Wallets = {"u", "v"}
    Buys = {"b1"}
    BuyerOf <- Buyer
    UnsafeBuyers = {"u"}
    Returns <- LossOrWin
    MaxWallets = 2
    EliteSlots = 1
    TriggerCount = 1
    FeedInterval = 1
    CoolTime = 2
    SampleLimit = 1
    MaxVerdicts = 1
    SafetyBlocks = 2
    MaxStartFaults = 1

    Mints = {"m", "n"}
    Feeds <- Screens
    Strangers = {"x"}
    MinWhales = 1
    MaxSignatures = 2
    EntryCool = 4
    CaptureGap = 2
    ConfirmTime = 1
    FetchTime = 1
    MaxCaptures = 1
    NoMint = NoMint

INVARIANTS
    StopLosesNoSignal
PROPERTIES
    SlotsAreSpaced
    MintsAreSpaced
    ServicesGoOn
