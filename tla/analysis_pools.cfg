SPECIFICATION AnalysisSpec

CONSTANTS
    Askers = {"a1"}
    Tokens = {"t"}
    Tasks = {"k1"}
    CacheTime = 2
    CacheLimit = 1
    Findings <- HalfKnown
    MinimumLocked = 80
    MinimumLiquidity = 10000
    RouteBLiquidity = 10000
    MaximumDeveloper = 10
    MinimumScore = 70
    Unknown = Unknown
    NoTask = NoTask

INVARIANT EveryMarketLocked
