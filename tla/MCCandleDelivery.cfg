CONSTANTS
    Interval = {"short", "long"}
    Width <- MCWidth
    Capacity = 3
    LimitMax = 2
    NoCandle = NoCandle
    MaxStart = 0
    MaxTime = 5
    TradesPerTick = {0, 2}
    Tier = {"full", "minimal"}
    CandlesUpdate <- MCCandlesUpdate
    TradesBatch <- MCTradesBatch
    InitialTier = "minimal"
    None = None
    MaxLag = 1
    MaxCommands = 3
SPECIFICATION Spec
CHECK_DEADLOCK FALSE
INVARIANTS
    CandlesPartitionTrades
    RestAnswersNewest
    SentOnceInOrder
    NewestVersionSurvives
