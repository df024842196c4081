CONSTANTS
    ErrorAfter = 2
    MaxStarts = 2
    MaxNetwork = 2
    Ttl = 1
    MaxStepsBack = 1
    Source = {"trades", "book"}
    MaxPending = 2
    MaxPings = 4
    MaxTime = 3
    TapeLimit = 2
    MaxId = 5
    MaxRun = 2
    MaxBatch = 3
    Registered <- MCRegistered
    Unknown = "delisted"
    MaxStored = 3
    Market = {"BTC", "ETH"}
    Interval = {"1s", "5s"}
    DefaultInterval = "5s"
    Box = {"wide", "narrow"}
    None = None
    MaxLoads = 4
SPECIFICATION MCSpec
CHECK_DEADLOCK FALSE
INVARIANTS
    QuietWhenStopped
    OneSocketAtATime
    SingleUse
    UptimeIsOfThisSocket
    NothingUnpublished
    TapeShowsNewest
    ListIsTheRegistryAsChosen
    PanelIsCurrent
PROPERTIES
    Reconnects
    ReportsTellOfThisLink
