CONSTANTS
    a = a
    b = b
    c = c
    i1 = i1
    i2 = i2
    Symbol = {a, b, c}
    Interval = {i1, i2}
    None = None
    MaxActions = 2
    MaxSessions = 2
    MaxDisturbances = 2
SPECIFICATION FairSpec
CHECK_DEADLOCK FALSE
INVARIANTS
    LiveMeansSynchronized
    SubscriptionsAgree
    ChartKeepsItsFeed
    ChartSettles
PROPERTIES
    FirstSessionGoesLive
