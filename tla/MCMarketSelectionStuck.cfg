CONSTANTS
    a = a
    b = b
    c = c
    i1 = i1
    i2 = i2
    Symbol = {a, b}
    Interval = {i1, i2}
    None = None
    MaxActions = 2
    MaxSessions = 2
    MaxDisturbances = 0
SPECIFICATION FairSpec
PROPERTIES
    ReachesLive
CHECK_DEADLOCK FALSE
