CONSTANTS
    i1 = i1
    i2 = i2
    Interval = {i1, i2}
    None = None
    HistoryLimit = 2
    Trades = 2
    Closings = 1
    MaxSelections = 1
    MaxDisturbances = 0
SPECIFICATION Spec
SYMMETRY MCSymmetry
CHECK_DEADLOCK FALSE
INVARIANT FinalsReachChart
