CONSTANTS
    i1 = i1
    i2 = i2
    Interval = {i1, i2}
    None = None
    HistoryLimit = 1
    Trades = 2
    Closings = 1
    MaxSelections = 2
    MaxDisturbances = 2
SPECIFICATION Spec
SYMMETRY MCSymmetry
CHECK_DEADLOCK FALSE
INVARIANTS
    ChartInStep
    OneScope
PROPERTIES
    NeverGoesBack
