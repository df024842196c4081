CONSTANTS
    BasePrice = 7
    Floor = 6
    Ceiling = 9
    LevelSpacing = 2
    SpreadSpacings = 1
    Volatility = 1
    LevelQuantity = {2}
    TradeQuantity = {3}
    CalmTicks = {1}
    PushTicks = {2}
    Depth = 3
    ChurnEvents = 3
    MaxQuantity = 2
SPECIFICATION Spec
INVARIANTS
    LadderIsWhole
    TapeFollowsBook
