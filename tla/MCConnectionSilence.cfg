CONSTANTS
    None = None
    DemoteReports = 3
    PromoteReports = 5
    DemoteOneTier = 3
    ForceMinimal = 6
    HeartbeatTimeout = 9
    CheckEvery = 1
    MaxLate = 1
    Rtt = {0, 1, 2, 3, 4}
    Jitter = {0, 4}
    DebugControls = TRUE
    PerSecond = 2
    CheckedLimits <- MCLimits
    CheckedType = {"ping", "network.report"}
    MaxFrames = 5
    Gap = {0, 1, 2, 4}
    LongestStall = 11
    Calm = 10
    Horizon = 34
    MaxWire = 3
SPECIFICATION MCSpec
PROPERTIES
    DemotionIsConfirmed
