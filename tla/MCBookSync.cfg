CONSTANTS
    Level = {"level"}
    Quantity <- MCQuantity
    MaxSequence = 3
    MaxRestarts = 1
    MaxUplink = 1
    MaxBuffered = 1
SPECIFICATION FairSpec
INVARIANTS
    LocalBookExact
    SessionConsistent
PROPERTIES
    FollowsServer
    Resyncs
