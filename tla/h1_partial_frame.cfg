CONSTANTS
    LastDay = 1
    TradingDays = {0}
    DayLength = 5
    WindowStart = 1
    AuctionStart = 2
    AuctionEnd = 2
    WindowEnd = 3
    PruneAbove = 1
    KeepLast = 1
    Roles = {"book", "program"}
    Bodies = {b1}
    ForeignBodies = {}
    None = None
    MaxDelay = 1
    Faults = {}
    MaxFaults = 0
    MaxFrames = 1
SPECIFICATION Spec
INVARIANTS
    FramesStoredWhole
