CONSTANTS
    LastDay = 2
    TradingDays = {0, 1}
    DayLength = 8
    WindowStart = 1
    AuctionStart = 2
    AuctionEnd = 2
    WindowEnd = 6
    PruneAbove = 1
    KeepLast = 1
    Roles = {"book", "program"}
    Bodies = {b1}
    ForeignBodies = {}
    None = None
    MaxDelay = 1
    Faults = {"key", "connect", "crash", "stop"}
    MaxFaults = 3
    MaxFrames = 1
SPECIFICATION FairSpec
PROPERTIES
    WindowCollected
