CONSTANTS
    LastDay = 2
    TradingDays = {0, 2}
    DayLength = 5
    WindowStart = 1
    AuctionStart = 2
    AuctionEnd = 2
    WindowEnd = 3
    PruneAbove = 1
    KeepLast = 1
    Roles = {"book", "program"}
    Bodies = {b1, b2}
    ForeignBodies = {b2}
    None = None
    MaxDelay = 2
    Faults = {"key", "connect", "close", "store", "crash", "stop"}
    MaxFaults = 2
    MaxFrames = 2
SPECIFICATION Spec
INVARIANTS
    TypeOK
    StoredInsideWindow
    NoRunAfterCompletion
PROPERTIES
    CompletedEarlyOnlyWhenCut
