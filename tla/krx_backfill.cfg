CONSTANTS
    v1 = v1
    v2 = v2
    Runs = {r1, r2}
    NumTargets = 2
    LastDay = 3
    Weekdays = {0, 1, 3}
    TradingDays = {0, 3}
    Ends = {3}
    Values = {v1, v2}
    Offers <- TwoOffers
    Published = {0}
    MaxRevisions = 1
    MinDays = 2
    Lookback = 4
    MaxRetries = 1
    None = None
    Absent = Absent
    Empty = Empty
SPECIFICATION FairSpec
CHECK_DEADLOCK FALSE
INVARIANTS
    TypeOK
    SnapshotTraceable
    RerunsNeverConflict
    OneRequestPerDay
    SnapshotComplete
PROPERTIES
    RunsEnd
