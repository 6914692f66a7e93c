CONSTANTS
    v1 = v1
    v2 = v2
    Runs = {r1}
    NumTargets = 1
    LastDay = 2
    Weekdays = {0, 2}
    TradingDays = {0, 2}
    Ends = {2}
    Values = {v1, v2}
    Offers <- OneOffer
    Published = {0, 2}
    MaxRevisions = 0
    MinDays = 1
    Lookback = 3
    MaxRetries = 0
    None = None
    Absent = Absent
    Empty = Empty
SPECIFICATION Spec
CHECK_DEADLOCK FALSE
INVARIANTS
    NormalizedHasParent
