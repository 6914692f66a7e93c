CONSTANTS
    Collectors = {c1, c2}
    Keys = {k1}
    Payloads = {p1, p2}
    Ids = {i1, i2, i3, i4}
    None = None
    Partial = Partial
    Faults <- FaultKinds
    MaxOrphans = 1
SPECIFICATION FairSpec
INVARIANTS
    TypeOK
    CanonicalReadable
    AckedRedeliveryNeverFails
    FilesAccountedFor
    VerdictsStand
PROPERTIES
    CanonicalKept
    ImplementsCanonicalStore
    EveryCallReturns
