CONSTANTS
    Collectors = {c1, c2}
    Keys = {k1}
    Payloads = {p1, p2}
    Ids = {i1, i2, i3}
    None = None
    Partial = Partial
    Faults = {"ack"}
    MaxOrphans = 0
SPECIFICATION Spec
INVARIANTS
    RedeliveryNeverFails
