SPECIFICATION Spec
CONSTANTS
    u1 = u1
    u2 = u2
    c1 = c1
    Users = {u1}
    Clients = {c1}
    Owner <- MCOwner
    Handlers = {h1}
    Instances = {i1}
    SegmentCounts = {2}
    MaxMonth = 3
    MaxRows = 1
    MaxFaults = 1
CHECK_DEADLOCK FALSE
INVARIANT UsageConserved
