SPECIFICATION FairSpec
CONSTANTS
    u1 = u1
    u2 = u2
    c1 = c1
    Users = {u1, u2}
    Clients = {c1}
    Owner <- MCOwner
    Handlers = {h1, h2}
    Instances = {i1}
    SegmentCounts = {2}
    MaxMonth = 3
    MaxRows = 2
    MaxFaults = 1
CHECK_DEADLOCK FALSE
INVARIANT TypeOK
INVARIANT NeverOvercounted
INVARIANT EveryMonthArchivedOnce
PROPERTY LossOnlyByCommit
PROPERTY ImplementsLedger
PROPERTY OverduePeriodsAreWrapped
