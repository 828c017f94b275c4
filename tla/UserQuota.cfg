CONSTANTS
    u1 = u1  c1 = c1  c2 = c2  t1 = t1  t2 = t2
    Users <- OneUser
    Requests <- TwoRequests
    Topups <- TwoTopups
    Sizes = {1, 2}
    EndDates <- NeverOrOne
    Paths <- BothPaths
    InitialQuota = 1
    MaxTime = 1
    SnapshotReads = TRUE
    NoOne = NoOne
    Sweeper = Sweeper
SPECIFICATION FairSpec
INVARIANTS OverdraftBoundedByExpiry LedgerExact
PROPERTIES ImplementsAccount RecordsBacked 
CHECK_DEADLOCK FALSE
