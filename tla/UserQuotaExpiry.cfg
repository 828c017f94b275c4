CONSTANTS
    u1 = u1  c1 = c1  c2 = c2  t1 = t1  t2 = t2
    Users <- OneUser
    Requests <- TwoRequests
    Topups <- OneTopup
    Sizes = {1, 2}
    EndDates <- NeverOrOne
    Paths <- Redeem
    InitialQuota = 0
    MaxTime = 1
    SnapshotReads = FALSE
    NoOne = NoOne
    Sweeper = Sweeper
SPECIFICATION Spec
PROPERTY ExpiryTakesWhatIsLeft
CHECK_DEADLOCK FALSE
