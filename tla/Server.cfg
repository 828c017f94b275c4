SPECIFICATION ServerSpec
CONSTANTS
    None = None
    Services <- AllServices
    s1 = s1
    s2 = s2
    i1 = i1
    Settlements <- TwoSettlements
    Ids <- OneId
    Amounts = {1}
    InitialQuota = 1
    MaxCrashes = 1
    Redeemers = {1, 2, 3}
    Editors = {1}
    Worths = {5}
    MaxCodeEdits = 2
    Limiters = {"redis", "memory", "channel"}
    Handlers = {1, 2}
    MaxRequestNum = 2
    ChannelLimit = 3
    Duration = 2
    Expiration = 3
    MaxClock = 6
    MaxHandled = 8
    Pollers = {1, 2}
    Notifiers = {1}
    MaxNotices = 1
    MaxMjFaults = 1
    Channels = {1, 2}
    New = {2}
    Limited = {2}
    Priority <- FirstPreferred
    Admins = {"a"}
    Sent = {0, 1, 2}
    CacheModes = {TRUE, FALSE}
    RetryTimes = 3
    MaxStarts = 3
INVARIANTS Conserved BooksAgree  RatesKept TasksSettled
     ChannelTriedElsewhere
PROPERTY EventuallyWritten
CHECK_DEADLOCK FALSE
