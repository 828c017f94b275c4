CONSTANTS
    u1 = u1  t1 = t1  t2 = t2  r1 = r1  r2 = r2
    Users <- OneUser
    Tokens <- OneToken
    Requests <- TwoRequests
    Owner <- OwnedByOne
    Unlimited <- NoToken
    Sizes = {0, 1}
    InitialQuota = 2
    InitialRemain = 1
    Threshold = 0
    TrustFactor = 1
    FirstCache = {NoKey, 2}
    KeysExpire = TRUE
    NoKey = NoKey
    NoRedis = NoRedis
SPECIFICATION FairSpec
PROPERTY SettlementEnds CacheErrsLow
CHECK_DEADLOCK FALSE
