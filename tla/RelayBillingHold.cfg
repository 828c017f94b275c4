CONSTANTS
    u1 = u1  t1 = t1  t2 = t2  r1 = r1  r2 = r2
    Users <- OneUser
    Tokens <- OneToken
    Requests <- OneRequest
    Owner <- OwnedByOne
    Unlimited <- NoToken
    Sizes = {0, 1}
    InitialQuota = 1
    InitialRemain = 1
    Threshold = 0
    TrustFactor = 1
    FirstCache = {NoRedis}
    KeysExpire = FALSE
    NoKey = NoKey
    NoRedis = NoRedis
SPECIFICATION Spec
INVARIANT HoldsGivenBack
CHECK_DEADLOCK FALSE
