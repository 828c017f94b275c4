CONSTANTS
    u1 = u1  t1 = t1  t2 = t2  r1 = r1  r2 = r2
    Users <- OneUser
    Tokens <- TwoTokens
    Requests <- TwoRequests
    Owner <- OwnedByOne
    Unlimited <- SecondToken
    Sizes = {0, 1, 2}
    InitialQuota = 3
    InitialRemain = 1
    Threshold = 0
    TrustFactor = 2
    FirstCache = {NoKey, NoRedis}
    KeysExpire = TRUE
    NoKey = NoKey
    NoRedis = NoRedis
SPECIFICATION Spec
SYMMETRY SameRequests
INVARIANTS NoOverdraft  TokenBalanced
CHECK_DEADLOCK FALSE
