CONSTANTS
    d1 = d1  d2 = d2  c1 = c1  w1 = w1  w2 = w2  a1 = a1  a2 = a2
    Debits <- OneDebit
    Credits <- OneCredit
    Writers <- OneWriter
    Admins <- NoCalls
    Amounts = {1, 2}
    InitialQuota = 1
    InitialAff = 1
    MiniQuota = 1
SPECIFICATION Spec
INVARIANT NoOverdraft
CHECK_DEADLOCK FALSE
