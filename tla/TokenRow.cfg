CONSTANTS
    d1 = d1  d2 = d2  d3 = d3  c1 = c1  v1 = v1  e1 = e1
    Debits <- ThreeDebits
    Credits <- OneCredit
    Uses <- OneUse
    Edits <- OneEdit
    Amounts = {1}
    InitialRemain = 1
    MaxTime = 2
    Modes = {"fixed", "first_use"}
    Expiries = {1}
    Duration = 1
    FirstEntry = {NoEntry, NoRedis}
    NoEntry = NoEntry
    NoRedis = NoRedis
SPECIFICATION Spec
SYMMETRY SameDebits
INVARIANTS UsedExact FailureNeedsConflicts
CHECK_DEADLOCK FALSE
