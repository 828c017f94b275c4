CONSTANTS
    d1 = d1  d2 = d2  c1 = c1  w1 = w1  w2 = w2  a1 = a1  a2 = a2
    Debits <- TwoDebits
    Credits <- OneCredit
    Writers <- TwoWriters
    Admins <- TwoAdmins
    Amounts = {1}
    InitialQuota = 1
    InitialAff = 1
    MiniQuota = 1
SPECIFICATION Spec
SYMMETRY Same
INVARIANTS OverdraftNeedsOverwrite AffNeverNegative BooksKeptUnlessOverwritten
CHECK_DEADLOCK FALSE
