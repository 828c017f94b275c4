SPECIFICATION Spec
CONSTANTS
    Ids = {1, 2, 3}
    Hits = {1, 3}
    Views <- AllViews
    Sizes = {1, 2}
    Calls = {1, 2}
    MaxCalls <- Requests
    MaxPicked = 2
    MaxUpsets = 1
    FirstDb <- FirstRows
INVARIANTS ListSound TableRests
PROPERTY UsedStays
CHECK_DEADLOCK FALSE
