CONSTANTS
    n1 = n1  n2 = n2
    Orders = {1, 2}
    Notices <- TwoNotices
    Ratios = {"none", "days", "malformed"}
    MaxTime = 2
    MaxFaults = 1
SPECIFICATION OrderFairSpec
INVARIANTS SecondCreditNeedsOverlap AnsweredIsCredited RecordsFollowCredits
PROPERTY PaidIsAnswered
CHECK_DEADLOCK FALSE
