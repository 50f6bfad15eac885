SPECIFICATION FairSpec
CONSTANTS
    r1 = r1
    r2 = r2
    Requests = {r1, r2}
    Job = Job
    Price = 2
    Adjustments <- UpAndDown
    MaxFaults = 1
INVARIANTS
    StockSettled
    PaidIsBacked
PROPERTIES
    PriceFixedOncePaid
    UnpaidSettles
CHECK_DEADLOCK FALSE
