SPECIFICATION FairSpec
CONSTANTS
    r1 = r1
    r2 = r2
    f1 = f1
    f2 = f2
    Requests = {r1, r2}
    Refunds = {f1, f2}
    Price = 2
    Amounts = {1, 2}
    MaxFaults = 1
INVARIANTS
    RefundAccounted
    RefundedIsSum
    WeixinFailureIsClosed
PROPERTIES
    ImplementsLedger
    DecidedIsRecorded
CHECK_DEADLOCK FALSE
