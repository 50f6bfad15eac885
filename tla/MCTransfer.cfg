SPECIFICATION TransferFairSpec
CONSTANTS
    c1 = c1
    c2 = c2
    Calls = {c1, c2}
    MaxSends = 1
    MaxTransferFaults = 1
PROPERTY PaidIsLearnt
CHECK_DEADLOCK FALSE
