SPECIFICATION Spec
CONSTANTS
    r1 = r1
    r2 = r2
    f1 = f1
    f2 = f2
    f3 = f3
    Requests = {r1, r2}
    Refunds = {f1, f2, f3}
    Price = 3
    Amounts = {1, 2, 3}
    MaxFaults = 1
SYMMETRY Symmetry
INVARIANT FailedIsNotRefunded
CHECK_DEADLOCK FALSE
