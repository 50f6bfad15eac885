SPECIFICATION Spec
CONSTANTS
    r1 = r1
    r2 = r2
    Requests = {r1, r2}
    Job = Job
    MaxExts = 2
    Prices = {1, 2}
    MaxFaults = 0
SYMMETRY RequestSymmetry
PROPERTY PaidIsNotClosed
CHECK_DEADLOCK FALSE
