SPECIFICATION FairSpec
CONSTANTS
    r1 = r1
    r2 = r2
    Requests = {r1, r2}
    Job = Job
    MaxExts = 1
    Prices = {1, 2}
    MaxFaults = 1

PROPERTY OrderSettles
CHECK_DEADLOCK FALSE
