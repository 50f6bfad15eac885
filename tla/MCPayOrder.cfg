SPECIFICATION Spec
CONSTANTS
    r1 = r1
    r2 = r2
    Requests = {r1, r2}
    Job = Job
    MaxExts = 2
    Prices = {1, 2}
    MaxFaults = 1
SYMMETRY RequestSymmetry
INVARIANT PaymentRecorded
PROPERTIES
    FinalStays
    ImplementsRow
CHECK_DEADLOCK FALSE
