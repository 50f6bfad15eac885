SPECIFICATION Spec
CONSTANTS
    i1 = i1
    i2 = i2
    r1 = r1
    r2 = r2
    Items = {i1, i2}
    ItemPrice = 1
    Asked = {0, 1, 2}
    MaxAfterSales = 2
    Requests = {r1, r2}
    Notifier = Notifier
    MaxFaults = 1
INVARIANTS
    ItemsSettled
    RefundsAgreed
    CountedIsRefunded
PROPERTY FinalStays
SYMMETRY Symmetry
CHECK_DEADLOCK FALSE
