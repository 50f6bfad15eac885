SPECIFICATION Spec
CONSTANTS
    i1 = i1
    i2 = i2
    r1 = r1
    Items = {i1, i2}
    ItemPrice = 1
    Asked = {0, 1}
    MaxAfterSales = 2
    Requests = {r1}
    Notifier = Notifier
    MaxFaults = 0
PROPERTY LastItemCancels
CHECK_DEADLOCK FALSE
