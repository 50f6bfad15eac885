SPECIFICATION Spec
CONSTANTS
    o1 = o1
    o2 = o2
    w1 = w1
    w2 = w2
    a = a
    b = b
    Orders = {o1, o2}
    Workers = {w1, w2}
    Skus = {a, b}
    Basket <- Baskets
    WithCoupon = {o1, o2}
    WithPoints = {o1, o2}
    Stock = 2
    Points = 1
    MaxFaults = 1
    MaxTorn = 1
INVARIANTS
    GoodsAccounted
    CouponServesOneOrder
    PointsAccounted
    CancelledIsRefunded
SYMMETRY Symmetry
CHECK_DEADLOCK FALSE
