SPECIFICATION Spec
CONSTANTS
    a = a  b = b  x1 = x1  x2 = x2  o1 = o1  o2 = o2  k1 = k1  k2 = k2
    Null = Null
    Runners = {k1}
    Stores = {a}
    Products = {x1}
    Orders = {o1, o2}
    StoreOf <- MCOneStore
    ProductOf <- MCProductOf
    Refusable = {}
    Attributed = FALSE
    Overlap = 0
    FirstLookback = 3
    ReconcileSpan = 3
    ReconcileEvery = 2
    MaxClock = 5
    DayLength = 2
    Zone = 1
    Pad = 1
    Enabled = {"tick", "order", "fail"}
CHECK_DEADLOCK FALSE
INVARIANTS RecentSalesComplete NoDoubleCount
