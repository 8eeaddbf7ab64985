SPECIFICATION Spec
CONSTANTS
    a = a  b = b  x1 = x1  x2 = x2  o1 = o1  o2 = o2  k1 = k1  k2 = k2
    Null = Null
    Runners = {k1}
    Stores = {a, b}
    Products = {x1, x2}
    Orders = {}
    StoreOf <- MCTwoStores
    ProductOf <- MCProductOf
    Refusable = {}
    Attributed = TRUE
    Overlap = 0
    FirstLookback = 9
    ReconcileSpan = 9
    ReconcileEvery = 2
    MaxClock = 3
    DayLength = 1
    Zone = 0
    Pad = 0
    Enabled = {"change", "delete", "mark", "switch", "fail"}
CHECK_DEADLOCK FALSE
INVARIANT NothingFallsBehind
