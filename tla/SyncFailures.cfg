SPECIFICATION FairSpec
CONSTANTS
    a = a  b = b  x1 = x1  x2 = x2  o1 = o1  o2 = o2  k1 = k1  k2 = k2
    Null = Null
    Runners = {k1}
    Stores = {a}
    Products = {x1, x2}
    Orders = {}
    StoreOf <- MCOneStore
    ProductOf <- MCProductOf
    Refusable = {x2}
    Attributed = TRUE
    Overlap = 0
    FirstLookback = 9
    ReconcileSpan = 9
    ReconcileEvery = 2
    MaxClock = 1
    DayLength = 1
    Zone = 0
    Pad = 0
    Enabled = {"change", "delete", "mark", "fail", "recordFails"}
CHECK_DEADLOCK FALSE
INVARIANTS TypeOK NeverHiddenInSilence
PROPERTIES EveryChangeArrives GoneIsNoticed
