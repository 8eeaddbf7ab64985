SPECIFICATION Spec
CONSTANTS
    t1 = t1  t2 = t2  k1 = k1  k2 = k2  x1 = x1  x2 = x2  d1 = d1  d2 = d2
    p1 = p1  j1 = j1  m1 = m1
    Null = Null
    Receipts = {t1, t2}
    Skus = {k1, k2}
    Products = {x1, x2}
    Days = {d1, d2}
    RecentDays = {d1}
    Posters = {p1}
    Pullers = {j1}
    Matchers = {m1}
    Attributed = FALSE
    MaxChanges = 3
    MaxRequests = 3
SYMMETRY Symmetry
CHECK_DEADLOCK FALSE
INVARIANTS TypeOK SalesFollowReceipts
PROPERTY LinksSurvive
