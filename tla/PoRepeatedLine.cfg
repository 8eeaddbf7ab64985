SPECIFICATION Spec
CONSTANTS
    r1 = r1  r2 = r2  r3 = r3  x1 = x1  x2 = x2  s1 = s1
    p1 = p1  p2 = p2  o1 = o1  o2 = o2  shelf = shelf  shop = shop
    Null = Null
    Requests = {r1}
    Products = {x1}
    Suppliers = {s1}
    SupplierOf <- MCSupplierOf
    Moq = 1
    PoIds = {p1}
    OrderIds = {o1, o2}
    Locations = {shelf}
    StoreLocations = {}
    NumberFloor = 0
    MaxNumber = 3
    MaxQty = 1
    MaxNamed = 2
    StartQueue <- MCOneRow
    Enabled = {"create", "send", "receive"}
CHECK_DEADLOCK FALSE
INVARIANT NoOverReceipt
