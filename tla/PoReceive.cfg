SPECIFICATION Spec
CONSTANTS
    r1 = r1  r2 = r2  r3 = r3  x1 = x1  x2 = x2  s1 = s1
    p1 = p1  p2 = p2  o1 = o1  o2 = o2  shelf = shelf  shop = shop
    Null = Null
    Requests = {r1, r2}
    Products = {x1, x2}
    Suppliers = {s1}
    SupplierOf <- MCSupplierOf
    Moq = 2
    PoIds = {p1}
    OrderIds = {o1, o2}
    Locations = {shelf}
    StoreLocations = {}
    NumberFloor = 0
    MaxNumber = 3
    MaxQty = 2
    MaxNamed = 2
    StartQueue <- MCFullQueue
    Enabled = {"create", "send", "receive", "unreceive", "cancel", "remove", "unqueue"}
SYMMETRY RequestSymmetry
CHECK_DEADLOCK FALSE
INVARIANTS TypeOK OnTheWayIsReal EntriesStillFit StatusReflectsReceipts QueueFollowsReceipts ShelfMatchesReceipts
PROPERTY SentLinesFrozen
