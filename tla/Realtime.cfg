SPECIFICATION FairSpec
CONSTANTS
    h1 = h1  h2 = h2  c1 = c1  c2 = c2  s1 = s1  s2 = s2  s3 = s3
    ta = ta  tb = tb  a1 = a1  a2 = a2  b1 = b1
    Null = Null
    Hooks = {h1, h2}
    Me = h1
    Clients = {c1, c2}
    Sockets = {s1, s2}
    Tenants = {ta, tb}
    Home = ta
    Messages = {a1, a2, b1}
    TenantOf <- MCTenantOf
    MaxSwitches = 1
    MaxWire = 2
    MaxFaults = 1
CHECK_DEADLOCK FALSE
INVARIANTS TypeOK OneConnection
PROPERTIES ImplementsChannel EverySocketLeaves Connects
