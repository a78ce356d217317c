SPECIFICATION FairSpec
CONSTANTS
    a = a
    b = b
    ghost = ghost
    r1 = r1
    r2 = r2
    r3 = r3
    r4 = r4
    NoConn = NoConn
    NoRequest = NoRequest
    Product <- Products
    Catalog <- Available
    InitStock <- Stock
    KnownUser <- Users
    Request = {r1, r2}
    Conn = {c1, c2}
    MaxFaults = 0
    UserOf <- OneUser
    KeyOf <- OwnKey
    Qty <- RaceQty
    Malformed <- NoneMalformed
PROPERTIES
    ConnectionComesBack
CHECK_DEADLOCK FALSE
