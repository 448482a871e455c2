CONSTANTS
    c1 = c1
    c2 = c2
    c3 = c3
    u1 = u1
    u2 = u2
    Conns = {c1}
    Users = {u1}
    NoConn = NoConn
    SendCap = 1
    BroadcastCap = 1
    MaxMessages = 2
SPECIFICATION FairSpec
PROPERTY FullBufferDisconnects
CHECK_DEADLOCK FALSE
