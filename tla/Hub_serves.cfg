CONSTANTS
    c1 = c1
    c2 = c2
    c3 = c3
    u1 = u1
    u2 = u2
    Conns = {c1, c2}
    Users = {u1, u2}
    NoConn = NoConn
    SendCap = 2
    BroadcastCap = 2
    MaxMessages = 3
SPECIFICATION FairSpec
INVARIANTS TypeOK OpenIffInMap
PROPERTIES ImplementsInbox ClosedIsWoundUp BrokenLeavesMap
CHECK_DEADLOCK FALSE
