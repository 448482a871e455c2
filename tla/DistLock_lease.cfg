CONSTANTS
    p1 = p1
    p2 = p2
    p3 = p3
    Clients = {p1, p2, p3}
    NoClient = NoClient
    TTL = 3
    MaxHold = 6
    Slow = {p1}
    MaxRetries = 2
    Backoff = 1
    MaxTime = 7
SPECIFICATION Spec
SYMMETRY Symmetry
INVARIANTS TypeOK LeaseExclusive
PROPERTIES ImplementsLease
CHECK_DEADLOCK FALSE
