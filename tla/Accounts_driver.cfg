CONSTANTS
    c1 = c1
    c2 = c2
    c3 = c3
    p1 = p1
    p2 = p2
    Calls = {c1, c2}
    Emails = {e1}
    Passwords = {p1, p2}
    Servers = {s1, s2}
    Stable = {s1}
    ViaGateway = {c1, c2}
    MaxFails = 2
    NoServer = NoServer
    NoRequest = NoRequest
SPECIFICATION Spec
INVARIANT VehicleIsSeen
CHECK_DEADLOCK FALSE
