CONSTANTS
    c1 = c1
    c2 = c2
    c3 = c3
    p1 = p1
    p2 = p2
    Calls = {c1, c2, c3}
    Emails = {e1}
    Passwords = {p1, p2}
    Servers = {s1, s2}
    Stable = {s1}
    ViaGateway = {c1}
    MaxFails = 2
    NoServer = NoServer
    NoRequest = NoRequest
SPECIFICATION Spec
SYMMETRY Symmetry
INVARIANTS TypeOK DriverRowsMatchRoles AnswersTruthful LockedForCause
PROPERTIES FailuresRemembered ImplementsRegistry
CHECK_DEADLOCK FALSE
