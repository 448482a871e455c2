CONSTANTS
    q1 = q1
    q2 = q2
    r1 = r1
    r2 = r2
    d1 = d1
    d2 = d2
    Calls = {q1, q2}
    Riders = {r1, r2}
    Drivers = {d1, d2}
    NoDriver = NoDriver
    NoRider = NoRider
    NoCall = NoCall
    MaxRetries = 3
    Hasty = {}
    Slow = {}
SPECIFICATION Spec
INVARIANT NoDoubleMatching
CHECK_DEADLOCK FALSE
