CONSTANTS
    q1 = q1
    r1 = r1
    d1 = d1
    d2 = d2
    p1 = p1
    g1 = g1
    g2 = g2
    Calls = {q1}
    Riders = {r1}
    Drivers = {d1, d2}
    NoDriver = NoDriver
    NoRider = NoRider
    NoCall = NoCall
    MaxRetries = 1
    Hasty = {}
    Slow = {}
    Partitions = {p1}
    Gateways = {g1, g2}
    NoGateway = NoGateway
    NoMessage = NoMessage
    NoOffset = NoOffset
    MaxTopic = 2
    MaxStops = 1
SPECIFICATION FairEventsSpec
INVARIANTS EventsTypeOK EventsTruthful OneLostPerStop
PROPERTY CatchesUp
CHECK_DEADLOCK FALSE
