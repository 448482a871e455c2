CONSTANTS
    q1 = q1
    q2 = q2
    q3 = q3
    d1 = d1
    d2 = d2
    r1 = r1
    Calls = {q1, q2, q3}
    Riders = {r1}
    Drivers = {d1, d2}
    Calm = {r1, d1}
    Updates <- MCUpdates
    NoCall = NoCall
    NoUser = NoUser
    Searches = {s1}
    Places = {here, there}
    Near = {here}
    NoPlace = NoPlace
    Limit = 1
    Sound = {d1}
SPECIFICATION Spec
SYMMETRY Symmetry
INVARIANTS TypeOK CacheNotBehindTable ReportsStored FindingsTruthful
PROPERTIES UpdatesKeepOtherFields DoneUpdatesStand SearchesCurrent
CHECK_DEADLOCK FALSE
