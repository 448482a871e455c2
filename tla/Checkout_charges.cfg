CONSTANTS
    c1 = c1
    c2 = c2
    c3 = c3
    q1 = q1
    ride1 = ride1
    ride2 = ride2
    u1 = u1
    Charges = {c1, c2}
    Rides = {ride1, ride2}
    NoRide = NoRide
    NoPayment = NoPayment
    Calm = {ride1}
    Requests = {c1, c2, q1}
    Users = {u1}
    NoUser = NoUser
    Offered <- SomeRoutes
    MaxReqs = 1
    Window = 1
SPECIFICATION CheckoutSpec
SYMMETRY Symmetry
INVARIANTS CheckoutTypeOK BooksTruthful SecondCaptureOnlyAfterFailure AnswersTrue BurstBounded RefusedForCause
PROPERTY ImplementsLedger
CHECK_DEADLOCK FALSE
