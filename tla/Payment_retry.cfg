CONSTANTS
    c1 = c1
    c2 = c2
    c3 = c3
    ride1 = ride1
    ride2 = ride2
    Charges = {c1, c2}
    Rides = {ride1}
    NoRide = NoRide
    NoPayment = NoPayment
    Calm = {ride1}
SPECIFICATION Spec
SYMMETRY Symmetry
INVARIANT ChargedOnce
CHECK_DEADLOCK FALSE
