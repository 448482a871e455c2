-------------------------- MODULE MCRideDispatch ---------------------------
(* RideDispatch on a few calls, riders and drivers.  No symmetry: riders and *)
(* calls differ by Hasty and Slow, and the runs check liveness.              *)
EXTENDS RideDispatch, Fares, TLC

CONSTANTS q1, q2, r1, r2, d1, d2

\* What rides cost does not depend on the state: the claims of Fares.
ASSUME FaresAssumption ==
    SurgeIsRatio(70) /\ SurgeMonotone(70) /\ ErrorsPriced(70) /\ FareMonotone(100)

=============================================================================
