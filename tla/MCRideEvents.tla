---------------------------- MODULE MCRideEvents ----------------------------
(* RideEvents on one ride, two drivers and two gateways. *)
EXTENDS RideEvents, TLC

CONSTANTS q1, r1, d1, d2, p1, g1, g2

=============================================================================
