----------------------------- MODULE MCPayment -----------------------------
(* Payment on a few calls and rides. *)
EXTENDS Payment, TLC

CONSTANTS c1, c2, c3, ride1, ride2

\* Rides differ by Calm.
Symmetry == Permutations(Charges)

=============================================================================
