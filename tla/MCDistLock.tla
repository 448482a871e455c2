----------------------------- MODULE MCDistLock ----------------------------
(* DistLock on three clients and a few ticks of the clock. *)
EXTENDS DistLock, TLC

CONSTANTS p1, p2, p3

\* A slow client is not like the others.
Symmetry == Permutations(Clients \ Slow)

=============================================================================
