----------------------------- MODULE MCCheckout -----------------------------
(* Checkout on a few requests and rides. *)
EXTENDS Checkout, Pages, TLC

CONSTANTS c1, c2, c3, q1, ride1, ride2, u1

\* Rides differ by Calm.
Symmetry == Permutations(Charges)

\* Pages have no state: the claims of Pages.
ASSUME PagesAssumption ==
    /\ \A limit \in {{}, {0}, {1}, {2}, {3}, {7}, {25}, {MaxLimit + 1}} :
         EveryRecordOnce(25, limit, 2^15)
    /\ \A limit \in {1, 3, 20, 100} : OffsetsUntilOverflow(limit, 2^11)

SomeRoutes == PaymentRoutes \cup {route \in Routes : route.rpc = "Login"}

=============================================================================
