----------------------------- MODULE MCLocation -----------------------------
(* Location, with Users, on a few calls and drivers. *)
EXTENDS Location, TLC

CONSTANTS q1, q2, q3, d1, d2, r1

\* Updates of two kinds: of one table, and of both.
MCUpdates == {{"name"}, {"phone", "vehicle_type"}}

\* Calls are only ever compared.
Symmetry == Permutations(Calls)

=============================================================================
