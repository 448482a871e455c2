----------------------------- MODULE MCAccounts -----------------------------
(* Accounts on a few calls, passwords and processes. *)
EXTENDS Accounts, TLC

CONSTANTS c1, c2, c3, p1, p2

\* Passwords are only compared; c1 differs from the others by ViaGateway.
Symmetry == Permutations({c2, c3}) \cup Permutations(Passwords)

=============================================================================
