------------------------------- MODULE MCHub -------------------------------
(* Hub on a few connections and users. *)
EXTENDS Hub, TLC

CONSTANTS c1, c2, c3, u1, u2

=============================================================================
