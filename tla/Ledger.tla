------------------------------- MODULE Ledger -------------------------------
(***************************************************************************)
(* What the payment service promises of money: it is taken for a ride,     *)
(* then entered in the books, then a receipt may be given; nothing is ever *)
(* taken back, entered twice or receipted without an entry.  For a calm    *)
(* ride (see Payment) no money is taken once a payment has been entered:   *)
(* this is as far as charging is idempotent.                               *)
(***************************************************************************)

CONSTANTS Charges, Rides, Calm

VARIABLES
    taken,    \* money taken: a ride and a transaction each
    booked,   \* payments entered
    receipts  \* the payment each charge was answered with

vars == <<taken, booked, receipts>>

Init == taken = {} /\ booked = {} /\ receipts = {}

Open(r) == r \in Calm => \A p \in booked : p.ride # r

Take(c, r) ==
    /\ \A p \in taken : p.txn # c
    /\ Open(r)
    /\ taken' = taken \cup {[ride |-> r, txn |-> c]}
    /\ UNCHANGED <<booked, receipts>>

Receipt(c, p) ==
    /\ \A x \in receipts : x.charge # c
    /\ receipts' = receipts \cup {[charge |-> c, payment |-> p]}

\* The answer of the database may be lost: there is no receipt then.
Book(p) ==
    /\ p \in taken \ booked
    /\ Open(p.ride)
    /\ booked' = booked \cup {p}
    /\ Receipt(p.txn, p) \/ UNCHANGED receipts
    /\ UNCHANGED taken

\* A charge for a ride that is paid.
Show(c, p) ==
    /\ p \in booked
    /\ Receipt(c, p)
    /\ UNCHANGED <<taken, booked>>

Next ==
    \/ \E c \in Charges, r \in Rides : Take(c, r)
    \/ \E p \in taken : Book(p)
    \/ \E c \in Charges, p \in booked : Show(c, p)

Spec == Init /\ [][Next]_vars

=============================================================================
