------------------------------ MODULE Registry ------------------------------
(***************************************************************************)
(* What the auth service promises of accounts: they are opened one per     *)
(* email, whole, and stay as they are; tokens are issued to none but those *)
(* who named the email and the password of an account, or whose earlier    *)
(* tokens go back to somebody who did.                                     *)
(***************************************************************************)

CONSTANTS Calls, Emails, Passwords, Roles

VARIABLES
    accounts,  \* the accounts, each with the call that opened it
    issued     \* the calls answered with tokens, and what they had named

vars == <<accounts, issued>>

Account == [call : Calls, email : Emails, password : Passwords, role : Roles]

Init == accounts = {} /\ issued = {}

Token(q, a) == [call |-> q, email |-> a.email, password |-> a.password]

IssueTo(q, a) ==
    /\ \A t \in issued : t.call # q
    /\ issued' = issued \cup {Token(q, a)}

\* Whoever does not learn that he has an account gets no tokens either.
Open(a) ==
    /\ \A b \in accounts : b.email # a.email /\ b.call # a.call
    /\ accounts' = accounts \cup {a}
    /\ IssueTo(a.call, a) \/ UNCHANGED issued

Issue(q, a) ==
    /\ IssueTo(q, a)
    /\ UNCHANGED accounts

Next ==
    \/ \E a \in Account : Open(a)
    \/ \E q \in Calls, a \in accounts : Issue(q, a)

Spec == Init /\ [][Next]_vars

=============================================================================
