------------------------------- MODULE Inbox --------------------------------
(***************************************************************************)
(* What the hub promises of notifications: a connection hears what is sent *)
(* to its user, in the order it was sent, and no notification is heard     *)
(* twice, be it on one connection or on two of the same user.  That all    *)
(* are heard is not promised.                                              *)
(***************************************************************************)
EXTENDS Naturals, Sequences

CONSTANTS Conns, Users

VARIABLES
    user,      \* the user of each connection
    sent,      \* the user of each notification, in the order they were sent
    delivered  \* the notifications each connection has heard

vars == <<user, sent, delivered>>

Init ==
    /\ user \in [Conns -> Users]
    /\ sent = <<>>
    /\ delivered = [c \in Conns |-> <<>>]

Send(u) ==
    /\ sent' = Append(sent, u)
    /\ UNCHANGED <<user, delivered>>

Heard(c) == {delivered[c][i] : i \in DOMAIN delivered[c]}

Deliver(c, n) ==
    /\ sent[n] = user[c]
    /\ \A m \in Heard(c) : m < n
    /\ \A d \in Conns \ {c} : n \notin Heard(d)
    /\ delivered' = [delivered EXCEPT ![c] = Append(@, n)]
    /\ UNCHANGED <<user, sent>>

Next ==
    \/ \E u \in Users : Send(u)
    \/ \E c \in Conns : \E n \in DOMAIN sent : Deliver(c, n)

Spec == Init /\ [][Next]_vars

=============================================================================
