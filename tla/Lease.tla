------------------------------- MODULE Lease -------------------------------
(***************************************************************************)
(* What the distributed lock of pkg/redis promises, without a clock: a     *)
(* key that one client holds at a time, deleted by nobody but its holder,  *)
(* or by its TTL, which does not pass while a holder that is not slow      *)
(* still works.  DistLock, which has the clock, and RideDispatch, which    *)
(* uses the lock without one, both implement it.                           *)
(***************************************************************************)

CONSTANTS
    Clients, NoClient,
    Slow  \* clients that may work longer than the TTL of their key

VARIABLES
    holder,  \* the client the key names
    stage    \* "trying", "holding", "over"

vars == <<holder, stage>>

Init ==
    /\ holder = NoClient
    /\ stage = [p \in Clients |-> "trying"]

Goto(p, s) == stage' = [stage EXCEPT ![p] = s]

\* The key is set; whoever does not learn of it is over without the lock.
Acquire(p) ==
    /\ stage[p] = "trying"
    /\ holder = NoClient
    /\ holder' = p
    /\ Goto(p, "holding") \/ Goto(p, "over")

GiveUp(p) ==
    /\ stage[p] = "trying"
    /\ Goto(p, "over")
    /\ UNCHANGED holder

Release(p) ==
    /\ stage[p] = "holding"
    /\ holder' = IF holder = p THEN NoClient ELSE holder
    /\ Goto(p, "over")

\* The client dies, or its Release fails.
Abandon(p) ==
    /\ stage[p] = "holding"
    /\ Goto(p, "over")
    /\ UNCHANGED holder

Expire ==
    /\ holder # NoClient
    /\ holder \in Slow \/ stage[holder] # "holding"
    /\ holder' = NoClient
    /\ UNCHANGED stage

Next ==
    \/ \E p \in Clients : Acquire(p) \/ GiveUp(p) \/ Release(p) \/ Abandon(p)
    \/ Expire

Spec == Init /\ [][Next]_vars

=============================================================================
