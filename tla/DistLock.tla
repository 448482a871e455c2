------------------------------ MODULE DistLock -----------------------------
(***************************************************************************)
(* The distributed lock of pkg/redis/redis.go with its clock: a key set by *)
(* SETNX with a TTL, deleted by Release if it still holds the value of the *)
(* releaser.  RideDispatch uses this lock with the clock abstracted away.  *)
(*                                                                         *)
(* Every DistLock value has its own random value (NewDistLock) and is used *)
(* once, so the key holds the client that set it.  Redis treats a key      *)
(* whose time has come as absent.                                          *)
(*                                                                         *)
(* Definitions marked Fault are variants with a plausible bug, kept to     *)
(* show that the properties notice it.                                     *)
(***************************************************************************)
EXTENDS Naturals

CONSTANTS
    Clients,
    NoClient,
    TTL,         \* life of the key, 5 seconds in matchDriver
    MaxHold,     \* longest time between Acquire and Release; the deadline of
                 \* RequestRide allows 10 seconds
    Slow,        \* the clients that take that long; the others release, or
                 \* stop, before the TTL of their key has passed
    MaxRetries,  \* attempts of AcquireWithRetry, 3 in matchDriver
    Backoff,     \* pause after a failed attempt, 100 milliseconds
    MaxTime      \* bound: where the clock of a behaviour stops

ASSUME ConstantsAssumption ==
    /\ NoClient \notin Clients
    /\ TTL \in Nat \ {0}
    /\ MaxHold \in Nat \ {0}
    /\ Slow \subseteq Clients
    /\ MaxRetries \in Nat \ {0}
    /\ Backoff \in Nat
    /\ MaxTime \in Nat

VARIABLES
    now,
    key,      \* the client whose value was last set
    expires,  \* when that key expires
    stage,    \* "trying", "holding", "released", "gone"
    tries,    \* failed attempts
    wake,     \* when the next attempt is due
    since     \* when the client set the key

vars == <<now, key, expires, stage, tries, wake, since>>

Init ==
    /\ now = 0
    /\ key = NoClient
    /\ expires = 0
    /\ stage = [p \in Clients |-> "trying"]
    /\ tries = [p \in Clients |-> 0]
    /\ wake \in [Clients -> 0..MaxTime]
    /\ since = [p \in Clients |-> 0]

\* What GET answers.
Holder == IF now < expires THEN key ELSE NoClient

\* The loop of AcquireWithRetry comes to an attempt.
Attempts(p) ==
    /\ stage[p] = "trying"
    /\ tries[p] < MaxRetries
    /\ now >= wake[p]

\* An attempt that sets the key.  When the answer is lost the client returns
\* with an error and without the lock, and the key stays.
Acquire(p) ==
    /\ Attempts(p)
    /\ Holder = NoClient
    /\ key' = p
    /\ expires' = now + TTL
    /\ since' = [since EXCEPT ![p] = now]
    /\ \E answered \in BOOLEAN :
         stage' = [stage EXCEPT ![p] = IF answered THEN "holding" ELSE "gone"]
    /\ UNCHANGED <<now, tries, wake>>

\* Fault: the attempts are counted and never bounded.
AcquireBusyForever(p) ==
    /\ stage[p] = "trying"
    /\ now >= wake[p]
    /\ Holder # NoClient
    /\ tries' = [tries EXCEPT ![p] = @ + 1]
    /\ wake' = [wake EXCEPT ![p] = now + Backoff]
    /\ UNCHANGED <<now, key, expires, stage, since>>

\* An attempt that finds the key; the pause follows also the last one.
AcquireBusy(p) ==
    /\ Attempts(p)
    /\ Holder # NoClient
    /\ tries' = [tries EXCEPT ![p] = @ + 1]
    /\ wake' = [wake EXCEPT ![p] = now + Backoff]
    /\ UNCHANGED <<now, key, expires, stage, since>>

\* AcquireWithRetry returns without the lock: out of attempts, an error of
\* Redis, or the deadline of the caller.
GiveUp(p) ==
    /\ stage[p] = "trying"
    /\ stage' = [stage EXCEPT ![p] = "gone"]
    /\ UNCHANGED <<now, key, expires, tries, wake, since>>

\* Fault: DEL without comparing the value.
DeleteAlways(p) ==
    /\ stage[p] = "holding"
    /\ expires' = now
    /\ stage' = [stage EXCEPT ![p] = "released"]
    /\ UNCHANGED <<now, key, tries, wake, since>>

\* Compare and delete, one script in Redis.
Release(p) ==
    /\ stage[p] = "holding"
    /\ expires' = IF Holder = p THEN now ELSE expires
    /\ stage' = [stage EXCEPT ![p] = "released"]
    /\ UNCHANGED <<now, key, tries, wake, since>>

\* The holder dies, or its Release fails: it stops without deleting the key.
Abandon(p) ==
    /\ stage[p] = "holding"
    /\ stage' = [stage EXCEPT ![p] = "gone"]
    /\ UNCHANGED <<now, key, expires, tries, wake, since>>

\* Time passes, as long as nobody would hold the lock longer than it does.
HoldLimit(p) == IF p \in Slow THEN MaxHold ELSE TTL - 1

Tick ==
    /\ now < MaxTime
    /\ \A p \in Clients : stage[p] = "holding" => now < since[p] + HoldLimit(p)
    /\ now' = now + 1
    /\ UNCHANGED <<key, expires, stage, tries, wake, since>>

Next ==
    \/ Tick
    \/ \E p \in Clients :
         Acquire(p) \/ AcquireBusy(p) \/ GiveUp(p) \/ Release(p) \/ Abandon(p)

Spec == Init /\ [][Next]_vars

-----------------------------------------------------------------------------
(* Properties *)

TypeOK ==
    /\ now \in Nat
    /\ key \in Clients \cup {NoClient}
    /\ expires \in Nat
    /\ stage \in [Clients -> {"trying", "holding", "released", "gone"}]
    /\ tries \in [Clients -> 0..MaxRetries]
    /\ wake \in [Clients -> Nat]
    /\ since \in [Clients -> Nat]

Within(p) == stage[p] = "holding" /\ now < since[p] + TTL

\* A client that took the lock less than TTL ago is the one the key names, so
\* there is never a second one, even when earlier holders have outlived their
\* TTL, are still at work and release late.
LeaseExclusive ==
    \A p \in Clients : Within(p) => Holder = p

\* Nobody's key is deleted by another client: a live key disappears when its
\* owner releases it or when its time has come.
OnlyOwnerDeletes ==
    [][\A p \in Clients :
         Holder = p /\ Holder' # p =>
             \/ stage[p] = "holding" /\ stage'[p] = "released"
             \/ now' >= expires]_vars

\* redis.go: "short-lived mutual exclusion across multiple processes".  True
\* between clients that stay within the TTL, however the others behave.
MutualExclusion ==
    \A p, q \in Clients \ Slow :
        stage[p] = "holding" /\ stage[q] = "holding" => p = q

\* With its clock the lock does no more than Lease allows, where time is but the
\* choice of the moment a key expires: the key of a client that is not slow is
\* there until that client stops.
phaseOf ==
    [p \in Clients |-> IF stage[p] \in {"trying", "holding"} THEN stage[p] ELSE "over"]

Clockless == INSTANCE Lease WITH holder <- Holder, stage <- phaseOf

ImplementsLease == Clockless!Spec

=============================================================================
