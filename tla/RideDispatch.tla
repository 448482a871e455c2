--------------------------- MODULE RideDispatch ----------------------------
(***************************************************************************)
(* The ride service, internal/ride/service.go, over the table rides        *)
(* (internal/ride/repository.go) and the Redis lock "lock:ride:match"      *)
(* (pkg/redis/redis.go).                                                   *)
(*                                                                         *)
(* A call of RequestRide runs through many steps, each one access to the   *)
(* database or to Redis, and calls run concurrently, in one process or in  *)
(* several.  pc[q] is where call q stands:                                 *)
(*                                                                         *)
(*   idle       not made yet                                               *)
(*   checked    GetActiveByRider found no active ride; next: Create        *)
(*   created    the row is inserted; next: SETNX of the matching lock      *)
(*   locked     the lock was acquired; next: GetNearbyDrivers              *)
(*   found      the nearest driver is known; next: the UPDATE to matched   *)
(*   releasing  matchDriver returns; next: the deferred Release            *)
(*   publish    back in RequestRide; next: publish ride.requested          *)
(*   done       answered (with a ride or with an error)                    *)
(*   dead       the process serving the call crashed                       *)
(*                                                                         *)
(* A call inserts at most one row, so a row is named by the call that      *)
(* inserts it.  AcceptRide, CompleteRide and CancelRide are one            *)
(* transaction that holds the row (SELECT ... FOR UPDATE), hence one       *)
(* action.  Calls they refuse (not found, forbidden, invalid transition)   *)
(* change nothing and are not written as actions.  The events these steps  *)
(* publish are in RideEvents.                                              *)
(*                                                                         *)
(* A definition marked Fault is not part of the specification: it is the   *)
(* next definition as it would be with a plausible bug, kept to show that  *)
(* the properties notice it.                                               *)
(***************************************************************************)
EXTENDS Naturals, RideFSM

CONSTANTS
    Calls,       \* calls of RequestRide
    Riders, Drivers,
    NoDriver,    \* a NULL driver_id
    NoRider,     \* the rider of a call not made yet
    NoCall,      \* the lock key does not exist in Redis
    MaxRetries,  \* attempts of AcquireWithRetry, 3 in matchDriver
    Hasty,       \* riders who may call RequestRide before their last call ended
    Slow         \* calls that may hold the lock longer than its TTL of 5 seconds

ASSUME ConstantsAssumption ==
    /\ NoDriver \notin Drivers
    /\ NoRider \notin Riders
    /\ NoCall \notin Calls
    /\ MaxRetries \in Nat \ {0}
    /\ Hasty \subseteq Riders
    /\ Slow \subseteq Calls

VARIABLES
    rides,    \* the table rides, a row per call, status "absent" if not inserted
    pc,       \* where each call stands
    caller,   \* the rider who made the call
    tries,    \* failed attempts of AcquireWithRetry
    nearest,  \* the driver matchDriver chose, NoDriver before and after an error
    lock      \* the call whose value the key "lock:ride:match" holds

vars == <<rides, pc, caller, tries, nearest, lock>>

Absent == "absent"

Row == [rider   : Riders \cup {NoRider},
        status  : RideStatus \cup {Absent},
        driver  : Drivers \cup {NoDriver},
        started : BOOLEAN,     \* started_at is set
        ended   : BOOLEAN]     \* ended_at is set

Stage == {"idle", "checked", "created", "locked", "found", "releasing",
          "publish", "done", "dead"}

\* Between AcquireWithRetry and Release.
Matching == {"locked", "found", "releasing"}

InFlight(q) == pc[q] \notin {"idle", "done", "dead"}

Active(q) == rides[q].status \in ActiveStatus

-----------------------------------------------------------------------------

NewRow(r) == [rider |-> r, status |-> "requested", driver |-> NoDriver,
              started |-> FALSE, ended |-> FALSE]

NoRow == [rider |-> NoRider, status |-> Absent, driver |-> NoDriver,
          started |-> FALSE, ended |-> FALSE]

Init ==
    /\ rides = [q \in Calls |-> NoRow]
    /\ pc = [q \in Calls |-> "idle"]
    /\ caller = [q \in Calls |-> NoRider]
    /\ tries = [q \in Calls |-> 0]
    /\ nearest = [q \in Calls |-> NoDriver]
    /\ lock = NoCall

Goto(q, stage) == pc' = [pc EXCEPT ![q] = stage]

\* Fault: a NULL driver is written where none is passed.
UpdateStatusNullDriver(row, status, d) ==
    [row EXCEPT !.status = status, !.driver = d]

\* The UPDATEs of repository.go.  UpdateStatus leaves the driver alone when
\* none is passed.
UpdateStatus(row, status, d) ==
    [row EXCEPT !.status = status, !.driver = IF d = NoDriver THEN @ ELSE d]

SetStarted(row) == [row EXCEPT !.status = "enroute", !.started = TRUE]

SetCompleted(row) == [row EXCEPT !.status = "completed", !.ended = TRUE]

-----------------------------------------------------------------------------
(* RequestRide *)

\* Fault: a ride still waiting for a driver does not count as active.
GetActiveByRiderNotRequested(r) ==
    {q \in Calls : rides[q].rider = r /\ rides[q].status \in {"matched", "enroute"}}

GetActiveByRider(r) == {q \in Calls : rides[q].rider = r /\ Active(q)}

\* The call starts and looks for an active ride of the rider.
RequestRide(q, r) ==
    /\ pc[q] = "idle"
    /\ r \in Hasty \/ \A p \in Calls : InFlight(p) => caller[p] # r
    /\ caller' = [caller EXCEPT ![q] = r]
    /\ Goto(q, IF GetActiveByRider(r) = {} THEN "checked" ELSE "done")
    /\ UNCHANGED <<rides, tries, nearest, lock>>

\* The INSERT.  Without an answer the call fails, the row stays.
Create(q) ==
    /\ pc[q] = "checked"
    /\ rides' = [rides EXCEPT ![q] = NewRow(caller[q])]
    /\ \E answered \in BOOLEAN : Goto(q, IF answered THEN "created" ELSE "done")
    /\ UNCHANGED <<caller, tries, nearest, lock>>

\* An attempt of AcquireWithRetry that sets the key.  When the answer is lost
\* matchDriver gives up without a Release and the key stays.
Acquire(q) ==
    /\ pc[q] = "created"
    /\ lock = NoCall
    /\ lock' = q
    /\ \E answered \in BOOLEAN : Goto(q, IF answered THEN "locked" ELSE "publish")
    /\ UNCHANGED <<rides, caller, tries, nearest>>

\* Fault: one attempt too many.
AcquireBusyOnceMore(q) ==
    /\ pc[q] = "created"
    /\ lock # NoCall
    /\ tries' = [tries EXCEPT ![q] = @ + 1]
    /\ Goto(q, IF tries[q] = MaxRetries THEN "publish" ELSE "created")
    /\ UNCHANGED <<rides, caller, nearest, lock>>

\* An attempt that finds the key; after the last one matchDriver gives up.
AcquireBusy(q) ==
    /\ pc[q] = "created"
    /\ lock # NoCall
    /\ tries' = [tries EXCEPT ![q] = @ + 1]
    /\ Goto(q, IF tries[q] + 1 = MaxRetries THEN "publish" ELSE "created")
    /\ UNCHANGED <<rides, caller, nearest, lock>>

\* GetNearbyDrivers: any driver can be the nearest to a pickup point; the
\* location service knows nothing of rides.
Search(q, d) ==
    /\ pc[q] = "locked"
    /\ nearest' = [nearest EXCEPT ![q] = d]
    /\ Goto(q, "found")
    /\ UNCHANGED <<rides, caller, tries, lock>>

\* The UPDATE of the row to matched, in a transaction of its own that neither
\* reads the row first nor tests the transition.  When the answer of the
\* database is lost the service takes the write for failed.
Match(q) ==
    /\ pc[q] = "found"
    /\ rides' = [rides EXCEPT ![q] = UpdateStatus(@, "matched", nearest[q])]
    /\ \E answered \in BOOLEAN :
         nearest' = IF answered THEN nearest ELSE [nearest EXCEPT ![q] = NoDriver]
    /\ Goto(q, "releasing")
    /\ UNCHANGED <<caller, tries, lock>>

\* Fault: DEL without comparing the value.
ReleaseAlways(q) ==
    /\ pc[q] = "releasing"
    /\ lock' = NoCall
    /\ Goto(q, "publish")
    /\ UNCHANGED <<rides, caller, tries, nearest>>

\* The deferred Release deletes the key only if it still holds the value of
\* this call.
Release(q) ==
    /\ pc[q] = "releasing"
    /\ lock' = IF lock = q THEN NoCall ELSE lock
    /\ Goto(q, "publish")
    /\ UNCHANGED <<rides, caller, tries, nearest>>

\* RequestRide answers with the ride as it stands in memory.
Answer(q) ==
    /\ pc[q] = "publish"
    /\ Goto(q, "done")
    /\ UNCHANGED <<rides, caller, tries, nearest, lock>>

\* Fault: when the UPDATE fails the search starts again, without a limit.
OnErrorSearchAgain == [checked   |-> "done",    created |-> "publish",
                       locked    |-> "releasing", found |-> "locked",
                       releasing |-> "publish"]

\* Where an error or the deadline of 10 seconds takes a call: a step whose
\* database or Redis access had no effect.  GetNearbyDrivers takes the same
\* path when it finds nobody, AcquireWithRetry when there is no Redis client.
\* A Release that fails leaves the key to its TTL.
OnError == [checked   |-> "done",    created |-> "publish",
            locked    |-> "releasing", found |-> "releasing",
            releasing |-> "publish"]

StepFails(q) ==
    /\ pc[q] \in DOMAIN OnError
    /\ Goto(q, OnError[pc[q]])
    /\ nearest' = IF pc[q] = "found" THEN [nearest EXCEPT ![q] = NoDriver]
                                     ELSE nearest
    /\ UNCHANGED <<rides, caller, tries, lock>>

\* The process serving the call dies.
Crash(q) ==
    /\ InFlight(q)
    /\ Goto(q, "dead")
    /\ UNCHANGED <<rides, caller, tries, nearest, lock>>

\* Fault: the key is set without a TTL.
NoExpire == FALSE /\ UNCHANGED vars

\* Redis deletes the key when its TTL has passed.
Expire ==
    /\ lock # NoCall
    /\ lock \in Slow \/ pc[lock] \notin Matching
    /\ lock' = NoCall
    /\ UNCHANGED <<rides, pc, caller, tries, nearest>>

-----------------------------------------------------------------------------
(* AcceptRide, CompleteRide and CancelRide *)

\* The call finds a row and holds it until its transaction ends.
GetByIDForUpdate(q) == rides[q].status # Absent

AssignedTo(q, d) == rides[q].driver = d

\* Fault: the transition is not validated.
AcceptRideAnyStatus(q, d) ==
    /\ GetByIDForUpdate(q)
    /\ AssignedTo(q, d)
    /\ rides' = [rides EXCEPT ![q] = SetStarted(@)]
    /\ UNCHANGED <<pc, caller, tries, nearest, lock>>

AcceptRide(q, d) ==
    /\ GetByIDForUpdate(q)
    /\ AssignedTo(q, d)
    /\ CanTransition(rides[q].status, "enroute")
    /\ rides' = [rides EXCEPT ![q] = SetStarted(@)]
    /\ UNCHANGED <<pc, caller, tries, nearest, lock>>

CompleteRide(q, d) ==
    /\ GetByIDForUpdate(q)
    /\ AssignedTo(q, d)
    /\ CanTransition(rides[q].status, "completed")
    /\ rides' = [rides EXCEPT ![q] = SetCompleted(@)]
    /\ UNCHANGED <<pc, caller, tries, nearest, lock>>

\* Fault: the status is written without validating the transition.
CancelRideAnyStatus(q, u) ==
    /\ GetByIDForUpdate(q)
    /\ u = rides[q].rider \/ AssignedTo(q, u)
    /\ rides' = [rides EXCEPT ![q] = UpdateStatus(@, "cancelled", NoDriver)]
    /\ UNCHANGED <<pc, caller, tries, nearest, lock>>

\* By the rider or by the assigned driver; the row keeps its driver.
CancelRide(q, u) ==
    /\ GetByIDForUpdate(q)
    /\ u = rides[q].rider \/ AssignedTo(q, u)
    /\ CanTransition(rides[q].status, "cancelled")
    /\ rides' = [rides EXCEPT ![q] = UpdateStatus(@, "cancelled", NoDriver)]
    /\ UNCHANGED <<pc, caller, tries, nearest, lock>>

-----------------------------------------------------------------------------

\* A step of call q that is neither its start nor a crash.
CallStep(q) ==
    \/ Create(q)
    \/ Acquire(q)
    \/ AcquireBusy(q)
    \/ \E d \in Drivers : Search(q, d)
    \/ Match(q)
    \/ Release(q)
    \/ Answer(q)
    \/ StepFails(q)

Next ==
    \/ \E q \in Calls :
         \/ \E r \in Riders : RequestRide(q, r)
         \/ CallStep(q)
         \/ Crash(q)
         \/ \E d \in Drivers : AcceptRide(q, d) \/ CompleteRide(q, d)
         \/ \E u \in Riders \cup Drivers : CancelRide(q, u)
    \/ Expire

Spec == Init /\ [][Next]_vars

\* A call that runs goes on to its next step, and Redis lets no key outlive
\* its TTL for ever.  Nobody has to accept, complete or cancel a ride.
FairSpec ==
    /\ Spec
    /\ \A q \in Calls : WF_vars(CallStep(q))
    /\ WF_vars(Expire)

-----------------------------------------------------------------------------
(* Properties *)

TypeOK ==
    /\ rides \in [Calls -> Row]
    /\ pc \in [Calls -> Stage]
    /\ caller \in [Calls -> Riders \cup {NoRider}]
    /\ tries \in [Calls -> 0..MaxRetries]
    /\ nearest \in [Calls -> Drivers \cup {NoDriver}]
    /\ lock \in Calls \cup {NoCall}

OneActiveRide(r) ==
    \A p, q \in Calls :
        p # q /\ rides[p].rider = r /\ rides[q].rider = r => ~Active(p) \/ ~Active(q)

\* A rider whose calls do not overlap has at most one active ride, although
\* the check and the INSERT are two statements, a call that failed may have
\* inserted a ride, and a ride may come back from cancelled.
OneActiveUnlessHasty == \A r \in Riders \ Hasty : OneActiveRide(r)

\* A call that does not outlast the TTL owns the lock as long as it is inside
\* matchDriver's locked part: two such calls are never there at once, and a
\* slow one that comes back late does not free the lock of the next.
MatchMutex == \A q \in Calls \ Slow : pc[q] \in Matching => lock = q

\* The columns of a row agree: a ride has been started when it is enroute or
\* completed and not yet when it is requested or matched, it has ended exactly
\* when it is completed, and from matched on it has a driver, even though
\* matchDriver may write over a row that was cancelled under its feet.
ColumnsAgree ==
    \A q \in Calls :
        LET row == rides[q] IN
        /\ row.status \in {"enroute", "completed"} => row.started
        /\ row.status \in {Absent, "requested", "matched"} => ~row.started
        /\ row.ended <=> row.status = "completed"
        /\ row.status \in {"matched", "enroute", "completed"} <=>
               row.driver # NoDriver /\ row.status # "cancelled"

\* The rows go through the life RideLifecycle describes: one driver for ever,
\* no start without a match, nothing after completed, and from cancelled only
\* back to matched, before there ever was a driver.
statusOf == [q \in Calls |-> rides[q].status]
driverOf == [q \in Calls |-> rides[q].driver]

Lifecycle == INSTANCE RideLifecycle
    WITH Rides <- Calls, status <- statusOf, driver <- driverOf

ImplementsLifecycle == Lifecycle!Spec

\* The calls use the matching lock as Lease says the lock works, which DistLock
\* shows to be so with the TTL counted by a clock: no call deletes the key of
\* another, wherever it fails, dies or is overtaken by the TTL.
stageOf ==
    [q \in Calls |-> CASE pc[q] \in {"idle", "checked", "created"} -> "trying"
                       [] pc[q] \in Matching -> "holding"
                       [] OTHER -> "over"]

MatchLock == INSTANCE Lease
    WITH Clients <- Calls, NoClient <- NoCall, holder <- lock, stage <- stageOf

ImplementsLease == MatchLock!Spec

\* A cancelled ride comes back to life only by the hand of its own call of
\* RequestRide: once that call is over, cancelled and completed are final.  And
\* a ride the call left requested stays so until it is cancelled: nothing
\* retries the matching.
SettledWhenAnswered ==
    [][\A q \in Calls :
         ~InFlight(q) =>
             /\ rides[q].status \in {"completed", "cancelled"} =>
                    rides'[q] = rides[q]
             /\ rides[q].status = "requested" =>
                    rides'[q].status \in {"requested", "cancelled"}]_vars

\* Every call of RequestRide ends, whatever the others do with the lock.
CallsEnd == \A q \in Calls : []<>~InFlight(q)

\* The lock is never lost: whoever takes it, it becomes free again, also when
\* its holder dies or never learns that it has it.
LockRecovers == \A q \in Calls : []<>(lock # q)

-----------------------------------------------------------------------------
(* What the comments say and the code does not do *)

\* fsm.go: "completed -> (terminal), cancelled -> (terminal)".
TerminalStatuses ==
    [][\A q \in Calls :
         rides[q].status \in {"completed", "cancelled"} =>
             rides'[q].status = rides[q].status]_vars

\* service.go on matchDriver: the lock is there "to prevent double-matching":
\* no driver is matched with a ride while on another.
NoDoubleMatching ==
    \A p, q \in Calls :
        p # q /\ Active(p) /\ Active(q) /\ rides[p].driver # NoDriver =>
            rides[p].driver # rides[q].driver

=============================================================================
