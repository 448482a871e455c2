------------------------- MODULE RideDispatchProofs ------------------------
(***************************************************************************)
(* Proofs about RideDispatch for every set of calls, riders and drivers    *)
(* and every number of retries, and about what has no state: the prices of *)
(* Fares and the pages of Pages, for all numbers.                          *)
(***************************************************************************)
EXTENDS RideDispatch, Fares, Pages, FiniteSetTheorems, TLAPS

-----------------------------------------------------------------------------
(* The table of transitions *)

\* The only statuses from which the service starts, completes or cancels a
\* ride (fsm.go, CanTransition).
LEMMA Transitions ==
    \A s :
        /\ CanTransition(s, "enroute") <=> s = "matched"
        /\ CanTransition(s, "completed") <=> s = "enroute"
        /\ CanTransition(s, "cancelled") <=> s \in ActiveStatus
  BY DEF CanTransition, validTransitions, RideStatus, ActiveStatus

\* The writes of repository.go leave a row a row.
LEMMA RowWrites ==
    ASSUME NEW row \in Row, NEW s \in RideStatus, NEW d \in Drivers \cup {NoDriver}
    PROVE  /\ UpdateStatus(row, s, d) \in Row
           /\ SetStarted(row) \in Row
           /\ SetCompleted(row) \in Row
  BY DEF UpdateStatus, SetStarted, SetCompleted, Row, RideStatus

-----------------------------------------------------------------------------
(* Types *)

\* Every variable keeps its type; in particular no call fails more than
\* MaxRetries attempts to take the lock (AcquireWithRetry).  A call that waits
\* for the lock has attempts left, which is what makes TypeOK inductive.
TriesLeft == \A q \in Calls : pc[q] \in {"idle", "checked", "created"} => tries[q] < MaxRetries

TypeInv == TypeOK /\ TriesLeft

LEMMA TypeInit == Init => TypeInv
  BY ConstantsAssumption
     DEF Init, TypeInv, TypeOK, TriesLeft, NoRow, Row, Stage

LEMMA TypeStep == TypeInv /\ [Next]_vars => TypeInv'
<1> SUFFICES ASSUME TypeInv, [Next]_vars PROVE TypeInv'
  OBVIOUS
<1> USE ConstantsAssumption DEF TypeInv, TypeOK, TriesLeft, Stage, Goto
<1>1. ASSUME NEW q \in Calls, NEW r \in Riders, RequestRide(q, r)
      PROVE  TypeInv'
  BY <1>1 DEF RequestRide
<1>2. ASSUME NEW q \in Calls, Create(q)
      PROVE  TypeInv'
  BY <1>2 DEF Create, NewRow, Row, RideStatus
<1>3. ASSUME NEW q \in Calls, Acquire(q)
      PROVE  TypeInv'
  BY <1>3 DEF Acquire
<1>4. ASSUME NEW q \in Calls, AcquireBusy(q)
      PROVE  TypeInv'
  BY <1>4 DEF AcquireBusy
<1>5. ASSUME NEW q \in Calls, NEW d \in Drivers, Search(q, d)
      PROVE  TypeInv'
  BY <1>5 DEF Search
<1>6. ASSUME NEW q \in Calls, Match(q)
      PROVE  TypeInv'
  <2>1. rides' \in [Calls -> Row]
    BY <1>6, RowWrites DEF Match, RideStatus
  <2>2. QED
    BY <1>6, <2>1 DEF Match
<1>7. ASSUME NEW q \in Calls, Release(q)
      PROVE  TypeInv'
  BY <1>7 DEF Release
<1>8. ASSUME NEW q \in Calls, Answer(q)
      PROVE  TypeInv'
  BY <1>8 DEF Answer
<1>9. ASSUME NEW q \in Calls, StepFails(q)
      PROVE  TypeInv'
  BY <1>9 DEF StepFails, OnError
<1>10. ASSUME NEW q \in Calls, Crash(q)
       PROVE  TypeInv'
  BY <1>10 DEF Crash
<1>11. ASSUME NEW q \in Calls, NEW d \in Drivers, AcceptRide(q, d)
       PROVE  TypeInv'
  <2>1. rides' \in [Calls -> Row]
    BY <1>11, RowWrites DEF AcceptRide, RideStatus
  <2>2. QED
    BY <1>11, <2>1 DEF AcceptRide
<1>12. ASSUME NEW q \in Calls, NEW d \in Drivers, CompleteRide(q, d)
       PROVE  TypeInv'
  <2>1. rides' \in [Calls -> Row]
    BY <1>12, RowWrites DEF CompleteRide, RideStatus
  <2>2. QED
    BY <1>12, <2>1 DEF CompleteRide
<1>13. ASSUME NEW q \in Calls, NEW u \in Riders \cup Drivers, CancelRide(q, u)
       PROVE  TypeInv'
  <2>1. rides' \in [Calls -> Row]
    BY <1>13, RowWrites DEF CancelRide, RideStatus
  <2>2. QED
    BY <1>13, <2>1 DEF CancelRide
<1>14. CASE Expire
  BY <1>14 DEF Expire
<1>15. CASE UNCHANGED vars
  BY <1>15 DEF vars
<1>16. QED
  BY <1>1, <1>2, <1>3, <1>4, <1>5, <1>6, <1>7, <1>8, <1>9, <1>10, <1>11, <1>12,
     <1>13, <1>14, <1>15 DEF Next, CallStep

\* Every state the ride service reaches is well typed.
THEOREM TypeCorrect == Spec => []TypeOK
<1>1. Spec => []TypeInv
  BY TypeInit, TypeStep, PTL DEF Spec
<1>2. TypeInv => TypeOK
  BY DEF TypeInv
<1>3. QED
  BY <1>1, <1>2, PTL

-----------------------------------------------------------------------------
(* Rows *)

\* What relates a call to its row, and the columns of a row to each other.
\* The clause about "created", "locked" and "found" is the heart: a row whose
\* call can still match it has no driver, so it was never started and the
\* unconditional UPDATE of matchDriver finds it requested or cancelled.
CallRow(q) ==
    /\ InFlight(q) => caller[q] \in Riders
    /\ rides[q].status # Absent => rides[q].rider = caller[q]
    /\ pc[q] \in {"idle", "checked"} => rides[q].status = Absent
    /\ pc[q] \in {"created", "locked", "found"} =>
           rides[q].status \in {"requested", "cancelled"} /\ rides[q].driver = NoDriver
    /\ pc[q] \in {"releasing", "publish"} => rides[q].status # Absent
    /\ pc[q] \in {"idle", "checked", "created", "locked"} => nearest[q] = NoDriver
    /\ pc[q] = "found" => nearest[q] \in Drivers
    /\ pc[q] \in {"releasing", "publish"} /\ nearest[q] # NoDriver =>
           rides[q].driver = nearest[q]

Columns(row) ==
    /\ row.status = Absent => row = NoRow
    /\ row.status \in {"enroute", "completed"} => row.started
    /\ row.status \in {Absent, "requested", "matched"} => ~row.started
    /\ row.driver = NoDriver => ~row.started
    /\ row.ended <=> row.status = "completed"
    /\ row.status \in {"matched", "enroute", "completed"} <=>
           row.driver # NoDriver /\ row.status # "cancelled"

RowInv == \A q \in Calls : CallRow(q) /\ Columns(rides[q])

LEMMA RowInit == Init => RowInv
  BY ConstantsAssumption
     DEF Init, RowInv, CallRow, Columns, NoRow, InFlight, Absent

LEMMA RowStep == TypeInv /\ RowInv /\ [Next]_vars => RowInv'
<1> SUFFICES ASSUME TypeInv, RowInv, [Next]_vars PROVE RowInv'
  OBVIOUS
<1> USE ConstantsAssumption
    DEF TypeInv, TypeOK, Row, RowInv, CallRow, Columns, InFlight, Goto, Absent,
        UpdateStatus, SetStarted, SetCompleted
<1>1. ASSUME NEW q \in Calls, NEW r \in Riders, RequestRide(q, r)
      PROVE  RowInv'
  BY <1>1 DEF RequestRide
<1>2. ASSUME NEW q \in Calls, Create(q)
      PROVE  RowInv'
  BY <1>2 DEF Create, NewRow, NoRow
<1>3. ASSUME NEW q \in Calls, Acquire(q)
      PROVE  RowInv'
  BY <1>3 DEF Acquire
<1>4. ASSUME NEW q \in Calls, AcquireBusy(q)
      PROVE  RowInv'
  BY <1>4 DEF AcquireBusy
<1>5. ASSUME NEW q \in Calls, NEW d \in Drivers, Search(q, d)
      PROVE  RowInv'
  BY <1>5 DEF Search
<1>6. ASSUME NEW q \in Calls, Match(q)
      PROVE  RowInv'
  BY <1>6 DEF Match, NoRow
<1>7. ASSUME NEW q \in Calls, Release(q)
      PROVE  RowInv'
  BY <1>7 DEF Release
<1>8. ASSUME NEW q \in Calls, Answer(q)
      PROVE  RowInv'
  BY <1>8 DEF Answer
<1>9. ASSUME NEW q \in Calls, StepFails(q)
      PROVE  RowInv'
  BY <1>9 DEF StepFails, OnError
<1>10. ASSUME NEW q \in Calls, Crash(q)
      PROVE  RowInv'
  BY <1>10 DEF Crash
<1>11. ASSUME NEW q \in Calls, NEW d \in Drivers, AcceptRide(q, d)
      PROVE  RowInv'
  BY <1>11, Transitions DEF AcceptRide, AssignedTo, NoRow
<1>12. ASSUME NEW q \in Calls, NEW d \in Drivers, CompleteRide(q, d)
      PROVE  RowInv'
  BY <1>12, Transitions DEF CompleteRide, AssignedTo, NoRow
<1>13. ASSUME NEW q \in Calls, NEW u \in Riders \cup Drivers, CancelRide(q, u)
      PROVE  RowInv'
  BY <1>13, Transitions DEF CancelRide, NoRow, ActiveStatus
<1>14. CASE Expire
  BY <1>14 DEF Expire
<1>15. CASE UNCHANGED vars
  BY <1>15 DEF vars
<1>16. QED
  BY <1>1, <1>2, <1>3, <1>4, <1>5, <1>6, <1>7, <1>8, <1>9, <1>10, <1>11, <1>12,
     <1>13, <1>14, <1>15 DEF Next, CallStep

-----------------------------------------------------------------------------
(* The life of a row *)

\* What no step takes back from a row: that it exists, was started, was
\* completed, and its driver.
RowGrowth ==
    \A q \in Calls :
        /\ rides[q].status # Absent => rides'[q].status # Absent
        /\ rides[q].started => rides'[q].started
        /\ rides[q].status = "completed" => rides'[q] = rides[q]
        /\ rides[q].driver # NoDriver => rides'[q].driver = rides[q].driver

LEMMA RowGrows == TypeInv /\ RowInv /\ [Next]_vars => RowGrowth
<1> SUFFICES ASSUME TypeInv, RowInv, [Next]_vars PROVE RowGrowth
  OBVIOUS
<1> USE ConstantsAssumption
    DEF TypeInv, TypeOK, Row, RowInv, CallRow, Columns, RowGrowth, Absent,
        UpdateStatus, SetStarted, SetCompleted
<1>1. ASSUME NEW q \in Calls, Create(q)
      PROVE  RowGrowth
  BY <1>1 DEF Create, NewRow
<1>2. ASSUME NEW q \in Calls, Match(q)
      PROVE  RowGrowth
  BY <1>2 DEF Match
<1>3. ASSUME NEW q \in Calls, NEW d \in Drivers, AcceptRide(q, d)
      PROVE  RowGrowth
  BY <1>3, Transitions DEF AcceptRide, AssignedTo
<1>4. ASSUME NEW q \in Calls, NEW d \in Drivers, CompleteRide(q, d)
      PROVE  RowGrowth
  BY <1>4, Transitions DEF CompleteRide, AssignedTo
<1>5. ASSUME NEW q \in Calls, NEW u \in Riders \cup Drivers, CancelRide(q, u)
      PROVE  RowGrowth
  BY <1>5, Transitions DEF CancelRide, ActiveStatus
<1>6. CASE UNCHANGED rides
  BY <1>6
<1>7. QED
  BY <1>1, <1>2, <1>3, <1>4, <1>5, <1>6
     DEF Next, CallStep, vars, RequestRide, Acquire, AcquireBusy, Search, Release,
         Answer, StepFails, Crash, Expire

\* The inductive invariant of the service.
IInv == TypeInv /\ RowInv

LEMMA Inductive == Spec => []IInv
<1>1. Init => IInv
  BY TypeInit, RowInit DEF IInv
<1>2. IInv /\ [Next]_vars => IInv'
  BY TypeStep, RowStep DEF IInv
<1>3. QED
  BY <1>1, <1>2, PTL DEF Spec

\* The columns of a row always agree, although matchDriver writes its row
\* without reading it.
THEOREM ColumnsAlwaysAgree == Spec => []ColumnsAgree
<1>1. IInv => ColumnsAgree
  BY DEF IInv, RowInv, Columns, ColumnsAgree
<1>2. QED
  BY <1>1, Inductive, PTL

\* Once its call of RequestRide is over, a completed or cancelled ride never
\* changes again, and a ride left requested can only be cancelled.
THEOREM Settled == Spec => SettledWhenAnswered
<1>1. IInv /\ [Next]_vars =>
        [\A q \in Calls :
             ~InFlight(q) =>
                 /\ rides[q].status \in {"completed", "cancelled"} =>
                        rides'[q] = rides[q]
                 /\ rides[q].status = "requested" =>
                        rides'[q].status \in {"requested", "cancelled"}]_vars
  <2> SUFFICES ASSUME IInv, Next, NEW q \in Calls, ~InFlight(q)
               PROVE  /\ rides[q].status \in {"completed", "cancelled"} =>
                             rides'[q] = rides[q]
                      /\ rides[q].status = "requested" =>
                             rides'[q].status \in {"requested", "cancelled"}
    OBVIOUS
  <2> USE Transitions
      DEF IInv, TypeInv, TypeOK, Row, InFlight, RowInv, CallRow, Columns,
          UpdateStatus, SetStarted, SetCompleted
  <2>1. CASE \E p \in Calls : Create(p) \/ Match(p)
    BY <2>1 DEF Create, Match, NewRow
  <2>2. CASE \E p \in Calls, d \in Drivers : AcceptRide(p, d) \/ CompleteRide(p, d)
    BY <2>2 DEF AcceptRide, CompleteRide
  <2>3. CASE \E p \in Calls, u \in Riders \cup Drivers : CancelRide(p, u)
    BY <2>3 DEF CancelRide, ActiveStatus
  <2>4. CASE UNCHANGED rides
    BY <2>4
  <2>5. QED
    BY <2>1, <2>2, <2>3, <2>4
       DEF Next, CallStep, RequestRide, Acquire, AcquireBusy, Search, Release,
           Answer, StepFails, Crash, Expire
<1>2. QED
  BY <1>1, Inductive, PTL DEF Spec, SettledWhenAnswered

\* The service implements RideLifecycle: every step of a call either leaves
\* the statuses and drivers alone or is one step in the life of one ride.
THEOREM Refinement == Spec => ImplementsLifecycle
<1>1. Init => Lifecycle!Init
  BY DEF Init, NoRow, Lifecycle!Init, statusOf, driverOf, Lifecycle!Absent, Absent
<1>2. IInv /\ [Next]_vars => [Lifecycle!Next]_(Lifecycle!vars)
  <2> SUFFICES ASSUME IInv, [Next]_vars
               PROVE  Lifecycle!Next \/ UNCHANGED Lifecycle!vars
    OBVIOUS
  <2> USE Transitions
      DEF IInv, TypeInv, TypeOK, Row, RowInv, CallRow, Columns, statusOf, driverOf,
          Lifecycle!vars, Lifecycle!Absent, Absent, ActiveStatus,
          Lifecycle!ActiveStatus, UpdateStatus, SetStarted, SetCompleted
  <2>1. ASSUME NEW q \in Calls, Create(q)
        PROVE  Lifecycle!Request(q)
    BY <2>1 DEF Create, NewRow, Lifecycle!Request
  <2>2. ASSUME NEW q \in Calls, Match(q)
        PROVE  Lifecycle!Match(q, nearest[q])
    BY <2>2 DEF Match, Lifecycle!Match
  <2>3. ASSUME NEW q \in Calls, NEW d \in Drivers, AcceptRide(q, d)
        PROVE  Lifecycle!Start(q)
    BY <2>3 DEF AcceptRide, Lifecycle!Start
  <2>4. ASSUME NEW q \in Calls, NEW d \in Drivers, CompleteRide(q, d)
        PROVE  Lifecycle!Complete(q)
    BY <2>4 DEF CompleteRide, Lifecycle!Complete
  <2>5. ASSUME NEW q \in Calls, NEW u \in Riders \cup Drivers, CancelRide(q, u)
        PROVE  Lifecycle!Cancel(q)
    BY <2>5 DEF CancelRide, Lifecycle!Cancel
  <2>6. CASE UNCHANGED rides
    <3>1. UNCHANGED Lifecycle!vars
      BY <2>6
    <3>2. QED
      BY <3>1
  <2>7. ASSUME NEW q \in Calls, Match(q)
        PROVE  nearest[q] \in Drivers
    BY <2>7 DEF Match
  <2> HIDE DEF TypeInv, TypeOK, RowInv, CallRow, Columns, statusOf, driverOf, IInv,
               Lifecycle!vars
  <2>8. QED
    BY <2>1, <2>2, <2>3, <2>4, <2>5, <2>6, <2>7
       DEF Lifecycle!Next, Next, CallStep, vars, RequestRide, Acquire, AcquireBusy,
           Search, Release, Answer, StepFails, Crash, Expire
<1>3. QED
  BY <1>1, <1>2, Inductive, PTL DEF Spec, ImplementsLifecycle, Lifecycle!Spec

-----------------------------------------------------------------------------
(* One active ride per rider *)

\* The call has an active ride, or can still get one: it is past its check, or
\* it can still match a ride that was cancelled meanwhile.
Claims(q) == Active(q) \/ pc[q] \in {"checked", "created", "locked", "found"}

OneClaim ==
    \A p, q \in Calls :
        p # q /\ Claims(p) /\ Claims(q) /\ caller[p] \notin Hasty =>
            caller[p] # caller[q]

LEMMA OneClaimStep == IInv /\ OneClaim /\ [Next]_vars => OneClaim'
<1> SUFFICES ASSUME IInv, OneClaim, [Next]_vars PROVE OneClaim'
  OBVIOUS
<1> USE Transitions
    DEF IInv, TypeInv, TypeOK, Row, Stage, RowInv, CallRow, Columns, Goto, Active,
        InFlight, ActiveStatus, Absent, UpdateStatus, SetStarted, SetCompleted
<1>1. ASSUME NEW q \in Calls, NEW r \in Riders, RequestRide(q, r)
      PROVE  OneClaim'
  <2>1. ASSUME NEW p \in Calls, p # q, Claims(p), GetActiveByRider(r) = {}, r \notin Hasty
        PROVE  caller[p] # r
    BY <1>1, <2>1 DEF RequestRide, GetActiveByRider, Claims
  <2>2. ASSUME NEW p \in Calls, p # q
        PROVE  Claims(p)' = Claims(p) /\ caller'[p] = caller[p]
    BY <1>1, <2>2 DEF RequestRide, Claims
  <2>3. Claims(q)' => GetActiveByRider(r) = {} /\ caller'[q] = r
    BY <1>1 DEF RequestRide, Claims
  <2>4. QED
    BY <2>1, <2>2, <2>3 DEF OneClaim
<1>2. ASSUME UNCHANGED caller, \A q \in Calls : Claims(q)' => Claims(q)
      PROVE  OneClaim'
  BY <1>2 DEF OneClaim
<1>3. ASSUME NEW q \in Calls,
             \/ Create(q)
             \/ Match(q)
             \/ \E d \in Drivers : AcceptRide(q, d) \/ CompleteRide(q, d)
             \/ \E u \in Riders \cup Drivers : CancelRide(q, u)
      PROVE  UNCHANGED caller /\ \A p \in Calls : Claims(p)' => Claims(p)
  BY <1>3 DEF Claims, Create, NewRow, Match, AcceptRide, CompleteRide, CancelRide
<1>4. ASSUME NEW q \in Calls,
             \/ Acquire(q) \/ AcquireBusy(q) \/ Release(q) \/ Answer(q)
             \/ Crash(q)
             \/ \E d \in Drivers : Search(q, d)
      PROVE  UNCHANGED caller /\ \A p \in Calls : Claims(p)' => Claims(p)
  BY <1>4 DEF Claims, Acquire, AcquireBusy, Release, Answer, Crash, Search
<1>5. ASSUME NEW q \in Calls, StepFails(q)
      PROVE  UNCHANGED caller /\ \A p \in Calls : Claims(p)' => Claims(p)
  BY <1>5 DEF Claims, StepFails, OnError
<1>6. CASE Expire \/ UNCHANGED vars
  BY <1>2, <1>6 DEF Claims, Expire, vars
<1>7. QED
  BY <1>1, <1>2, <1>3, <1>4, <1>5, <1>6 DEF Next, CallStep

\* A rider whose calls do not overlap never has two active rides, whatever
\* fails and whatever the others do.
THEOREM OneActiveRidePerCalmRider == Spec => []OneActiveUnlessHasty
<1>1. Init => OneClaim
  BY DEF Init, OneClaim, Claims, Active, ActiveStatus, NoRow, Absent
<1>2. IInv /\ OneClaim /\ [Next]_vars => OneClaim'
  BY OneClaimStep
<1>3. IInv /\ OneClaim => OneActiveUnlessHasty
  BY DEF IInv, TypeInv, TypeOK, RowInv, CallRow, OneClaim, Claims, Active,
         ActiveStatus, Absent, OneActiveRide, OneActiveUnlessHasty
<1>4. QED
  BY <1>1, <1>2, <1>3, Inductive, PTL DEF Spec

-----------------------------------------------------------------------------
(* The matching lock *)

LEMMA HolderStep == TypeInv /\ MatchMutex /\ [Next]_vars => MatchMutex'
<1> SUFFICES ASSUME TypeInv, MatchMutex, [Next]_vars PROVE MatchMutex'
  OBVIOUS
<1> USE ConstantsAssumption
    DEF TypeInv, TypeOK, Stage, MatchMutex, Matching, Goto
<1>1. ASSUME NEW q \in Calls, NEW r \in Riders, RequestRide(q, r)
      PROVE  MatchMutex'
  BY <1>1 DEF RequestRide
<1>2. ASSUME NEW q \in Calls, Create(q) \/ AcquireBusy(q) \/ Match(q) \/ Answer(q)
      PROVE  MatchMutex'
  BY <1>2 DEF Create, AcquireBusy, Match, Answer
<1>3. ASSUME NEW q \in Calls, Acquire(q)
      PROVE  MatchMutex'
  BY <1>3 DEF Acquire
<1>4. ASSUME NEW q \in Calls, Release(q)
      PROVE  MatchMutex'
  BY <1>4 DEF Release
<1>5. ASSUME NEW q \in Calls, NEW d \in Drivers, Search(q, d)
      PROVE  MatchMutex'
  BY <1>5 DEF Search
<1>6. ASSUME NEW q \in Calls, StepFails(q) \/ Crash(q)
      PROVE  MatchMutex'
  BY <1>6 DEF StepFails, OnError, Crash
<1>7. CASE Expire
  BY <1>7 DEF Expire
<1>8. CASE UNCHANGED <<pc, lock>>
  BY <1>8
<1>9. QED
  BY <1>1, <1>2, <1>3, <1>4, <1>5, <1>6, <1>7, <1>8
     DEF Next, CallStep, vars, AcceptRide, CompleteRide, CancelRide

\* Who does not outlast the TTL owns the lock throughout: the matching of two
\* such calls never overlaps.
THEOREM MatchingIsExclusive == Spec => []MatchMutex
<1>1. Init => MatchMutex
  BY DEF Init, MatchMutex, Matching
<1>2. TypeInv /\ MatchMutex /\ [Next]_vars => MatchMutex'
  BY HolderStep
<1>3. IInv => TypeInv
  BY DEF IInv
<1>4. QED
  BY <1>1, <1>2, <1>3, Inductive, PTL DEF Spec

\* Where a call goes is where its stage goes.
LEMMA StageMoves ==
    ASSUME TypeInv, NEW q \in Calls, NEW s \in Stage, Goto(q, s)
    PROVE  /\ s \in {"idle", "checked", "created"} => MatchLock!Goto(q, "trying")
           /\ s \in Matching => MatchLock!Goto(q, "holding")
           /\ s \in {"publish", "done", "dead"} => MatchLock!Goto(q, "over")
  BY DEF TypeInv, TypeOK, Stage, Goto, Matching, stageOf, MatchLock!Goto

\* A step of a call is one use of the lock, or none at all.
LEMMA LeaseStep == TypeInv /\ [Next]_vars => [MatchLock!Next]_(MatchLock!vars)
<1> SUFFICES ASSUME TypeInv, [Next]_vars
             PROVE  MatchLock!Next \/ UNCHANGED MatchLock!vars
  OBVIOUS
<1> DEFINE Stays == UNCHANGED <<lock, stageOf>>
           Uses(q) == \/ MatchLock!Acquire(q) \/ MatchLock!GiveUp(q)
                      \/ MatchLock!Release(q) \/ MatchLock!Abandon(q)
<1>1. \A q \in Calls :
        /\ stageOf[q] = "trying" <=> pc[q] \in {"idle", "checked", "created"}
        /\ stageOf[q] = "holding" <=> pc[q] \in Matching
  BY DEF TypeInv, TypeOK, Stage, Matching, stageOf
<1>2. ASSUME NEW q \in Calls, NEW s, MatchLock!Goto(q, s), stageOf[q] = s, UNCHANGED lock
      PROVE  Stays
  BY <1>2 DEF MatchLock!Goto, stageOf
<1> USE DEF Stage, Matching
<1>3. ASSUME NEW q \in Calls, NEW r \in Riders, RequestRide(q, r)
      PROVE  Uses(q) \/ Stays
  BY <1>1, <1>2, <1>3, StageMoves DEF RequestRide, MatchLock!GiveUp
<1>4. ASSUME NEW q \in Calls, Create(q) \/ AcquireBusy(q)
      PROVE  Uses(q) \/ Stays
  BY <1>1, <1>2, <1>4, StageMoves DEF Create, AcquireBusy, MatchLock!GiveUp
<1>5. ASSUME NEW q \in Calls, Acquire(q)
      PROVE  Uses(q)
  BY <1>1, <1>5, StageMoves DEF Acquire, MatchLock!Acquire
<1>6. ASSUME NEW q \in Calls, Match(q) \/ Answer(q) \/ \E d \in Drivers : Search(q, d)
      PROVE  Stays
  <2>1. PICK s \in Stage : /\ Goto(q, s)
                           /\ \/ pc[q] \in Matching /\ s \in Matching
                              \/ pc[q] = "publish" /\ s = "done"
    BY <1>6 DEF Match, Answer, Search
  <2>2. stageOf[q] = "over" \/ pc[q] # "publish"
    BY DEF stageOf
  <2>3. UNCHANGED lock
    BY <1>6 DEF Match, Answer, Search
  <2>4. QED
    BY <1>1, <1>2, <2>1, <2>2, <2>3, StageMoves
<1>7. ASSUME NEW q \in Calls, Release(q)
      PROVE  Uses(q)
  BY <1>1, <1>7, StageMoves DEF Release, MatchLock!Release
<1>8. ASSUME NEW q \in Calls, StepFails(q)
      PROVE  Uses(q) \/ Stays
  <2>1. PICK s \in Stage : /\ Goto(q, s)
                           /\ \/ pc[q] \in {"checked", "created"} /\ s \in {"publish", "done"}
                              \/ pc[q] \in Matching /\ s = "releasing"
                              \/ pc[q] = "releasing" /\ s = "publish"
    BY <1>8 DEF StepFails, OnError
  <2>2. UNCHANGED lock
    BY <1>8 DEF StepFails
  <2>3. QED
    BY <1>1, <1>2, <2>1, <2>2, StageMoves DEF MatchLock!GiveUp, MatchLock!Abandon
<1>9. ASSUME NEW q \in Calls, Crash(q)
      PROVE  Uses(q) \/ Stays
  <2>1. stageOf[q] = "over" \/ pc[q] # "publish"
    BY DEF stageOf
  <2>2. /\ Goto(q, "dead") /\ UNCHANGED lock
        /\ pc[q] \in {"checked", "created", "publish"} \cup Matching
    BY <1>9 DEF Crash, InFlight, TypeInv, TypeOK
  <2>3. QED
    BY <1>1, <1>2, <2>1, <2>2, StageMoves DEF MatchLock!GiveUp, MatchLock!Abandon
<1>10. CASE Expire
  <2>1. UNCHANGED stageOf
    BY <1>10 DEF Expire, stageOf
  <2>2. lock \in Calls
    BY <1>10 DEF Expire, TypeInv, TypeOK
  <2>3. MatchLock!Expire
    BY <1>1, <1>10, <2>1, <2>2 DEF Expire, MatchLock!Expire
  <2>4. QED
    BY <2>3 DEF MatchLock!Next
<1>11. CASE UNCHANGED <<pc, lock>>
  BY <1>11 DEF MatchLock!vars, stageOf
<1>12. ASSUME NEW q \in Calls, Uses(q) \/ Stays
       PROVE  MatchLock!Next \/ UNCHANGED MatchLock!vars
  BY <1>12 DEF MatchLock!Next, MatchLock!vars
<1> HIDE DEF Stays, Uses
<1>13. QED
  BY <1>3, <1>4, <1>5, <1>6, <1>7, <1>8, <1>9, <1>10, <1>11, <1>12
     DEF Next, CallStep, vars, AcceptRide, CompleteRide, CancelRide

\* The matching lock is used as Lease describes: nobody deletes the key of
\* another, and the TTL takes it from none but the slow and those who are gone.
THEOREM LeaseRefinement == Spec => ImplementsLease
<1>1. Init => MatchLock!Init
  BY DEF Init, MatchLock!Init, stageOf, Matching
<1>2. IInv => TypeInv
  BY DEF IInv
<1>3. QED
  BY <1>1, <1>2, LeaseStep, Inductive, PTL DEF Spec, ImplementsLease, MatchLock!Spec

-----------------------------------------------------------------------------
(* Quotients *)

\* Multiplication keeps the order of naturals.
LEMMA TimesMonotone ==
    ASSUME NEW a \in Nat, NEW b \in Nat, NEW c \in Nat, a <= b
    PROVE  a * c <= b * c
  OBVIOUS

\* A quotient and its remainder.
LEMMA DivBounds ==
    ASSUME NEW a \in Nat, NEW d \in Nat \ {0}
    PROVE  /\ a \div d \in Nat
           /\ (a \div d) * d <= a
           /\ a < ((a \div d) + 1) * d
  OBVIOUS

\* A quotient is the largest factor that fits.
LEMMA DivFits ==
    ASSUME NEW a \in Nat, NEW d \in Nat \ {0}, NEW m \in Nat
    PROVE  m * d <= a <=> m <= a \div d
<1> DEFINE q == a \div d
<1>1. q \in Nat /\ q * d <= a /\ a < (q + 1) * d
  BY DivBounds
<1> HIDE DEF q
<1>2. CASE m <= q
  BY <1>1, <1>2, TimesMonotone
<1>3. CASE q + 1 <= m
  <2>1. (q + 1) * d <= m * d
    BY <1>1, <1>3, TimesMonotone
  <2>2. ~(m * d <= a)
    <3> DEFINE x == (q + 1) * d
               y == m * d
    <3>1. x \in Nat /\ y \in Nat /\ a < x /\ x <= y
      BY <1>1, <2>1
    <3> HIDE DEF x, y
    <3>2. ~(y <= a)
      BY <3>1
    <3>3. QED
      BY <3>2 DEF y
  <2>3. QED
    BY <1>1, <1>3, <2>2
<1>4. QED
  BY <1>1, <1>2, <1>3 DEF q

LEMMA Remainder ==
    ASSUME NEW a \in Nat, NEW d \in Nat \ {0}
    PROVE  a % d = a - (a \div d) * d
  OBVIOUS

\* What Max and Min of the community modules choose.
LEMMA Greatest ==
    ASSUME NEW S \in SUBSET Nat, NEW m \in S, \A x \in S : m >= x
    PROVE  Max(S) = m
<1>1. \A x \in S : (\A y \in S : x >= y) => x = m
  OBVIOUS
<1>2. QED
  BY <1>1 DEF Max

LEMMA Extremes ==
    ASSUME NEW a \in Nat, NEW b \in Nat
    PROVE  /\ Max({a, b}) = IF a <= b THEN b ELSE a
           /\ Min({a, b}) = IF a <= b THEN a ELSE b
<1>1. Max({a, b}) = IF a <= b THEN b ELSE a
  BY DEF Max
<1>2. Min({a, b}) = IF a <= b THEN a ELSE b
  BY DEF Min
<1>3. QED
  BY <1>1, <1>2

\* More divided by less is more.
LEMMA DivMonotone ==
    ASSUME NEW a \in Nat, NEW b \in Nat, NEW d \in Nat \ {0}, NEW e \in Nat \ {0},
           a <= b, d <= e
    PROVE  a \div e <= b \div d
<1> DEFINE q == a \div e
<1>1. q \in Nat /\ q * e <= a
  BY DivBounds
<1> HIDE DEF q
<1>2. d * q <= e * q /\ d * q = q * d /\ e * q = q * e
  BY <1>1, TimesMonotone
<1>3. q * d <= b
  <2> DEFINE x == q * d
             y == q * e
  <2>1. x \in Nat /\ y \in Nat /\ x <= y /\ y <= a
    BY <1>1, <1>2
  <2> HIDE DEF x, y
  <2>2. x <= b
    BY <2>1
  <2>3. QED
    BY <2>2 DEF x
<1>4. q <= b \div d
  BY <1>1, <1>3, DivFits
<1>5. QED
  BY <1>4 DEF q

-----------------------------------------------------------------------------
(* What rides cost *)

\* A quotient kept between the multipliers.
Clamp(q) == IF q <= MinMultiplier THEN MinMultiplier
            ELSE IF q >= MaxMultiplier THEN MaxMultiplier ELSE q

\* The multiplier without sets: the ratio, cut off and clamped.
LEMMA CalculateIs ==
    ASSUME NEW r \in Nat, NEW d \in Nat
    PROVE  Calculate(r, d) =
             IF d = 0 THEN IF r > 0 THEN MaxMultiplier ELSE MinMultiplier
             ELSE IF r <= BaseThreshold THEN MinMultiplier
             ELSE Clamp((10 * r) \div d)
<1> USE DEF MinMultiplier, MaxMultiplier, BaseThreshold
<1>1. CASE d = 0 \/ r <= BaseThreshold
  BY <1>1 DEF Calculate
<1>2. CASE d > 0 /\ r > BaseThreshold
  <2> DEFINE q == (10 * r) \div d
  <2>1. q \in Nat
    BY <1>2, DivBounds
  <2>2. Calculate(r, d) = Max({10, Min({30, q})})
    BY <1>2 DEF Calculate
  <2> HIDE DEF q
  <2>3. Min({30, q}) = IF 30 <= q THEN 30 ELSE q
    BY <2>1, Extremes
  <2>4. Max({10, 30}) = 30 /\ Max({10, q}) = IF 10 <= q THEN q ELSE 10
    BY <2>1, Extremes
  <2>5. Max({10, Min({30, q})}) = Clamp(q)
    BY <2>1, <2>3, <2>4 DEF Clamp
  <2>6. QED
    BY <1>2, <2>2, <2>5 DEF q
<1>3. QED
  BY <1>1, <1>2

\* More requests or fewer drivers never lower the multiplier.
LEMMA CalculateMonotone ==
    ASSUME NEW r \in Nat, NEW t \in Nat, NEW d \in Nat, NEW e \in Nat, r <= t, d <= e
    PROVE  /\ Calculate(r, e) <= Calculate(t, d)
           /\ Calculate(r, d) \in MinMultiplier..MaxMultiplier
<1> USE DEF MinMultiplier, MaxMultiplier, BaseThreshold
<1>1. \A x \in Nat, y \in Nat \ {0} : (10 * x) \div y \in Nat
  BY DivBounds
<1>2. \A x, y \in Nat : Calculate(x, y) \in 10..30
  <2> SUFFICES ASSUME NEW x \in Nat, NEW y \in Nat PROVE Calculate(x, y) \in 10..30
    OBVIOUS
  <2>1. \A q \in Nat : Clamp(q) \in 10..30
    BY DEF Clamp
  <2>2. y # 0 => Clamp((10 * x) \div y) \in 10..30
    BY <1>1, <2>1
  <2> HIDE DEF MinMultiplier, MaxMultiplier
  <2>3. Calculate(x, y) \in {MinMultiplier, MaxMultiplier, Clamp((10 * x) \div y)}
    BY CalculateIs
  <2>4. QED
    BY <2>2, <2>3, CalculateIs DEF MinMultiplier, MaxMultiplier
<1>3. CASE d = 0
  <2>1. Calculate(r, e) = 10 \/ Calculate(t, d) = 30
    BY <1>3, CalculateIs
  <2>2. QED
    BY <1>2, <2>1
<1>4. CASE d > 0 /\ r <= BaseThreshold
  <2>1. e > 0
    BY <1>4
  <2>2. Calculate(r, e) = 10
    BY <1>4, <2>1, CalculateIs
  <2>3. QED
    BY <1>2, <2>2
<1>5. CASE d > 0 /\ r > BaseThreshold
  <2>1. (10 * r) \div e <= (10 * t) \div d
    <3>1. 10 * r \in Nat /\ 10 * t \in Nat /\ 10 * r <= 10 * t
      OBVIOUS
    <3>2. d \in Nat \ {0} /\ e \in Nat \ {0}
      BY <1>5
    <3>3. QED
      BY <3>1, <3>2, DivMonotone
  <2>2. (10 * r) \div e \in Nat /\ (10 * t) \div d \in Nat
    BY <1>1, <1>5
  <2>3. /\ Calculate(r, e) = Clamp((10 * r) \div e)
        /\ Calculate(t, d) = Clamp((10 * t) \div d)
    BY <1>5, CalculateIs
  <2>4. \A x, y \in Nat : x <= y => Clamp(x) <= Clamp(y)
    BY DEF Clamp
  <2>5. QED
    BY <1>2, <2>1, <2>2, <2>3, <2>4
<1>6. QED
  BY <1>2, <1>3, <1>4, <1>5

\* Whatever the counts: the multiplier is the largest tenth that is not above the
\* ratio of requests to drivers, between the two limits.
THEOREM SurgeIsTheRatio == \A n \in Nat : SurgeIsRatio(n)
<1> SUFFICES ASSUME NEW n \in Nat, NEW r \in BaseThreshold + 1..n, NEW d \in 1..n
             PROVE  LET fits == {m \in MinMultiplier..MaxMultiplier : m * d <= 10 * r}
                    IN  Calculate(r, d) = IF fits = {} THEN MinMultiplier ELSE Max(fits)
  BY DEF SurgeIsRatio
<1> DEFINE q == (10 * r) \div d
           fits == {m \in MinMultiplier..MaxMultiplier : m * d <= 10 * r}
<1> USE DEF MinMultiplier, MaxMultiplier, BaseThreshold
<1>1. r \in Nat /\ d \in Nat \ {0} /\ 10 * r \in Nat /\ r > 5
  OBVIOUS
<1>2. q \in Nat
  BY <1>1, DivBounds
<1>3. Calculate(r, d) = Clamp(q)
  BY <1>1, CalculateIs
<1>4. fits = {m \in 10..30 : m <= q}
  BY <1>1, DivFits
<1> HIDE DEF q
<1> SUFFICES Calculate(r, d) = IF fits = {} THEN 10 ELSE Max(fits)
  OBVIOUS
<1> HIDE DEF fits
<1>5. CASE q < 10
  BY <1>2, <1>3, <1>4, <1>5 DEF Clamp
<1>6. CASE q >= 10
  <2>1. Clamp(q) \in fits /\ \A m \in fits : Clamp(q) >= m
    BY <1>2, <1>4, <1>6 DEF Clamp
  <2>2. fits \subseteq Nat
    BY <1>4
  <2>3. Max(fits) = Clamp(q)
    BY <2>1, <2>2, Greatest
  <2>4. fits # {}
    BY <2>1
  <2>5. QED
    BY <1>3, <2>3, <2>4
<1>7. QED
  BY <1>2, <1>5, <1>6

\* Whatever the counts: one request more never makes a ride cheaper, one driver
\* more never dearer, across the threshold and from no driver to the first too.
THEOREM SurgeIsMonotone == \A n \in Nat : SurgeMonotone(n)
<1> SUFFICES ASSUME NEW r \in Nat, NEW d \in Nat
             PROVE  /\ Calculate(r, d) <= Calculate(r + 1, d)
                    /\ Calculate(r, d + 1) <= Calculate(r, d)
  BY DEF SurgeMonotone
<1>1. QED
  BY CalculateMonotone

\* Whatever the counts, and whichever of them cannot be read: drivers that are
\* not counted or not found make a ride dearer, requests that are not counted
\* make it cost the minimum, and no ride leaves the range of the multipliers.
THEOREM ErrorsArePriced == \A n \in Nat : ErrorsPriced(n)
<1> SUFFICES ASSUME NEW n \in Nat, NEW r \in 0..n, NEW d \in 0..n
             PROVE  /\ Quote(r, d, TRUE, FALSE) >= Quote(r, d, TRUE, TRUE)
                    /\ Quote(r, d, TRUE, TRUE) >= Calculate(r, d)
                    /\ \A read \in BOOLEAN : Quote(r, d, FALSE, read) = MinMultiplier
                    /\ \A both \in BOOLEAN \X BOOLEAN :
                         Quote(r, d, both[1], both[2]) \in MinMultiplier..MaxMultiplier
  BY DEF ErrorsPriced
<1> DEFINE found == ActiveDriverCount(d)
<1>1. r \in Nat /\ d \in Nat /\ found \in Nat /\ found <= d
  BY Extremes DEF ActiveDriverCount, MaxFound
<1> HIDE DEF found
<1>2. /\ Quote(r, d, TRUE, TRUE) = Calculate(r, found)
      /\ Quote(r, d, TRUE, FALSE) = Calculate(r, 0)
      /\ Quote(r, d, FALSE, TRUE) = Calculate(0, found)
      /\ Quote(r, d, FALSE, FALSE) = Calculate(0, 0)
  BY DEF Quote, Count, found
<1>3. /\ Calculate(r, found) <= Calculate(r, 0)
      /\ Calculate(r, d) <= Calculate(r, found)
  BY <1>1, CalculateMonotone
<1>4. \A x, y \in Nat : Calculate(x, y) \in MinMultiplier..MaxMultiplier
  BY CalculateMonotone
<1>5. Calculate(0, found) = MinMultiplier /\ Calculate(0, 0) = MinMultiplier
  BY <1>1, CalculateIs DEF BaseThreshold
<1>6. /\ Quote(r, d, TRUE, FALSE) >= Quote(r, d, TRUE, TRUE)
      /\ Quote(r, d, TRUE, TRUE) >= Calculate(r, d)
  BY <1>1, <1>2, <1>3, <1>4 DEF MinMultiplier, MaxMultiplier
<1>7. \A x, y \in BOOLEAN : Quote(r, d, x, y) \in MinMultiplier..MaxMultiplier
  BY <1>1, <1>2, <1>4
<1>8. QED
  BY <1>2, <1>5, <1>6, <1>7

\* Whatever the distance: a longer ride costs more, within the flat charges and
\* three times the rate, and takes no less time.
THEOREM FaresGrow == \A n \in Nat : FareMonotone(n)
<1> SUFFICES ASSUME NEW x \in Nat, NEW s \in MinMultiplier..MaxMultiplier
             PROVE  /\ EstimateFare(x, s) < EstimateFare(x + 1, s)
                    /\ EstimateFare(x, s) <= EstimateFare(x, s + 1)
                    /\ EstimateFare(x, s) \in 350..350 + 90 * x
                    /\ EstimateETA(x) <= EstimateETA(x + 1)
  BY DEF FareMonotone
<1> USE DEF MinMultiplier, MaxMultiplier
<1>1. EstimateFare(x, s) < EstimateFare(x + 1, s)
  <2>1. 3 * (x + 1) * s = 3 * x * s + 3 * s
    OBVIOUS
  <2>2. 3 * x * s \in Nat /\ 3 * s > 0
    OBVIOUS
  <2>3. QED
    BY <2>1, <2>2 DEF EstimateFare
<1>2. EstimateFare(x, s) <= EstimateFare(x, s + 1)
  <2>1. 3 * x * (s + 1) = 3 * x * s + 3 * x
    OBVIOUS
  <2>2. 3 * x * s \in Nat
    OBVIOUS
  <2>3. QED
    BY <2>1, <2>2 DEF EstimateFare
<1>3. EstimateFare(x, s) \in 350..350 + 90 * x
  <2>1. s * (3 * x) <= 30 * (3 * x)
    BY TimesMonotone
  <2>2. s * (3 * x) = 3 * x * s /\ 3 * x * s \in Nat
    OBVIOUS
  <2>3. QED
    BY <2>1, <2>2 DEF EstimateFare
<1>4. EstimateETA(x) <= EstimateETA(x + 1)
  BY DivMonotone DEF EstimateETA
<1>5. QED
  BY <1>1, <1>2, <1>3, <1>4

-----------------------------------------------------------------------------
(* Pages *)

\* An integer that fits is what it is, and none is ever above the largest.
LEMMA WrapFits ==
    ASSUME NEW a \in Nat, NEW half \in Nat \ {0}
    PROVE  /\ Wrap(a, half) <= half - 1
           /\ a < half => Wrap(a, half) = a
<1>1. 2 * half \in Nat \ {0} /\ a + half \in Nat
  OBVIOUS
<1>2. (a + half) % (2 * half) \in 0..2 * half - 1
  BY <1>1
<1>3. CASE a < half
  <2>1. (a + half) % (2 * half) = a + half
    BY <1>1, <1>3
  <2>2. QED
    BY <1>3, <2>1 DEF Wrap
<1>4. QED
  BY <1>2, <1>3 DEF Wrap

\* The limit of a page, whatever the query says.
Limit(limit) == Parse({}, limit, 1).limit

\* What becomes of a page from the first on.
LEMMA Parsed ==
    ASSUME NEW k \in Nat \ {0}, NEW limit, limit = {} \/ \E l \in Int : limit = {l}, NEW half
    PROVE  /\ Limit(limit) \in 1..MaxLimit
           /\ Parse({k}, limit, half) = [page |-> k, limit |-> Limit(limit),
                                         offset |-> Wrap((k - 1) * Limit(limit), half)]
<1>1. ParseIntDefault({k}, DefaultPage) = k
  BY DEF ParseIntDefault
<1>2. ParseIntDefault(limit, DefaultLimit) \in Int
  BY DEF ParseIntDefault, DefaultLimit
<1> DEFINE given == ParseIntDefault(limit, DefaultLimit)
           l == IF given < 1 THEN DefaultLimit ELSE IF given > MaxLimit THEN MaxLimit ELSE given
<1>3. l \in 1..MaxLimit
  BY <1>2 DEF DefaultLimit, MaxLimit
<1>4. Limit(limit) = l
  BY DEF Parse, Limit
<1>5. Parse({k}, limit, half) = [page |-> k, limit |-> l, offset |-> Wrap((k - 1) * l, half)]
  <2>1. ~(k < 1)
    OBVIOUS
  <2>2. QED
    BY <1>1, <2>1 DEF Parse
<1>6. QED
  BY <1>3, <1>4, <1>5

\* The pages are as many as the records need.
PageCount(total, l) == IF total % l > 0 THEN total \div l + 1 ELSE total \div l

LEMMA PagesSuffice ==
    ASSUME NEW total \in Nat, NEW l \in 1..MaxLimit
    PROVE  /\ PageCount(total, l) \in Nat
           /\ \A k \in Nat : k < PageCount(total, l) <=> k * l < total
<1> USE DEF MaxLimit
<1> DEFINE q == total \div l
<1>1. q \in Nat /\ q * l <= total /\ total < (q + 1) * l /\ total % l = total - q * l
  BY DivBounds, Remainder
<1>2. \A k \in Nat : k * l <= total <=> k <= q
  BY DivFits
<1>3. PageCount(total, l) = IF total % l > 0 THEN q + 1 ELSE q
  BY DEF PageCount
<1> HIDE DEF q
<1>4. PageCount(total, l) \in Nat
  BY <1>1, <1>3
<1>5. ASSUME NEW k \in Nat
      PROVE  k < PageCount(total, l) <=> k * l < total
  <2>1. k * l \in Nat
    OBVIOUS
  <2>2. CASE k * l = total
    <3>1. k <= q
      BY <1>2, <2>2
    <3>2. q * l <= k * l
      BY <1>1, <2>2
    <3>3. ~(k < q)
      <4> SUFFICES ASSUME k + 1 <= q PROVE FALSE
        BY <1>1
      <4>1. (k + 1) * l <= q * l
        BY <1>1, TimesMonotone
      <4>2. (k + 1) * l = k * l + l
        OBVIOUS
      <4>3. QED
        BY <1>1, <2>1, <2>2, <4>1, <4>2
    <3>4. total % l = 0
      BY <1>1, <2>2, <3>1, <3>3
    <3>5. QED
      BY <1>1, <1>3, <2>1, <2>2, <3>3, <3>4
  <2>3. CASE k * l < total
    <3>1. k <= q
      BY <1>2, <2>3
    <3>2. CASE k = q
      BY <1>1, <1>3, <2>1, <2>3, <3>2
    <3>3. QED
      BY <1>1, <1>3, <3>1, <3>2, <2>3
  <2>4. CASE k * l > total
    <3>1. k > q
      BY <1>1, <1>2, <2>1, <2>4
    <3>2. QED
      BY <1>1, <1>3, <2>1, <2>4, <3>1
  <2>5. QED
    BY <2>1, <2>2, <2>3, <2>4
<1>6. QED
  BY <1>4, <1>5

\* Whatever the limit asked for and however many records, as long as they are some
\* below the largest integer: page after page shows every record exactly once,
\* says rightly whether there is more, and there is nothing after the last.
THEOREM PagesPartition ==
    \A n, half \in Nat, limit \in {{}} \cup {{l} : l \in Int} :
        n + MaxLimit < half => EveryRecordOnce(n, limit, half)
<1> SUFFICES ASSUME NEW n \in Nat, NEW half \in Nat, n + MaxLimit < half,
                    NEW limit \in {{}} \cup {{l} : l \in Int}, NEW total \in 0..n
             PROVE  LET page(k) == Parse({k}, limit, half)
                        pages == NewResponse(page(1), total).totalPages
                    IN  /\ \A i \in 0..total - 1 :
                             Cardinality({k \in 1..pages : i \in Records(page(k), total)}) = 1
                        /\ \A k \in 1..pages + 1 :
                             /\ NewResponse(page(k), total).hasMore <=>
                                  \E i \in 0..total - 1 : i >= page(k).offset + page(k).limit
                             /\ k > pages => Records(page(k), total) = {}
  BY DEF EveryRecordOnce
<1> DEFINE page(k) == Parse({k}, limit, half)
           pages == NewResponse(page(1), total).totalPages
           l == Limit(limit)
           count == PageCount(total, l)
<1>1. l \in 1..MaxLimit /\ total \in Nat /\ half \in Nat \ {0}
  <2>1. 1 \in Nat \ {0} /\ (limit = {} \/ \E m \in Int : limit = {m})
    OBVIOUS
  <2>2. l \in 1..MaxLimit
    BY <2>1, Parsed
  <2>3. QED
    BY <2>2 DEF MaxLimit
<1>2. \A k \in Nat \ {0} : page(k) = [page |-> k, limit |-> l, offset |-> Wrap((k - 1) * l, half)]
  BY Parsed
<1> HIDE DEF page, l
<1>3. ASSUME NEW k \in Nat \ {0}
      PROVE  /\ NewResponse(page(k), total).totalPages = count
             /\ NewResponse(page(k), total).hasMore <=> k < count
  <2>1. page(k).limit = l /\ page(k).page = k
    BY <1>2
  <2>2. QED
    BY <2>1 DEF NewResponse, PageCount
<1>4. pages = count
  <2>1. NewResponse(page(1), total).totalPages = count
    BY <1>3
  <2>2. QED
    BY <2>1
<1> HIDE DEF pages, count
<1> SUFFICES /\ \A i \in 0..total - 1 :
                  Cardinality({k \in 1..count : i \in Records(page(k), total)}) = 1
             /\ \A k \in 1..count + 1 :
                  /\ NewResponse(page(k), total).hasMore <=>
                       \E i \in 0..total - 1 : i >= page(k).offset + page(k).limit
                  /\ k > count => Records(page(k), total) = {}
  BY <1>4 DEF page, pages
<1>5. /\ count \in Nat
      /\ \A k \in Nat : k < count <=> k * l < total
  BY <1>1, PagesSuffice DEF count
<1>6. ASSUME NEW k \in 1..count + 1
      PROVE  /\ page(k).offset = (k - 1) * l /\ page(k).limit = l
             /\ (k - 1) * l \in Nat
             /\ (k - 1) * l + l = k * l
  <2>1. k - 1 \in Nat /\ k \in Nat \ {0} /\ (k - 1) * l \in Nat
    BY <1>1, <1>5
  <2>2. (k - 1) * l + l = k * l
    BY <1>1, <2>1
  <2>3. (k - 1) * l < half
    <3>1. CASE k = 1
      BY <1>1, <3>1
    <3>2. CASE k > 1
      <4>1. k - 2 \in Nat /\ k - 2 < count
        BY <1>5, <3>2
      <4>2. (k - 2) * l < total
        BY <1>5, <4>1
      <4>3. (k - 1) * l = (k - 2) * l + l /\ (k - 2) * l \in Nat
        BY <1>1, <4>1
      <4> DEFINE x == (k - 2) * l
      <4>4. x \in Nat /\ x < total /\ total <= n /\ l <= 100
        BY <1>1, <4>2, <4>3 DEF MaxLimit
      <4> HIDE DEF x
      <4>5. x + l < half
        BY <1>1, <4>4 DEF MaxLimit
      <4>6. QED
        BY <4>3, <4>5 DEF x
    <3>3. QED
      BY <2>1, <3>1, <3>2
  <2>4. Wrap((k - 1) * l, half) = (k - 1) * l
    BY <1>1, <2>1, <2>3, WrapFits
  <2>5. QED
    BY <1>2, <2>1, <2>2, <2>4
<1>7. ASSUME NEW i \in 0..total - 1
      PROVE  Cardinality({k \in 1..count : i \in Records(page(k), total)}) = 1
  <2> DEFINE j == i \div l
  <2>1. i \in Nat /\ l \in Nat \ {0}
    BY <1>1 DEF MaxLimit
  <2>2. j \in Nat /\ j * l <= i
    BY <2>1, DivBounds
  <2>3. \A m \in Nat : m * l <= i <=> m <= j
    BY <2>1, DivFits
  <2> HIDE DEF j
  <2>4. j < count
    <3>1. j * l \in Nat /\ j * l < total
      BY <1>1, <2>1, <2>2
    <3>2. QED
      BY <1>5, <2>2, <3>1
  <2>5. ASSUME NEW k \in 1..count
        PROVE  i \in Records(page(k), total) <=> k = j + 1
    <3>1. k \in 1..count + 1 /\ k - 1 \in Nat /\ k \in Nat
      BY <1>5
    <3>2. i \in Records(page(k), total) <=> (k - 1) * l <= i /\ i < k * l
      BY <1>6, <3>1 DEF Records
    <3>3. k * l \in Nat
      BY <2>1, <3>1
    <3>4. ((k - 1) * l <= i <=> k - 1 <= j) /\ (i < k * l <=> ~(k <= j))
      BY <2>1, <2>3, <3>1, <3>3
    <3>5. QED
      BY <2>2, <3>1, <3>2, <3>4
  <2>6. {k \in 1..count : i \in Records(page(k), total)} = {j + 1}
    BY <1>5, <2>2, <2>4, <2>5
  <2>7. QED
    BY <2>6, FS_Singleton
<1>8. ASSUME NEW k \in 1..count + 1
      PROVE  /\ NewResponse(page(k), total).hasMore <=>
                  \E i \in 0..total - 1 : i >= page(k).offset + page(k).limit
             /\ k > count => Records(page(k), total) = {}
  <2>1. k \in Nat \ {0} /\ k * l \in Nat
    BY <1>1, <1>5
  <2>2. page(k).offset + page(k).limit = k * l
    BY <1>6
  <2>3. NewResponse(page(k), total).hasMore <=> k * l < total
    BY <1>3, <1>5, <2>1, Zenon
  <2>4. k * l < total <=> \E i \in 0..total - 1 : i >= k * l
    BY <1>1, <2>1
  <2>5. ASSUME k > count
        PROVE  Records(page(k), total) = {}
    <3>1. k - 1 \in Nat /\ ~((k - 1) * l < total)
      BY <1>5, <2>5
    <3>2. page(k).offset = (k - 1) * l /\ (k - 1) * l \in Nat
      BY <1>6
    <3>3. QED
      BY <1>1, <3>1, <3>2 DEF Records
  <2>6. QED
    BY <2>2, <2>3, <2>4, <2>5
<1>9. QED
  BY <1>7, <1>8

\* For every width of integers the offset is right exactly up to the page from
\* which on it overflows.
THEOREM OffsetsExact ==
    \A limit \in 1..MaxLimit, half \in Nat : OffsetsUntilOverflow(limit, half)
<1> SUFFICES ASSUME NEW limit \in 1..MaxLimit, NEW half \in Nat, NEW page \in 1..half - 1
             PROVE  (Parse({page}, {limit}, half).offset = (page - 1) * limit)
                        <=> (page - 1) * limit <= half - 1
  BY DEF OffsetsUntilOverflow
<1>1. Limit({limit}) = limit
  BY DEF Limit, Parse, ParseIntDefault, MaxLimit
<1>2. limit \in Int /\ page \in Nat \ {0} /\ half \in Nat \ {0} /\ page - 1 \in Nat
  BY DEF MaxLimit
<1>3. Parse({page}, {limit}, half).offset = Wrap((page - 1) * limit, half)
  <2>1. \E l \in Int : {limit} = {l}
    BY <1>2
  <2>2. QED
    <3>1. Parse({page}, {limit}, half) =
            [page |-> page, limit |-> Limit({limit}),
             offset |-> Wrap((page - 1) * Limit({limit}), half)]
      BY <1>2, <2>1, Parsed
    <3>2. Parse({page}, {limit}, half) =
            [page |-> page, limit |-> limit, offset |-> Wrap((page - 1) * limit, half)]
      BY <1>1, <3>1, Zenon
    <3>3. QED
      BY <3>2
<1>4. (page - 1) * limit \in Nat
  BY <1>2 DEF MaxLimit
<1>5. QED
  BY <1>2, <1>3, <1>4, WrapFits

=============================================================================
