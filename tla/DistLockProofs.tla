--------------------------- MODULE DistLockProofs --------------------------
(***************************************************************************)
(* Proofs about DistLock for every set of clients and every timing.        *)
(***************************************************************************)
EXTENDS DistLock, TLAPS

\* The live key of a client that is within its TTL expires exactly when that
\* TTL ends; nobody took the lock in the future.
Inv ==
    /\ TypeOK
    /\ LeaseExclusive
    /\ \A p \in Clients :
         /\ since[p] <= now
         /\ Within(p) => expires = since[p] + TTL

LEMMA InvInit == Init => Inv
  BY ConstantsAssumption DEF Init, Inv, TypeOK, LeaseExclusive, Within

LEMMA InvStep == Inv /\ [Next]_vars => Inv'
<1> SUFFICES ASSUME Inv, [Next]_vars PROVE Inv'
  OBVIOUS
<1> USE ConstantsAssumption DEF Inv, TypeOK, LeaseExclusive, Within, Holder, Attempts
<1>1. ASSUME NEW p \in Clients, Acquire(p)
      PROVE  Inv'
  BY <1>1 DEF Acquire
<1>2. ASSUME NEW p \in Clients, AcquireBusy(p)
      PROVE  Inv'
  BY <1>2 DEF AcquireBusy
<1>3. ASSUME NEW p \in Clients, GiveUp(p) \/ Abandon(p)
      PROVE  Inv'
  BY <1>3 DEF GiveUp, Abandon
<1>4. ASSUME NEW p \in Clients, Release(p)
      PROVE  Inv'
  BY <1>4 DEF Release
<1>5. CASE Tick
  BY <1>5 DEF Tick
<1>6. CASE UNCHANGED vars
  BY <1>6 DEF vars
<1>7. QED
  BY <1>1, <1>2, <1>3, <1>4, <1>5, <1>6 DEF Next

LEMMA Inductive == Spec => []Inv
  BY InvInit, InvStep, PTL DEF Spec

\* Every variable of the lock and its clients keeps its type, and nobody makes
\* more than MaxRetries attempts.
THEOREM TypeCorrect == Spec => []TypeOK
<1>1. Inv => TypeOK
  BY DEF Inv
<1>2. QED
  BY <1>1, Inductive, PTL

\* A client within its TTL owns the key, whatever earlier holders still do.
THEOREM LeaseIsExclusive == Spec => []LeaseExclusive
<1>1. Inv => LeaseExclusive
  BY DEF Inv
<1>2. QED
  BY <1>1, Inductive, PTL

\* No live key is ever deleted by another client than its owner.
THEOREM OwnerDeletes == Spec => OnlyOwnerDeletes
<1>1. Inv /\ [Next]_vars =>
        [\A p \in Clients :
           Holder = p /\ Holder' # p =>
               \/ stage[p] = "holding" /\ stage'[p] = "released"
               \/ now' >= expires]_vars
  BY ConstantsAssumption
     DEF Inv, TypeOK, Holder, Attempts, Next, Acquire, AcquireBusy, GiveUp, Release,
         Abandon, Tick
<1>2. QED
  BY <1>1, Inductive, PTL DEF Spec, OnlyOwnerDeletes

-----------------------------------------------------------------------------

\* Who holds the lock has not reached the limit of its hold.
HoldBounded ==
    \A p \in Clients : stage[p] = "holding" => now <= since[p] + HoldLimit(p)

LEMMA HoldInductive == Spec => []HoldBounded
<1>1. Init => HoldBounded
  BY ConstantsAssumption DEF Init, HoldBounded
<1>2. Inv /\ HoldBounded /\ [Next]_vars => HoldBounded'
  BY ConstantsAssumption
     DEF Inv, TypeOK, HoldBounded, HoldLimit, Attempts, Next, vars, Acquire, AcquireBusy, GiveUp,
         Release, Abandon, Tick
<1>3. QED
  BY <1>1, <1>2, Inductive, PTL DEF Spec

\* The lock excludes those who release it, or die, before the TTL of their key
\* has passed.
THEOREM Exclusion == Spec => []MutualExclusion
<1>1. Inv /\ HoldBounded => MutualExclusion
  BY ConstantsAssumption
     DEF Inv, TypeOK, LeaseExclusive, HoldBounded, HoldLimit, Within, MutualExclusion
<1>2. QED
  BY <1>1, Inductive, HoldInductive, PTL

-----------------------------------------------------------------------------
(* The lock without its clock *)

\* A tick of the clock is nothing, or the expiry of the key: of one whose client
\* is slow or has stopped, as the others stop before their TTL has passed.
LEMMA TickExpires ==
    ASSUME Inv, HoldBounded', Tick
    PROVE  Clockless!Expire \/ UNCHANGED <<Holder, phaseOf>>
<1> USE ConstantsAssumption DEF Inv, TypeOK, Holder, Tick
<1>1. UNCHANGED phaseOf
  BY DEF phaseOf
<1>2. CASE UNCHANGED Holder
  BY <1>1, <1>2
<1>3. CASE Holder' # Holder
  <2>1. Holder = key /\ key \in Clients /\ Holder' = NoClient /\ now' = expires
    BY <1>3
  <2>2. ASSUME key \notin Slow, stage[key] = "holding"
        PROVE  FALSE
    <3>1. now' <= since[key] + TTL - 1
      BY <2>1, <2>2 DEF HoldBounded, HoldLimit
    <3>2. Within(key)
      BY <2>1, <2>2, <3>1 DEF Within
    <3>3. expires = since[key] + TTL
      BY <2>1, <3>2
    <3>4. QED
      BY <2>1, <3>1, <3>3
  <2>3. QED
    BY <1>1, <2>1, <2>2 DEF Clockless!Expire, phaseOf
<1>4. QED
  BY <1>2, <1>3

LEMMA ClocklessStep ==
    Inv /\ HoldBounded' /\ [Next]_vars => [Clockless!Next]_(Clockless!vars)
<1> SUFFICES ASSUME Inv, HoldBounded', [Next]_vars
             PROVE  Clockless!Next \/ UNCHANGED Clockless!vars
  OBVIOUS
<1> USE ConstantsAssumption DEF Inv, TypeOK, Holder, phaseOf, Clockless!Goto
<1>1. ASSUME NEW p \in Clients, Acquire(p)
      PROVE  Clockless!Acquire(p)
  <2>1. stage[p] = "trying" /\ Holder = NoClient /\ Holder' = p
    BY <1>1 DEF Acquire, Attempts
  <2>2. PICK answered \in BOOLEAN :
          stage' = [stage EXCEPT ![p] = IF answered THEN "holding" ELSE "gone"]
    BY <1>1 DEF Acquire
  <2>3. Clockless!Goto(p, IF answered THEN "holding" ELSE "over")
    BY <2>2
  <2>4. QED
    BY <2>1, <2>3 DEF Clockless!Acquire
<1>2. ASSUME NEW p \in Clients, AcquireBusy(p)
      PROVE  UNCHANGED Clockless!vars
  BY <1>2 DEF AcquireBusy, Clockless!vars
<1>3. ASSUME NEW p \in Clients, GiveUp(p)
      PROVE  Clockless!GiveUp(p)
  BY <1>3 DEF GiveUp, Clockless!GiveUp
<1>4. ASSUME NEW p \in Clients, Release(p)
      PROVE  Clockless!Release(p)
  <2>1. phaseOf[p] = "holding" /\ Clockless!Goto(p, "over")
    BY <1>4 DEF Release
  <2>2. Holder' = IF Holder = p THEN NoClient ELSE Holder
    BY <1>4 DEF Release
  <2>3. QED
    BY <2>1, <2>2 DEF Clockless!Release
<1>5. ASSUME NEW p \in Clients, Abandon(p)
      PROVE  Clockless!Abandon(p)
  BY <1>5 DEF Abandon, Clockless!Abandon
<1>6. CASE Tick
  BY <1>6, TickExpires DEF Clockless!Next, Clockless!vars
<1>7. CASE UNCHANGED vars
  BY <1>7 DEF vars, Clockless!vars
<1> HIDE DEF Inv, TypeOK, Holder, phaseOf, Clockless!Goto
<1>8. QED
  BY <1>1, <1>2, <1>3, <1>4, <1>5, <1>6, <1>7 DEF Next, Clockless!Next

\* With its clock the lock implements Lease, for every timing of the clients.
THEOREM LeaseRefinement == Spec => ImplementsLease
<1>1. Init => Clockless!Init
  BY DEF Init, Holder, phaseOf, Clockless!Init
<1>2. QED
  BY <1>1, ClocklessStep, Inductive, HoldInductive, PTL
     DEF Spec, ImplementsLease, Clockless!Spec

=============================================================================
