--------------------------- MODULE CheckoutProofs ---------------------------
(***************************************************************************)
(* Proofs about Gateway and Checkout for all requests, users, rides,       *)
(* routes, limits and windows.  Checkout does nothing to either of its     *)
(* parts that the part does not do alone, so what holds of Gateway and of  *)
(* Payment holds of it.                                                    *)
(***************************************************************************)
EXTENDS Checkout, PaymentProofs, FiniteSetTheorems

-----------------------------------------------------------------------------
(* The types of the gateway *)

LEMMA ErrorsAreNumbers == ASSUME NEW grpc PROVE HandleError(grpc) \in Nat
BY DEF HandleError

LEMMA RepliesAreNumbers ==
    ASSUME NEW route \in Routes PROVE Replies(route) \subseteq Nat
<1>1. route.ok \in Nat
  BY DEF Routes, ProtectedRoutes, AuthRoutes, UserRoutes, RideRoutes,
         LocationRoutes, PaymentRoutes, ChargeRoute, LookupRoute, Route
<1>2. ASSUME NEW code PROVE ErrorStatus(route.service, code) \in Nat
  BY ErrorsAreNumbers DEF ErrorStatus
<1>3. QED
  BY <1>1, <1>2 DEF Replies

LEMMA RefusalsAreNumbers ==
    ASSUME NEW route \in Routes PROVE route.refusals \subseteq Nat
BY DEF Routes, ProtectedRoutes, AuthRoutes, UserRoutes, RideRoutes,
       LocationRoutes, PaymentRoutes, ChargeRoute, LookupRoute, Route

LEMMA GatewayInitTypes == GatewayInit => GatewayTypeOK
BY GatewayAssumption
   DEF GatewayInit, GatewayTypeOK, Phase, NoWindow, Expired, NoAnswer

LEMMA ProcessTypes == GatewayTypeOK /\ ProcessStep => GatewayTypeOK'
<1> SUFFICES ASSUME GatewayTypeOK, ProcessStep PROVE GatewayTypeOK'
  OBVIOUS
<1>1. CASE Boot \/ ConnectDatabase \/ GiveUp \/ Shutdown
  BY <1>1 DEF Boot, ConnectDatabase, GiveUp, Shutdown, GatewayTypeOK, Phase,
              limiter, handling
<1>2. CASE ConnectRedis
  BY <1>2, GatewayAssumption DEF ConnectRedis, FreshLimiter, NoWindow,
     GatewayTypeOK, Phase, Expired, handling
<1>3. CASE Exit
  BY <1>3 DEF Exit, GatewayTypeOK, Phase, limiter
<1>4. CASE Cleanup
  BY <1>4, GatewayAssumption DEF Cleanup, NoWindow, GatewayTypeOK, Expired, handling
<1>5. CASE Tick
  <2>1. Expired \in Nat
    BY GatewayAssumption DEF Expired
  <2>2. \A n \in 0..Expired : Older(n) \in 0..Expired
    BY <2>1 DEF Older
  <2>3. age' \in [Requests -> 0..Expired]
    BY <1>5, <2>2 DEF Tick, GatewayTypeOK
  <2>4. windows' \in [Users -> [count : Nat, elapsed : 0..Expired]]
    <3>1. \A u \in Users : [windows[u] EXCEPT !.elapsed = Older(@)]
                             \in [count : Nat, elapsed : 0..Expired]
      BY <2>2 DEF GatewayTypeOK
    <3>2. QED
      BY <1>5, <3>1 DEF Tick
  <2>5. QED
    BY <1>5, <2>3, <2>4 DEF Tick, GatewayTypeOK, handling
<1>6. QED
  BY <1>1, <1>2, <1>3, <1>4, <1>5 DEF ProcessStep

LEMMA RequestTypes ==
    ASSUME GatewayTypeOK, NEW q \in Requests, NEW route \in Offered,
           Request(q, route)
    PROVE  GatewayTypeOK'
<1>1. route.refusals \subseteq Nat
  BY GatewayAssumption, RefusalsAreNumbers
<1>2. phase' \in Phase
  BY DEF Request, TurnAway, PublicRequest, UserRequest, Comes, GatewayTypeOK
<1>3. /\ at' \in [Requests -> {"idle", "over"} \cup {rt.rpc : rt \in Offered}]
      /\ status' \in [Requests -> Nat]
  BY <1>1 DEF Request, TurnAway, PublicRequest, UserRequest, Handle, Respond,
              GatewayTypeOK
<1>4. /\ windows' \in [Users -> [count : Nat, elapsed : 0..Expired]]
      /\ user' \in [Requests -> Users \cup {NoUser}]
      /\ age' \in [Requests -> 0..Expired]
  <2>1. CASE UNCHANGED limiter
    BY <2>1 DEF limiter, GatewayTypeOK
  <2>2. ASSUME NEW u \in Users, Allow(q, u) \/ Deny(u)
        PROVE  <1>4!:
    <3>1. Counted(u) \in [count : Nat, elapsed : 0..Expired]
      BY GatewayAssumption DEF Counted, Expired, GatewayTypeOK
    <3>2. 0 \in 0..Expired
      BY GatewayAssumption DEF Expired
    <3>3. windows' = [windows EXCEPT ![u] = Counted(u)]
      BY <2>2 DEF Allow, Deny
    <3>4. \/ user' = [user EXCEPT ![q] = u] /\ age' = [age EXCEPT ![q] = 0]
          \/ UNCHANGED <<user, age>>
      BY <2>2 DEF Allow, Deny
    <3>5. QED
      BY <3>1, <3>2, <3>3, <3>4 DEF GatewayTypeOK
  <2>3. QED
    BY <2>1, <2>2 DEF Request, TurnAway, PublicRequest, UserRequest
<1>5. QED
  BY <1>2, <1>3, <1>4 DEF GatewayTypeOK

LEMMA GatewayTypeStep ==
    GatewayTypeOK /\ [GatewayNext]_gatewayVars => GatewayTypeOK'
<1> SUFFICES ASSUME GatewayTypeOK, [GatewayNext]_gatewayVars PROVE GatewayTypeOK'
  OBVIOUS
<1>1. CASE ProcessStep
  BY <1>1, ProcessTypes
<1>2. ASSUME NEW q \in Requests, NEW route \in Offered, Request(q, route)
      PROVE  GatewayTypeOK'
  BY <1>2, RequestTypes
<1>3. ASSUME NEW q \in Requests, NEW route \in Offered, Reply(q, route)
      PROVE  GatewayTypeOK'
  <2>1. Replies(route) \subseteq Nat
    BY GatewayAssumption, RepliesAreNumbers
  <2>2. QED
    BY <1>3, <2>1 DEF Reply, Respond, GatewayTypeOK, limiter
<1>4. ASSUME NEW q \in Requests, HealthCheck(q) \/ HangUp(q)
      PROVE  GatewayTypeOK'
  BY <1>4 DEF HealthCheck, HangUp, Comes, Respond, GatewayTypeOK, limiter
<1>5. CASE UNCHANGED gatewayVars
  BY <1>5 DEF gatewayVars, GatewayTypeOK, limiter, handling
<1>6. QED
  BY <1>1, <1>2, <1>3, <1>4, <1>5 DEF GatewayNext

-----------------------------------------------------------------------------
(* Bursts *)

\* The recent requests of u that were counted in its present window, and those
\* counted in the one before.
InWindow(u) == {q \in Recent(u) : age[q] <= windows[u].elapsed}

Before(u) == {q \in Recent(u) : age[q] > windows[u].elapsed}

\* A window that is over was the last in which a request of its user passed, so
\* all recent requests were counted in it; the next one starts from zero.
Windowed(u) ==
    /\ windows[u].elapsed = Expired =>
         \A q \in Requests : user[q] = u => age[q] # 0
    /\ windows[u].elapsed # Expired => Cardinality(InWindow(u)) <= windows[u].count
    /\ Cardinality(InWindow(u)) <= MaxReqs
    /\ Cardinality(Before(u)) <= MaxReqs

LEMMA Fewer ==
    ASSUME NEW A \in SUBSET Requests, NEW B \in SUBSET A
    PROVE  /\ Cardinality(A) \in Nat
           /\ Cardinality(B) \in Nat
           /\ Cardinality(B) <= Cardinality(A)
BY GatewayAssumption, FS_Subset, FS_CardinalityType

LEMMA OneMore ==
    ASSUME NEW A \in SUBSET Requests, NEW q \in Requests
    PROVE  Cardinality(A \cup {q}) <= Cardinality(A) + 1
<1>1. IsFiniteSet(A)
  BY GatewayAssumption, FS_Subset
<1>2. Cardinality(A) \in Nat
  BY <1>1, FS_CardinalityType
<1>3. Cardinality(A \cup {q}) = IF q \in A THEN Cardinality(A) ELSE Cardinality(A) + 1
  BY <1>1, FS_AddElement
<1>4. QED
  BY <1>2, <1>3

\* A step that adds nothing to the two groups of u, lowers no count and neither
\* opens nor ends the window of u.
LEMMA StaysWindowed ==
    ASSUME NEW u \in Users, Windowed(u),
           InWindow(u)' \subseteq InWindow(u), Before(u)' \subseteq Before(u),
           windows'[u].elapsed = Expired =>
               \A q \in Requests : user'[q] = u => age'[q] # 0,
           windows'[u].elapsed # Expired =>
               /\ windows[u].elapsed # Expired
               /\ windows[u].count \in Nat /\ windows'[u].count \in Nat
               /\ windows[u].count <= windows'[u].count
    PROVE  Windowed(u)'
<1>1. InWindow(u) \in SUBSET Requests /\ Before(u) \in SUBSET Requests
  BY DEF InWindow, Before, Recent
<1>2. /\ Cardinality(InWindow(u)) \in Nat
      /\ Cardinality(InWindow(u)') \in Nat
      /\ Cardinality(InWindow(u)') <= Cardinality(InWindow(u))
  BY <1>1, Fewer
<1>3. /\ Cardinality(Before(u)) \in Nat
      /\ Cardinality(Before(u)') \in Nat
      /\ Cardinality(Before(u)') <= Cardinality(Before(u))
  BY <1>1, Fewer
<1>4. QED
  BY <1>2, <1>3, GatewayAssumption DEF Windowed

LEMMA ProcessWindowed ==
    ASSUME GatewayTypeOK, ProcessStep, NEW u \in Users, Windowed(u)
    PROVE  Windowed(u)'
<1> USE GatewayAssumption
<1>1. /\ windows[u].count \in Nat
      /\ windows[u].elapsed \in 0..Expired
      /\ \A q \in Requests : age[q] \in 0..Expired
      /\ Expired = Window + 1
  BY DEF GatewayTypeOK, Expired
<1>2. CASE UNCHANGED limiter
  BY <1>2 DEF limiter, Windowed, InWindow, Before, Recent
<1>3. CASE ConnectRedis
  <2>1. InWindow(u)' = {} /\ Before(u)' = {}
    BY <1>1, <1>3 DEF ConnectRedis, FreshLimiter, InWindow, Before, Recent
  <2>2. /\ windows'[u].elapsed = Expired
        /\ \A q \in Requests : age'[q] # 0
    BY <1>1, <1>3 DEF ConnectRedis, FreshLimiter, NoWindow
  <2>3. QED
    BY <2>1, <2>2, StaysWindowed
<1>4. CASE Cleanup
  <2>1. /\ windows'[u].elapsed = windows[u].elapsed
        /\ windows'[u].elapsed # Expired => windows'[u] = windows[u]
        /\ UNCHANGED <<user, age>>
    BY <1>4 DEF Cleanup, NoWindow
  <2>2. InWindow(u)' = InWindow(u) /\ Before(u)' = Before(u)
    BY <2>1 DEF InWindow, Before, Recent
  <2>3. QED
    BY <1>1, <2>1, <2>2, StaysWindowed DEF Windowed
<1>5. CASE Tick
  <2>1. /\ windows'[u].elapsed = Older(windows[u].elapsed)
        /\ windows'[u].count = windows[u].count
        /\ \A q \in Requests : age'[q] = Older(age[q])
        /\ user' = user
    BY <1>5 DEF Tick, GatewayTypeOK
  <2>2. \A q \in Requests : age'[q] # 0
    BY <1>1, <2>1 DEF Older
  <2>3. InWindow(u)' \subseteq InWindow(u)
    BY <1>1, <2>1 DEF InWindow, Recent, Older
  <2>4. Before(u)' \subseteq Before(u)
    BY <1>1, <2>1 DEF Before, Recent, Older
  <2>5. windows'[u].elapsed # Expired => windows[u].elapsed # Expired
    BY <2>1 DEF Older
  <2>6. QED
    BY <1>1, <2>1, <2>2, <2>3, <2>4, <2>5, StaysWindowed
<1>6. QED
  BY <1>2, <1>3, <1>4, <1>5
     DEF ProcessStep, Boot, ConnectDatabase, GiveUp, Shutdown, Exit

\* Counting a request in the window of its user, and letting it pass or not.
LEMMA CountingWindowed ==
    ASSUME GatewayTypeOK, NEW u \in Users, Windowed(u), NEW q \in Requests,
           Allow(q, u) \/ Deny(u)
    PROVE  Windowed(u)'
<1> USE GatewayAssumption
<1>1. /\ windows[u].count \in Nat
      /\ windows[u].elapsed \in 0..Expired
      /\ \A p \in Requests : age[p] \in 0..Expired
      /\ Expired = Window + 1
  BY DEF GatewayTypeOK, Expired
<1>2. windows'[u] = Counted(u)
  BY DEF Allow, Deny, GatewayTypeOK
<1>3. /\ \A p \in Requests \ {q} : user'[p] = user[p] /\ age'[p] = age[p]
      /\ \/ user'[q] = user[q] /\ age'[q] = age[q]
         \/ user'[q] = u /\ age'[q] = 0
  <2>1. CASE Allow(q, u)
    BY <2>1 DEF Allow, GatewayTypeOK
  <2>2. CASE Deny(u)
    BY <2>2 DEF Deny
  <2>3. QED
    BY <2>1, <2>2
<1>4. /\ InWindow(u) \in SUBSET Requests
      /\ InWindow(u)' \in SUBSET Requests
      /\ Before(u) \in SUBSET Requests
      /\ Before(u)' \in SUBSET Requests
  BY DEF InWindow, Before, Recent
<1>5. /\ Cardinality(InWindow(u)) \in Nat
      /\ Cardinality(InWindow(u)') \in Nat
      /\ Cardinality(Before(u)) \in Nat
      /\ Cardinality(Before(u)') \in Nat
  BY <1>4, Fewer
<1>6. CASE windows[u].elapsed # Expired
  <2>1. /\ windows'[u].elapsed = windows[u].elapsed
        /\ windows'[u].count = windows[u].count + 1
    BY <1>1, <1>2, <1>6 DEF Counted, GatewayTypeOK
  <2>2. Before(u)' \subseteq Before(u)
    BY <1>1, <1>3, <2>1 DEF Before, Recent
  <2>3. CASE Allow(q, u)
    <3>1. windows'[u].count <= MaxReqs
      BY <1>2, <2>3 DEF Allow
    <3>2. InWindow(u)' \subseteq InWindow(u) \cup {q}
      BY <1>3, <2>1 DEF InWindow, Recent
    <3>3. InWindow(u) \cup {q} \in SUBSET Requests
      BY <1>4
    <3>4. /\ Cardinality(InWindow(u) \cup {q}) \in Nat
          /\ Cardinality(InWindow(u)') <= Cardinality(InWindow(u) \cup {q})
      BY <3>2, <3>3, Fewer
    <3>5. Cardinality(InWindow(u) \cup {q}) <= Cardinality(InWindow(u)) + 1
      BY <1>4, OneMore
    <3>6. Cardinality(InWindow(u)') <= windows'[u].count
      BY <1>1, <1>5, <1>6, <2>1, <3>4, <3>5 DEF Windowed
    <3>7. Cardinality(Before(u)') <= Cardinality(Before(u))
      BY <1>4, <2>2, Fewer
    <3>8. QED
      BY <1>1, <1>5, <1>6, <2>1, <3>1, <3>6, <3>7 DEF Windowed
  <2>4. CASE Deny(u)
    <3>1. InWindow(u)' \subseteq InWindow(u)
      BY <2>1, <2>4 DEF Deny, InWindow, Recent
    <3>2. QED
      BY <1>1, <1>6, <2>1, <2>2, <3>1, StaysWindowed
  <2>5. QED
    BY <2>3, <2>4
<1>7. CASE windows[u].elapsed = Expired
  <2>1. windows'[u].elapsed = 0 /\ windows'[u].count = 1
    BY <1>2, <1>7 DEF Counted
  <2>2. Before(u)' \subseteq InWindow(u)
    BY <1>1, <1>3, <1>7, <2>1 DEF Before, InWindow, Recent
  <2>3. Cardinality(Before(u)') <= MaxReqs
    <3>1. Cardinality(Before(u)') <= Cardinality(InWindow(u))
      BY <1>4, <2>2, Fewer
    <3>2. QED
      BY <1>5, <3>1 DEF Windowed
  <2>4. \A p \in Requests : user[p] = u => age[p] # 0
    BY <1>7 DEF Windowed
  <2>5. CASE Allow(q, u)
    <3>1. InWindow(u)' \subseteq {} \cup {q}
      BY <1>1, <1>3, <2>1, <2>4 DEF InWindow, Recent
    <3>2. Cardinality({} \cup {q}) <= Cardinality({}) + 1
      BY OneMore
    <3>3. /\ Cardinality({} \cup {q}) \in Nat
          /\ Cardinality(InWindow(u)') <= Cardinality({} \cup {q})
      BY <3>1, Fewer
    <3>4. Cardinality(InWindow(u)') <= 1
      BY <1>5, <3>2, <3>3, FS_EmptySet
    <3>5. 1 <= MaxReqs
      BY <1>2, <2>1, <2>5 DEF Allow
    <3>6. QED
      BY <1>1, <1>5, <2>1, <2>3, <3>4, <3>5 DEF Windowed
  <2>6. CASE Deny(u)
    <3>1. InWindow(u)' = {}
      BY <1>1, <2>1, <2>4, <2>6 DEF Deny, InWindow, Recent
    <3>2. QED
      BY <1>1, <2>1, <2>3, <3>1, FS_EmptySet DEF Windowed
  <2>7. QED
    BY <2>5, <2>6
<1>8. QED
  BY <1>6, <1>7

\* The window of another user only loses requests, if any.
LEMMA OtherWindowed ==
    ASSUME GatewayTypeOK, NEW u \in Users, NEW v \in Users \ {u}, Windowed(v),
           NEW q \in Requests, Allow(q, u) \/ Deny(u)
    PROVE  Windowed(v)'
<1>1. /\ windows'[v] = windows[v]
      /\ \A p \in Requests : user'[p] = v => user[p] = v /\ age'[p] = age[p]
      /\ windows[v].count \in Nat
  BY DEF Allow, Deny, GatewayTypeOK
<1>2. InWindow(v)' \subseteq InWindow(v) /\ Before(v)' \subseteq Before(v)
  BY <1>1 DEF InWindow, Before, Recent
<1>3. QED
  BY <1>1, <1>2, StaysWindowed DEF Windowed

LEMMA StepWindowed ==
    ASSUME GatewayTypeOK, [GatewayNext]_gatewayVars, \A u \in Users : Windowed(u)
    PROVE  \A u \in Users : Windowed(u)'
<1> TAKE v \in Users
<1>1. CASE ProcessStep
  BY <1>1, ProcessWindowed
<1>2. CASE UNCHANGED limiter
  BY <1>2 DEF limiter, Windowed, InWindow, Before, Recent
<1>3. ASSUME NEW q \in Requests, NEW u \in Users, Allow(q, u) \/ Deny(u)
      PROVE  Windowed(v)'
  <2>1. CASE u = v
    BY <1>3, <2>1, CountingWindowed
  <2>2. CASE u # v
    BY <1>3, <2>2, OtherWindowed
  <2>3. QED
    BY <2>1, <2>2
<1>4. QED
  BY <1>1, <1>2, <1>3
     DEF GatewayNext, Request, TurnAway, PublicRequest, UserRequest, HealthCheck,
         Reply, HangUp, gatewayVars

\* BurstBounded of every run of the gateway: no user gets more than twice the
\* limit through the fixed windows of UserRateLimiter in any stretch of time as
\* long as a window.
THEOREM BurstsAreBounded == GatewaySpec => []BurstBounded
<1> DEFINE IInv == GatewayTypeOK /\ \A u \in Users : Windowed(u)
<1>1. GatewayInit => IInv
  <2> SUFFICES ASSUME GatewayInit PROVE IInv
    OBVIOUS
  <2>1. GatewayTypeOK
    BY GatewayInitTypes
  <2>2. ASSUME NEW u \in Users PROVE Windowed(u)
    <3>1. InWindow(u) = {} /\ Before(u) = {}
      BY GatewayAssumption DEF GatewayInit, InWindow, Before, Recent, Expired
    <3>2. /\ windows[u].elapsed = Expired
          /\ \A q \in Requests : age[q] # 0
      BY GatewayAssumption DEF GatewayInit, NoWindow, Expired
    <3>3. QED
      BY <3>1, <3>2, FS_EmptySet, GatewayAssumption DEF Windowed
  <2>3. QED
    BY <2>1, <2>2
<1>2. IInv /\ [GatewayNext]_gatewayVars => IInv'
  BY GatewayTypeStep, StepWindowed
<1>3. IInv => BurstBounded
  <2> SUFFICES ASSUME IInv, NEW u \in Users
               PROVE  Cardinality(Recent(u)) <= 2 * MaxReqs
    BY DEF BurstBounded
  <2>1. Recent(u) = InWindow(u) \cup Before(u)
    BY GatewayAssumption DEF InWindow, Before, Recent, GatewayTypeOK, Expired
  <2>2. IsFiniteSet(InWindow(u)) /\ IsFiniteSet(Before(u))
    BY GatewayAssumption, FS_Subset DEF InWindow, Before, Recent
  <2>3. InWindow(u) \cap Before(u) = {}
    BY GatewayAssumption DEF InWindow, Before, Recent, GatewayTypeOK, Expired
  <2>4. Cardinality(InWindow(u) \cup Before(u)) =
          Cardinality(InWindow(u)) + Cardinality(Before(u))
            - Cardinality(InWindow(u) \cap Before(u))
    BY <2>2, FS_Union
  <2>5. Cardinality(InWindow(u) \cap Before(u)) = 0
    BY <2>3, FS_EmptySet
  <2>6. /\ Cardinality(InWindow(u)) \in Nat /\ Cardinality(InWindow(u)) <= MaxReqs
        /\ Cardinality(Before(u)) \in Nat /\ Cardinality(Before(u)) <= MaxReqs
    BY <2>2, FS_CardinalityType DEF Windowed
  <2>7. QED
    BY <2>1, <2>4, <2>5, <2>6, GatewayAssumption
<1>4. QED
  BY <1>1, <1>2, <1>3, PTL DEF GatewaySpec

-----------------------------------------------------------------------------
(* Refusals *)

\* A request that has not come has passed nowhere.
Fresh == \A q \in Requests : at[q] = "idle" => user[q] = NoUser

\* No request in a window that is open was counted without being let pass, up to
\* the limit.
Served(u) ==
    windows[u].elapsed # Expired =>
        \/ Cardinality(InWindow(u)) >= MaxReqs
        \/ Cardinality(InWindow(u)) >= windows[u].count

LEMMA FreshStep ==
    ASSUME GatewayTypeOK, Fresh, [GatewayNext]_gatewayVars
    PROVE  Fresh'
<1>1. \A route \in Offered : route.rpc # "idle"
  BY GatewayAssumption
     DEF Routes, AuthRoutes, ProtectedRoutes, UserRoutes, RideRoutes, LocationRoutes,
         PaymentRoutes, ChargeRoute, LookupRoute, Route
<1>2. ASSUME NEW q \in Requests, NEW route \in Offered, Request(q, route)
      PROVE  Fresh'
  <2>1. at'[q] # "idle"
    BY <1>1, <1>2 DEF Request, TurnAway, PublicRequest, UserRequest, Handle,
                      Respond, GatewayTypeOK
  <2>2. \A p \in Requests \ {q} : at'[p] = at[p] /\ user'[p] = user[p]
    BY <1>2 DEF Request, TurnAway, PublicRequest, UserRequest, Handle, Respond,
                Allow, Deny, GatewayTypeOK, limiter
  <2>3. QED
    BY <2>1, <2>2 DEF Fresh
<1>3. CASE ProcessStep
  BY <1>3 DEF ProcessStep, Boot, ConnectDatabase, ConnectRedis, GiveUp, Shutdown,
              Exit, Cleanup, Tick, FreshLimiter, Fresh, GatewayTypeOK, limiter,
              handling, Waiting
<1>4. ASSUME NEW q \in Requests,
             HealthCheck(q) \/ HangUp(q) \/ \E route \in Offered : Reply(q, route)
      PROVE  Fresh'
  BY <1>4 DEF HealthCheck, HangUp, Reply, Respond, Fresh, GatewayTypeOK, limiter
<1>5. CASE UNCHANGED gatewayVars
  BY <1>5 DEF gatewayVars, limiter, handling, Fresh
<1>6. QED
  BY <1>2, <1>3, <1>4, <1>5 DEF GatewayNext

\* A step that loses no request from the window of u and counts none in it.
LEMMA StaysServed ==
    ASSUME NEW u \in Users, Served(u),
           windows'[u].elapsed # Expired =>
               /\ windows[u].elapsed # Expired
               /\ windows'[u].count = windows[u].count
               /\ windows[u].count \in Nat
               /\ InWindow(u) \subseteq InWindow(u)'
    PROVE  Served(u)'
<1> SUFFICES ASSUME windows'[u].elapsed # Expired PROVE Served(u)'
  BY DEF Served, Expired
<1>1. InWindow(u)' \in SUBSET Requests /\ InWindow(u) \in SUBSET InWindow(u)'
  BY DEF InWindow, Recent
<1>2. /\ Cardinality(InWindow(u)) \in Nat
      /\ Cardinality(InWindow(u)') \in Nat
      /\ Cardinality(InWindow(u)) <= Cardinality(InWindow(u)')
  BY <1>1, Fewer
<1>3. QED
  BY <1>2, GatewayAssumption DEF Served

LEMMA ProcessServed ==
    ASSUME GatewayTypeOK, ProcessStep, NEW u \in Users, Served(u)
    PROVE  Served(u)'
<1> USE GatewayAssumption
<1>1. /\ windows[u].count \in Nat
      /\ windows[u].elapsed \in 0..Expired
      /\ \A q \in Requests : age[q] \in 0..Expired
      /\ Expired = Window + 1
  BY DEF GatewayTypeOK, Expired
<1>2. CASE UNCHANGED limiter
  BY <1>2 DEF limiter, Served, InWindow, Recent
<1>3. CASE ConnectRedis
  BY <1>3 DEF ConnectRedis, FreshLimiter, NoWindow, Served
<1>4. CASE Cleanup
  <2>1. /\ windows'[u].elapsed # Expired => windows'[u] = windows[u]
        /\ UNCHANGED <<user, age>>
    BY <1>4 DEF Cleanup, NoWindow
  <2>2. windows'[u] = windows[u] => InWindow(u)' = InWindow(u)
    BY <2>1 DEF InWindow, Recent
  <2>3. QED
    BY <1>1, <2>1, <2>2, StaysServed
<1>5. CASE Tick
  <2>1. /\ windows'[u].elapsed = Older(windows[u].elapsed)
        /\ windows'[u].count = windows[u].count
        /\ \A q \in Requests : age'[q] = Older(age[q])
        /\ user' = user
    BY <1>5 DEF Tick, GatewayTypeOK
  <2>2. windows'[u].elapsed # Expired => InWindow(u) \subseteq InWindow(u)'
    BY <1>1, <2>1 DEF InWindow, Recent, Older
  <2>3. windows'[u].elapsed # Expired => windows[u].elapsed # Expired
    BY <2>1 DEF Older
  <2>4. QED
    BY <1>1, <2>1, <2>2, <2>3, StaysServed
<1>6. QED
  BY <1>2, <1>3, <1>4, <1>5
     DEF ProcessStep, Boot, ConnectDatabase, GiveUp, Shutdown, Exit

\* A request counted is let pass, and is one more, or is above the limit.
LEMMA CountingServed ==
    ASSUME GatewayTypeOK, Fresh, NEW u \in Users, Served(u),
           NEW q \in Requests, at[q] = "idle", Allow(q, u) \/ Deny(u)
    PROVE  Served(u)'
<1> USE GatewayAssumption
<1>1. /\ windows[u].count \in Nat
      /\ windows[u].elapsed \in 0..Expired
      /\ \A p \in Requests : age[p] \in 0..Expired
      /\ Expired = Window + 1
  BY DEF GatewayTypeOK, Expired
<1>2. windows'[u] = Counted(u)
  BY DEF Allow, Deny, GatewayTypeOK
<1>3. /\ windows'[u].elapsed \in 0..Window
      /\ windows'[u].count \in Nat
      /\ windows[u].elapsed = Expired => windows'[u].count = 1
      /\ windows[u].elapsed # Expired =>
           /\ windows'[u].count = windows[u].count + 1
           /\ windows'[u].elapsed = windows[u].elapsed
  BY <1>1, <1>2 DEF Counted, GatewayTypeOK
<1>4. /\ InWindow(u) \in SUBSET Requests /\ InWindow(u)' \in SUBSET Requests
      /\ IsFiniteSet(InWindow(u))
  BY FS_Subset DEF InWindow, Recent
<1>5. /\ Cardinality(InWindow(u)) \in Nat
      /\ Cardinality(InWindow(u)') \in Nat
  BY <1>4, Fewer
<1>6. CASE Allow(q, u)
  <2>1. windows'[u].count <= MaxReqs
    BY <1>2, <1>6 DEF Allow
  <2>2. /\ user'[q] = u /\ age'[q] = 0
        /\ \A p \in Requests \ {q} : user'[p] = user[p] /\ age'[p] = age[p]
    BY <1>6 DEF Allow, GatewayTypeOK
  <2>3. q \in InWindow(u)'
    BY <1>3, <2>2 DEF InWindow, Recent
  <2>4. CASE windows[u].elapsed = Expired
    <3>1. Cardinality({} \cup {q}) = Cardinality({}) + 1
      BY FS_EmptySet, FS_AddElement
    <3>2. {} \cup {q} \in SUBSET InWindow(u)'
      BY <2>3
    <3>3. 1 <= Cardinality(InWindow(u)')
      BY <1>4, <1>5, <3>1, <3>2, FS_EmptySet, Fewer
    <3>4. QED
      BY <1>3, <1>5, <2>4, <3>3 DEF Served
  <2>5. CASE windows[u].elapsed # Expired
    <3>1. q \notin InWindow(u)
      BY DEF Fresh, InWindow, Recent
    <3>2. Cardinality(InWindow(u) \cup {q}) = Cardinality(InWindow(u)) + 1
      BY <1>4, <3>1, FS_AddElement
    <3>3. InWindow(u) \cup {q} \in SUBSET InWindow(u)'
      BY <1>3, <2>2, <2>3, <2>5 DEF InWindow, Recent
    <3>4. Cardinality(InWindow(u)) + 1 <= Cardinality(InWindow(u)')
      BY <1>4, <3>2, <3>3, Fewer
    <3>5. QED
      BY <1>1, <1>3, <1>5, <2>1, <2>5, <3>4 DEF Served
  <2>6. QED
    BY <2>4, <2>5
<1>7. CASE Deny(u)
  <2>1. windows'[u].count > MaxReqs
    BY <1>2, <1>7 DEF Deny
  <2>2. CASE windows[u].elapsed = Expired
    BY <1>3, <1>5, <2>1, <2>2 DEF Served
  <2>3. CASE windows[u].elapsed # Expired
    <3>1. InWindow(u)' = InWindow(u)
      BY <1>3, <1>7, <2>3 DEF Deny, InWindow, Recent
    <3>2. QED
      BY <1>1, <1>3, <1>5, <2>1, <2>3, <3>1 DEF Served
  <2>4. QED
    BY <2>2, <2>3
<1>8. QED
  BY <1>6, <1>7

LEMMA StepServed ==
    ASSUME GatewayTypeOK, Fresh, [GatewayNext]_gatewayVars,
           \A u \in Users : Served(u)
    PROVE  \A u \in Users : Served(u)'
<1> TAKE v \in Users
<1>1. CASE ProcessStep
  BY <1>1, ProcessServed
<1>2. CASE UNCHANGED limiter
  BY <1>2 DEF limiter, Served, InWindow, Recent
<1>3. ASSUME NEW q \in Requests, at[q] = "idle", NEW u \in Users,
             Allow(q, u) \/ Deny(u)
      PROVE  Served(v)'
  <2>1. CASE u = v
    BY <1>3, <2>1, CountingServed
  <2>2. CASE u # v
    <3>1. windows'[v] = windows[v] /\ windows[v].count \in Nat
      BY <1>3, <2>2 DEF Allow, Deny, GatewayTypeOK
    <3>2. \A p \in Requests : user[p] = v => user'[p] = v /\ age'[p] = age[p]
      BY <1>3, <2>2, GatewayAssumption DEF Allow, Deny, Fresh, GatewayTypeOK
    <3>3. InWindow(v) \subseteq InWindow(v)'
      BY <3>1, <3>2 DEF InWindow, Recent
    <3>4. QED
      BY <3>1, <3>3, StaysServed
  <2>3. QED
    BY <2>1, <2>2
<1>4. QED
  BY <1>1, <1>2, <1>3
     DEF GatewayNext, Request, TurnAway, PublicRequest, UserRequest, HealthCheck,
         Reply, HangUp, Comes, gatewayVars

\* RefusedForCause of every run of the gateway: UserRateLimiter refuses nobody
\* before maxReqs of his requests have passed within a window's time.
THEOREM RefusalsHaveCause == GatewaySpec => []RefusedForCause
<1> DEFINE IInv == GatewayTypeOK /\ Fresh /\ \A u \in Users : Served(u)
<1>1. GatewayInit => IInv
  BY GatewayInitTypes DEF GatewayInit, NoWindow, Fresh, Served
<1>2. IInv /\ [GatewayNext]_gatewayVars => IInv'
  BY GatewayTypeStep, FreshStep, StepServed
<1>3. IInv => RefusedForCause
  <2> SUFFICES ASSUME IInv, NEW u \in Users, Counted(u).count > MaxReqs
               PROVE  Cardinality(Recent(u)) >= MaxReqs
    BY DEF RefusedForCause
  <2>1. /\ windows[u].count \in Nat /\ MaxReqs \in Nat
        /\ windows[u].elapsed # Expired =>
             Counted(u).count = windows[u].count + 1
        /\ windows[u].elapsed = Expired => Counted(u).count = 1
    BY GatewayAssumption DEF GatewayTypeOK, Counted
  <2>2. Recent(u) \in SUBSET Requests /\ InWindow(u) \in SUBSET Recent(u)
    BY DEF InWindow, Recent
  <2>3. /\ Cardinality(Recent(u)) \in Nat
        /\ Cardinality(InWindow(u)) \in Nat
        /\ Cardinality(InWindow(u)) <= Cardinality(Recent(u))
    BY <2>2, Fewer
  <2>4. QED
    BY <2>1, <2>3 DEF Served
<1>4. QED
  BY <1>1, <1>2, <1>3, PTL DEF GatewaySpec

-----------------------------------------------------------------------------
(* Checkout does what its parts do *)

\* A request to charge is for a ride from when it becomes a call.
Asked ==
    /\ asked \in [Requests -> Rides \cup {NoRide}]
    /\ \A c \in Charges :
         /\ at[c] \in {"idle", "over", "ChargeRide"}
         /\ at[c] = "ChargeRide" => asked[c] \in Rides

\* A step of a request that is not a charge leaves the charges alone.
LEMMA ChargesAlone ==
    ASSUME GatewayTypeOK, NEW q \in Requests \ Charges,
           NEW route, Request(q, route) \/ Reply(q, route) \/ HealthCheck(q)
    PROVE  \A c \in Charges : at'[c] = at[c] /\ status'[c] = status[c]
<1> DEFINE Alone == \A c \in Charges : at'[c] = at[c] /\ status'[c] = status[c]
<1> USE CheckoutAssumption DEF GatewayTypeOK
<1>1. ASSUME NEW s, Respond(q, s) PROVE Alone
  BY <1>1 DEF Respond
<1>2. ASSUME Handle(q, route) PROVE Alone
  <2>1. CASE \E s \in route.refusals : Respond(q, s)
    <3>1. PICK s : Respond(q, s)
      BY <2>1
    <3>2. QED
      BY <1>1, <3>1
  <2>2. CASE at' = [at EXCEPT ![q] = route.rpc] /\ UNCHANGED status
    BY <2>2
  <2>3. QED
    BY <1>2, <2>1, <2>2 DEF Handle
<1>3. CASE TurnAway(q, route)
  <2>1. PICK s : Respond(q, s)
    BY <1>3 DEF TurnAway
  <2>2. QED
    BY <1>1, <2>1
<1>4. CASE PublicRequest(q, route) \/ \E u \in Users : UserRequest(q, route, u)
  BY <1>1, <1>2, <1>4 DEF PublicRequest, UserRequest
<1>5. CASE Reply(q, route) \/ HealthCheck(q)
  BY <1>1, <1>5 DEF Reply, HealthCheck
<1>6. QED
  BY <1>3, <1>4, <1>5 DEF Request

\* What becomes of a charge that comes in.
LEMMA ChargeComes ==
    ASSUME GatewayTypeOK, NEW c \in Charges, c \in Requests, Request(c, ChargeRoute)
    PROVE  /\ at[c] = "idle"
           /\ \A b \in Charges \ {c} : at'[b] = at[b] /\ status'[b] = status[b]
           /\ \/ at'[c] = "ChargeRide" /\ status'[c] = status[c]
              \/ at'[c] = "over" /\ status'[c] \in Refusals
<1> DEFINE Others == \A b \in Charges \ {c} : at'[b] = at[b] /\ status'[b] = status[b]
           Passed == at'[c] = "ChargeRide" /\ status'[c] = status[c]
           Refused == at'[c] = "over" /\ status'[c] \in Refusals
<1> USE CheckoutAssumption DEF GatewayTypeOK
<1>1. ASSUME NEW s \in Refusals, Respond(c, s) PROVE Others /\ Refused
  BY <1>1 DEF Respond
<1>2. ASSUME Handle(c, ChargeRoute) PROVE Others /\ (Passed \/ Refused)
  <2>1. ChargeRoute.rpc = "ChargeRide" /\ ChargeRoute.refusals \subseteq Refusals
    BY DEF ChargeRoute, Route, Refusals
  <2>2. CASE \E s \in ChargeRoute.refusals : Respond(c, s)
    <3>1. PICK s \in Refusals : Respond(c, s)
      BY <2>1, <2>2
    <3>2. QED
      BY <1>1, <3>1
  <2>3. CASE at' = [at EXCEPT ![c] = ChargeRoute.rpc] /\ UNCHANGED status
    BY <2>1, <2>3
  <2>4. QED
    BY <1>2, <2>2, <2>3 DEF Handle
<1>3. QED
  BY <1>1, <1>2
     DEF Request, TurnAway, PublicRequest, UserRequest, Comes, Refusals

\* Steps of the process and clients that hang up end charges without an answer.
LEMMA ChargesEnd ==
    ASSUME GatewayTypeOK, Charges \subseteq Requests,
           ProcessStep \/ \E q \in Requests : HangUp(q)
    PROVE  /\ status' = status
           /\ \A c \in Charges : \/ at'[c] = at[c]
                                 \/ Waiting(c) /\ at'[c] = "over"
<1> DEFINE Ended == /\ status' = status
                    /\ \A c \in Charges : \/ at'[c] = at[c]
                                          \/ Waiting(c) /\ at'[c] = "over"
<1>1. CASE UNCHANGED handling
  BY <1>1 DEF handling
<1>2. CASE Exit
  BY <1>2 DEF Exit, Waiting
<1>3. ASSUME NEW q \in Requests, HangUp(q)
      PROVE  Ended
  BY <1>3 DEF HangUp, GatewayTypeOK
<1>4. QED
  BY <1>1, <1>2, <1>3 DEF ProcessStep, Boot, ConnectDatabase, ConnectRedis, GiveUp,
     Shutdown, Cleanup, Tick

LEMMA AskedStep ==
    GatewayTypeOK /\ Asked /\ [CheckoutNext]_checkoutVars => Asked'
<1> SUFFICES ASSUME GatewayTypeOK, Asked, [CheckoutNext]_checkoutVars
             PROVE  Asked'
  OBVIOUS
<1> USE CheckoutAssumption DEF Asked
<1>1. CASE (ProcessStep \/ \E q \in Requests : HangUp(q)) /\ UNCHANGED asked
  BY <1>1, ChargesEnd
<1>2. ASSUME NEW q \in Requests \ Charges, NEW route, UNCHANGED asked,
             Request(q, route) \/ Reply(q, route) \/ HealthCheck(q)
      PROVE  Asked'
  BY <1>2, ChargesAlone
<1>3. ASSUME NEW c \in Charges, NEW r \in Rides, RequestPayment(c, ChargeRoute, r)
      PROVE  Asked'
  BY <1>3, ChargeComes DEF RequestPayment
<1>4. ASSUME NEW q \in Requests \ Charges, NEW r \in Rides,
             RequestPayment(q, LookupRoute, r)
      PROVE  Asked'
  BY <1>4, ChargesAlone DEF RequestPayment
<1>5. ASSUME NEW q \in Requests, ReplyCharge(q) \/ ReplyLookup(q)
      PROVE  Asked'
  BY <1>5 DEF ReplyCharge, ReplyLookup, Respond, GatewayTypeOK
<1>6. CASE UNCHANGED <<gatewayVars, asked>>
  BY <1>6 DEF gatewayVars, handling
<1>7. QED
  BY <1>1, <1>2, <1>3, <1>4, <1>5, <1>6
     DEF CheckoutNext, checkoutVars, TakeUp, PaymentStep

LEMMA StepOfPayment == Asked /\ [CheckoutNext]_checkoutVars => [Next]_vars
<1> SUFFICES ASSUME Asked, [CheckoutNext]_checkoutVars PROVE [Next]_vars
  OBVIOUS
<1>1. ASSUME NEW c \in Charges, TakeUp(c)
      PROVE  Next
  <2>1. asked[c] \in Rides
    BY <1>1, CheckoutAssumption DEF TakeUp, OnTheWire, Asked
  <2>2. QED
    BY <1>1, <2>1 DEF TakeUp, Next, ChargeRide
<1>2. CASE PaymentStep
  BY <1>2 DEF PaymentStep, Next, ChargeRide
<1>3. QED
  BY <1>1, <1>2
     DEF CheckoutNext, checkoutVars, RequestPayment, ReplyCharge, ReplyLookup

LEMMA StepOfGateway ==
    [CheckoutNext]_checkoutVars => [GatewayNext]_gatewayVars
<1> SUFFICES ASSUME [CheckoutNext]_checkoutVars
             PROVE  [GatewayNext]_gatewayVars
  OBVIOUS
<1> USE CheckoutAssumption
<1>1. ChargeRoute \in Offered /\ LookupRoute \in Offered
  BY DEF PaymentRoutes
<1>2. ASSUME NEW route \in PaymentRoutes
      PROVE  route.ok \in Replies(route) /\ 500 \in Replies(route)
  BY DEF PaymentRoutes, ChargeRoute, LookupRoute, Route, Replies, ErrorStatus, AppErrors
<1>3. ASSUME NEW q \in Requests, NEW r \in Rides,
             RequestPayment(q, ChargeRoute, r) \/ RequestPayment(q, LookupRoute, r)
      PROVE  GatewayNext
  BY <1>1, <1>3 DEF RequestPayment, GatewayNext
<1>4. ASSUME NEW q \in Requests, ReplyCharge(q)
      PROVE  GatewayNext
  <2>1. Reply(q, ChargeRoute)
    BY <1>2, <1>4 DEF ReplyCharge, Reply, ChargeRoute, Route, PaymentRoutes
  <2>2. QED
    BY <1>1, <2>1 DEF GatewayNext
<1>5. ASSUME NEW q \in Requests, ReplyLookup(q)
      PROVE  GatewayNext
  <2>1. Reply(q, LookupRoute)
    BY <1>2, <1>5 DEF ReplyLookup, Reply, LookupRoute, Route, PaymentRoutes
  <2>2. QED
    BY <1>1, <2>1 DEF GatewayNext
<1>6. QED
  BY <1>3, <1>4, <1>5
     DEF CheckoutNext, checkoutVars, GatewayNext, TakeUp, PaymentStep

\* What holds of the gateway alone holds of it when it charges.
THEOREM CheckoutImplementsGateway == CheckoutSpec => GatewaySpec
<1>1. CheckoutInit => GatewayInit
  BY DEF CheckoutInit
<1>2. QED
  BY <1>1, StepOfGateway, PTL DEF CheckoutSpec, GatewaySpec

LEMMA CheckoutInduction == CheckoutSpec => [](GatewayTypeOK /\ Asked)
<1>1. CheckoutInit => GatewayTypeOK /\ Asked
  BY GatewayInitTypes, CheckoutAssumption DEF CheckoutInit, GatewayInit, Asked
<1>2. GatewayTypeOK /\ Asked /\ [CheckoutNext]_checkoutVars
        => (GatewayTypeOK /\ Asked)'
  BY GatewayTypeStep, AskedStep, StepOfGateway
<1>3. QED
  BY <1>1, <1>2, PTL DEF CheckoutSpec

\* What holds of the payment service when anybody calls it at any time holds of
\* it behind the gateway.
THEOREM CheckoutImplementsPayment == CheckoutSpec => Spec
<1>1. CheckoutInit => Init
  BY DEF CheckoutInit
<1>2. QED
  BY <1>1, CheckoutInduction, StepOfPayment, PTL DEF CheckoutSpec, Spec

\* Every reachable state of the composition is well typed, and its books are
\* right.
THEOREM CheckoutSafe ==
    CheckoutSpec => [](CheckoutTypeOK /\ BooksTruthful /\ OneRecordPerRide
                       /\ SecondCaptureOnlyAfterFailure /\ BurstBounded /\ RefusedForCause)
<1>1. TypeOK /\ GatewayTypeOK /\ Asked => CheckoutTypeOK
  BY DEF CheckoutTypeOK, Asked
<1>2. QED
  BY <1>1, CheckoutInduction, CheckoutImplementsPayment, CheckoutImplementsGateway,
     BooksAlwaysTruthful, PaidOnce, CapturedAgainOnlyAfterFailure, BurstsAreBounded,
     RefusalsHaveCause, PTL

-----------------------------------------------------------------------------
(* What clients are told *)

\* How the answer to a charge and the state of its call go together: a call
\* is for the ride that was asked for, no call comes of a refusal, and a
\* success is the reply of a call that found or made a payment.
Told ==
    \A c \in Charges :
        /\ at[c] = "idle" => pc[c] = "idle" /\ status[c] = NoAnswer
        /\ status[c] # NoAnswer => at[c] = "over"
        /\ pc[c] # "idle" =>
             /\ rideOf[c] = asked[c]
             /\ status[c] \in {NoAnswer, 500, ChargeRoute.ok}
        /\ status[c] = ChargeRoute.ok => pc[c] = "done"
        /\ pc[c] = "done" => answer[c] # NoPayment

Kept ==
    \A c \in Charges :
        /\ rideOf'[c] = rideOf[c]
        /\ pc'[c] = "idle" <=> pc[c] = "idle"
        /\ pc[c] = "done" => pc'[c] = "done" /\ answer'[c] = answer[c]
        /\ pc[c] # "done" /\ pc'[c] = "done" => answer'[c] # NoPayment

\* A step of the payment service leaves finished calls as they are and takes
\* up none, and a call it finishes has an answer.
LEMMA PaymentStepKeeps ==
    ASSUME TypeOK, PaymentStep
    PROVE  Kept
<1> USE ConstantsAssumption DEF TypeOK, PaymentRow, Goto
<1>1. ASSUME NEW b \in Charges, CreatePaymentIntent(b) \/ CapturePayment(b)
      PROVE  Kept
  BY <1>1 DEF CreatePaymentIntent, CapturePayment, Kept
<1>2. ASSUME NEW b \in Charges, Record(b)
      PROVE  Kept
  BY <1>2 DEF Record, Kept
<1>3. ASSUME NEW b \in Charges, StepFails(b) \/ Crash(b)
      PROVE  Kept
  BY <1>3 DEF StepFails, Crash, InFlight, Kept
<1>4. ASSUME NEW r \in Rides, CreateRide(r)
      PROVE  Kept
  BY <1>4 DEF CreateRide, ownVars, Kept
<1>5. QED
  BY <1>1, <1>2, <1>3, <1>4 DEF PaymentStep, CallStep

LEMMA ToldStep ==
    ASSUME TypeOK, GatewayTypeOK, Asked, Told, [CheckoutNext]_checkoutVars
    PROVE  Told'
<1> USE CheckoutAssumption DEF Told
<1> DEFINE CallsAlone == \A c \in Charges : /\ pc'[c] = pc[c]
                                            /\ rideOf'[c] = rideOf[c]
                                            /\ answer'[c] = answer[c]
<1>1. UNCHANGED vars => CallsAlone
  BY DEF vars
<1>2. CASE (ProcessStep \/ \E q \in Requests : HangUp(q)) /\ UNCHANGED <<vars, asked>>
  BY <1>1, <1>2, ChargesEnd DEF Asked, Waiting
<1>3. ASSUME NEW q \in Requests \ Charges, NEW route, UNCHANGED <<vars, asked>>,
             Request(q, route) \/ Reply(q, route) \/ HealthCheck(q)
      PROVE  Told'
  BY <1>1, <1>3, ChargesAlone
<1>4. ASSUME NEW c \in Charges, NEW r \in Rides, RequestPayment(c, ChargeRoute, r)
      PROVE  Told'
  <2>1. /\ at[c] = "idle"
        /\ \A b \in Charges \ {c} : at'[b] = at[b] /\ status'[b] = status[b]
        /\ \/ at'[c] = "ChargeRide" /\ status'[c] = status[c]
           \/ at'[c] = "over" /\ status'[c] \in Refusals
    BY <1>4, ChargeComes DEF RequestPayment
  <2>2. \A b \in Charges \ {c} : asked'[b] = asked[b]
    BY <1>4 DEF RequestPayment, Asked
  <2>3. CallsAlone
    BY <1>1, <1>4 DEF RequestPayment
  <2>4. pc[c] = "idle"
    BY <2>1
  <2>5. ChargeRoute.ok \notin Refusals /\ ChargeRoute.ok # NoAnswer
    BY DEF ChargeRoute, Route, Refusals, NoAnswer
  <2>6. QED
    BY <2>1, <2>2, <2>3, <2>4, <2>5
<1>5. ASSUME NEW q \in Requests \ Charges, NEW r \in Rides,
             RequestPayment(q, LookupRoute, r)
      PROVE  Told'
  <2>1. \A c \in Charges : asked'[c] = asked[c]
    BY <1>5 DEF RequestPayment, Asked
  <2>2. QED
    BY <1>1, <1>5, <2>1, ChargesAlone DEF RequestPayment
<1>6. ASSUME NEW c \in Charges, TakeUp(c)
      PROVE  Told'
  <2>1. at[c] # "idle" /\ status[c] \in {NoAnswer, 500}
    BY <1>6 DEF TakeUp, OnTheWire
  <2>2. ChargeRoute.ok \notin {NoAnswer, 500}
    BY DEF ChargeRoute, Route, NoAnswer
  <2>3. UNCHANGED <<at, status, asked>>
    BY <1>6 DEF TakeUp, gatewayVars, handling
  <2>4. /\ pc[c] = "idle" /\ pc'[c] \in {"done", "unpaid"}
        /\ rideOf'[c] = asked[c]
        /\ pc'[c] = "done" => answer'[c] # NoPayment
    BY <1>6, ConstantsAssumption
       DEF TakeUp, ReturnExisting, FindUnpaid, Calls, Goto, GetByRideID, TypeOK, PaymentRow
  <2>5. \A b \in Charges \ {c} :
          pc'[b] = pc[b] /\ rideOf'[b] = rideOf[b] /\ answer'[b] = answer[b]
    BY <1>6 DEF TakeUp, ReturnExisting, FindUnpaid, Calls, Goto, TypeOK
  <2>6. QED
    BY <2>1, <2>2, <2>3, <2>4, <2>5
<1>7. ASSUME NEW c \in Charges, ReplyCharge(c)
      PROVE  Told'
  <2>1. /\ at'[c] = "over"
        /\ status'[c] \in {500, ChargeRoute.ok}
        /\ status'[c] = ChargeRoute.ok => pc[c] = "done"
        /\ \A b \in Charges \ {c} : at'[b] = at[b] /\ status'[b] = status[b]
    BY <1>7 DEF ReplyCharge, Respond, GatewayTypeOK, ChargeRoute, Route
  <2>2. CallsAlone /\ UNCHANGED asked
    BY <1>1, <1>7 DEF ReplyCharge
  <2>3. QED
    BY <2>1, <2>2
<1>8. ASSUME NEW q \in Requests \ Charges, ReplyLookup(q)
      PROVE  Told'
  <2>1. \A c \in Charges : at'[c] = at[c] /\ status'[c] = status[c]
    BY <1>8 DEF ReplyLookup, Respond, GatewayTypeOK
  <2>2. CallsAlone /\ UNCHANGED asked
    BY <1>1, <1>8 DEF ReplyLookup
  <2>3. QED
    BY <2>1, <2>2
<1>9. CASE PaymentStep
  <2>1. UNCHANGED <<at, status, asked>>
    BY <1>9 DEF PaymentStep, gatewayVars, handling
  <2>2. QED
    BY <1>9, <2>1, PaymentStepKeeps DEF Kept
<1>10. CASE UNCHANGED checkoutVars
  BY <1>1, <1>10 DEF checkoutVars, gatewayVars, handling
<1>11. QED
  BY <1>2, <1>3, <1>4, <1>5, <1>6, <1>7, <1>8, <1>9, <1>10 DEF CheckoutNext

\* AnswersTrue of every run: whatever fails, hangs up or comes late between the
\* client, the gateway, the service and the payment gateway behind it, 200
\* means that the ride is paid and 4xx that this request never takes money.
THEOREM AnswersAlwaysTrue == CheckoutSpec => []AnswersTrue
<1>1. CheckoutSpec => [](TypeOK /\ Books)
  BY CheckoutImplementsPayment, Inductive
<1>2. CheckoutInit => Told
  <2>1. ChargeRoute.ok # NoAnswer
    BY DEF ChargeRoute, Route, NoAnswer
  <2>2. CheckoutInit => \A c \in Charges :
          at[c] = "idle" /\ status[c] = NoAnswer /\ pc[c] = "idle"
    BY CheckoutAssumption DEF CheckoutInit, Init, OwnInit, GatewayInit
  <2>3. QED
    BY <2>1, <2>2 DEF Told
<1>3. TypeOK /\ GatewayTypeOK /\ Asked /\ Told /\ [CheckoutNext]_checkoutVars => Told'
  BY ToldStep
<1>4. Books /\ Told => AnswersTrue
  <2> SUFFICES ASSUME Books, Told, NEW c \in Charges
               PROVE  /\ status[c] = ChargeRoute.ok =>
                           \E p \in payments : p.ride = asked[c] /\ p.txn \in captured
                      /\ status[c] \in Refusals => c \notin captured /\ ~InFlight(c)
                      /\ c \in captured => rideOf[c] = asked[c]
    BY DEF AnswersTrue
  <2>1. ChargeRoute.ok \notin Refusals /\ NoAnswer \notin Refusals /\ 500 \notin Refusals
    BY DEF ChargeRoute, Route, Refusals, NoAnswer
  <2>2. CASE status[c] = ChargeRoute.ok
    <3>1. answer[c] \in payments /\ answer[c].ride = asked[c]
      BY <2>2 DEF Told, Books, Answers
    <3>2. answer[c].txn \in captured
      BY <3>1 DEF Books, RowBooks
    <3>3. QED
      BY <2>1, <2>2, <3>1, <3>2 DEF Told, Books, CallBooks
  <2>3. CASE status[c] \in Refusals
    BY <2>1, <2>3 DEF Told, Books, CallBooks, InFlight
  <2>4. c \in captured => rideOf[c] = asked[c]
    BY DEF Told, Books, CallBooks
  <2>5. QED
    BY <2>2, <2>3, <2>4
<1>5. QED
  BY <1>1, <1>2, <1>3, <1>4, CheckoutInduction, PTL DEF CheckoutSpec

=============================================================================
