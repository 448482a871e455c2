--------------------------- MODULE LocationProofs ---------------------------
(***************************************************************************)
(* Proofs about Users and Location for every set of calls, users, places   *)
(* and searches.                                                           *)
(***************************************************************************)
EXTENDS Location, FiniteSetTheorems, SequenceTheorems, TLAPS

-----------------------------------------------------------------------------
(* Types *)

LEMMA ProfileTypes ==
  ASSUME UsersTypeOK, NEW q \in Calls, who[q] \in Users
  PROVE  /\ \A fields \in SUBSET Field : Merge(q, fields) \in Profile
         /\ [f \in Field |-> IF f \in DriverField THEN profile[who[q]][f] ELSE seen[q][f]]
              \in Profile
         /\ UserField \subseteq Field /\ DriverField \subseteq Field
<1>1. profile[who[q]] \in Profile /\ seen[q] \in Profile
  BY DEF UsersTypeOK
<1>2. QED
  BY <1>1 DEF Merge, Profile, Field

LEMMA UsersTypeStep == UsersTypeOK /\ UsersNext => UsersTypeOK'
<1> SUFFICES ASSUME UsersTypeOK, UsersNext PROVE UsersTypeOK'
  OBVIOUS
<1> USE UsersAssumption DEF UsersTypeOK, Goto, Finish, Stage
<1>1. ASSUME NEW q \in Calls, NEW u \in Users, NEW fields \in Updates,
             UpdateProfile(q, u, fields)
      PROVE  UsersTypeOK'
  BY <1>1 DEF UpdateProfile, Arrive, AfterRead, AfterUser
<1>2. ASSUME NEW q \in Calls, NEW d \in Drivers, NEW b \in BOOLEAN, SetAvailability(q, d, b)
      PROVE  UsersTypeOK'
  BY <1>2 DEF SetAvailability, Arrive, Users
<1>3. ASSUME NEW q \in Calls, ReadDriver(q)
      PROVE  UsersTypeOK'
  <2>1. who[q] \in Users
    BY <1>3 DEF ReadDriver
  <2>2. seen' \in [Calls -> Profile]
    BY <1>3, <2>1, ProfileTypes DEF ReadDriver
  <2>3. QED
    BY <1>3, <2>2 DEF ReadDriver, AfterRead, AfterUser
<1>4. ASSUME NEW q \in Calls, WriteUser(q)
      PROVE  UsersTypeOK'
  <2>1. who[q] \in Users
    BY <1>4 DEF WriteUser
  <2>2. profile' \in [Users -> Profile]
    BY <1>4, <2>1, ProfileTypes DEF WriteUser
  <2>3. QED
    BY <1>4, <2>2 DEF WriteUser, AfterUser
<1>5. ASSUME NEW q \in Calls, WriteDriver(q)
      PROVE  UsersTypeOK'
  <2>1. who[q] \in Users
    BY <1>5 DEF WriteDriver
  <2>2. profile' \in [Users -> Profile]
    BY <1>5, <2>1, ProfileTypes DEF WriteDriver
  <2>3. QED
    BY <1>5, <2>2 DEF WriteDriver
<1>6. ASSUME NEW q \in Calls, WriteAvailability(q) \/ StepFails(q)
      PROVE  UsersTypeOK'
  BY <1>6 DEF WriteAvailability, StepFails, InFlight
<1>7. QED
  BY <1>1, <1>2, <1>3, <1>4, <1>5, <1>6 DEF UsersNext

LEMMA TypeStep == TypeOK /\ [Next]_vars => TypeOK'
<1> SUFFICES ASSUME TypeOK, [Next]_vars PROVE TypeOK'
  OBVIOUS
<1> USE UsersAssumption, LocationAssumption DEF TypeOK
<1>1. CASE UsersNext /\ UNCHANGED locationVars
  BY <1>1, UsersTypeStep DEF locationVars
<1>2. ASSUME NEW q \in Calls, NEW d \in Drivers, NEW p \in Places, UpdateLocation(q, d, p)
      PROVE  TypeOK'
  BY <1>2 DEF UpdateLocation, Arrive, Goto, UsersTypeOK, Stage, Users
<1>3. ASSUME NEW q \in Calls, CachePosition(q)
      PROVE  TypeOK'
  BY <1>3 DEF CachePosition, Goto, UsersTypeOK, Stage
<1>4. ASSUME NEW q \in Calls, Insert(q)
      PROVE  TypeOK'
  <2>1. Append(rows, q) \in Seq(Calls)
    BY AppendProperties
  <2>2. QED
    BY <1>4, <2>1 DEF Insert, Finish, Goto, UsersTypeOK, Stage
<1>5. ASSUME NEW s \in Searches, SearchCache(s) \/ SearchFallsBack(s)
      PROVE  TypeOK'
  BY <1>5, SMTT(30) DEF SearchCache, SearchFallsBack, Nearest, Cached, SearchStage, userVars, UsersTypeOK
<1>6. ASSUME NEW s \in Searches, SearchTable(s)
      PROVE  TypeOK'
  BY <1>6 DEF SearchTable, FindNearby, SearchStage, userVars, UsersTypeOK
<1>7. CASE UNCHANGED vars
  BY <1>7 DEF vars, userVars, locationVars, UsersTypeOK
<1>8. QED
  BY <1>1, <1>2, <1>3, <1>4, <1>5, <1>6, <1>7 DEF Next, LocationNext

LEMMA InitTyped == Init => TypeOK
<1>1. AsAtFirst \in Profile
  BY DEF AsAtFirst, Profile
<1>2. <<>> \in Seq(Calls)
  OBVIOUS
<1>3. QED
  BY <1>1, <1>2 DEF Init, UsersInit, TypeOK, UsersTypeOK, Stage, SearchStage

\* Every reachable state is well typed.
THEOREM TypeCorrect == Spec => []TypeOK
BY InitTyped, TypeStep, PTL DEF Spec

-----------------------------------------------------------------------------
(* The calls of a user who does not let them overlap *)

CalmAlone ==
    \A p, q \in Calls :
        InFlight(p) /\ InFlight(q) /\ who[p] = who[q] /\ who[p] \in Calm => p = q

\* A step of call q alone: it arrives, or it was in flight and keeps its user.
OwnStep(q) ==
    /\ \A p \in Calls \ {q} : pc'[p] = pc[p] /\ who'[p] = who[p]
    /\ \/ \E u \in Users : Arrive(q, u) /\ who'[q] = u
       \/ InFlight(q) /\ who'[q] = who[q]

LEMMA CallStep ==
  ASSUME TypeOK, [Next]_vars
  PROVE  (pc' = pc /\ who' = who) \/ \E q \in Calls : OwnStep(q)
<1> USE DEF TypeOK, UsersTypeOK, Goto, Finish, InFlight
<1>1. ASSUME NEW q \in Calls, NEW u \in Users, NEW fields \in Updates,
             UpdateProfile(q, u, fields)
      PROVE  OwnStep(q)
  BY <1>1 DEF UpdateProfile, Arrive, AfterRead, AfterUser, OwnStep
<1>2. ASSUME NEW q \in Calls, NEW d \in Drivers, NEW b \in BOOLEAN, SetAvailability(q, d, b)
      PROVE  OwnStep(q)
  BY <1>2 DEF SetAvailability, Arrive, Users, OwnStep
<1>3. ASSUME NEW q \in Calls, NEW d \in Drivers, NEW p \in Places, UpdateLocation(q, d, p)
      PROVE  OwnStep(q)
  BY <1>3 DEF UpdateLocation, Arrive, Users, OwnStep
<1>4. ASSUME NEW q \in Calls,
             \/ ReadDriver(q) \/ WriteUser(q) \/ WriteDriver(q) \/ WriteAvailability(q)
             \/ StepFails(q) \/ CachePosition(q) \/ Insert(q)
      PROVE  OwnStep(q)
  BY <1>4 DEF ReadDriver, WriteUser, WriteDriver, WriteAvailability, StepFails,
     CachePosition, Insert, AfterRead, AfterUser, OwnStep
<1>5. ASSUME NEW s \in Searches, SearchCache(s) \/ SearchFallsBack(s) \/ SearchTable(s)
      PROVE  pc' = pc /\ who' = who
  BY <1>5 DEF SearchCache, SearchFallsBack, SearchTable, userVars
<1>6. CASE UNCHANGED vars
  BY <1>6 DEF vars, userVars
<1>7. QED
  BY <1>1, <1>2, <1>3, <1>4, <1>5, <1>6 DEF Next, UsersNext, LocationNext

LEMMA AloneStep == TypeOK /\ CalmAlone /\ [Next]_vars => CalmAlone'
<1> SUFFICES ASSUME TypeOK, CalmAlone, [Next]_vars PROVE CalmAlone'
  OBVIOUS
<1> USE DEF CalmAlone, InFlight
<1>1. CASE pc' = pc /\ who' = who
  BY <1>1
<1>2. ASSUME NEW q \in Calls, OwnStep(q)
      PROVE  CalmAlone'
  <2>1. CASE InFlight(q) /\ who'[q] = who[q]
    BY <1>2, <2>1 DEF OwnStep
  <2>2. ASSUME NEW u \in Users, Arrive(q, u), who'[q] = u
        PROVE  CalmAlone'
    BY <1>2, <2>2 DEF OwnStep, Arrive
  <2>3. QED
    BY <1>2, <2>1, <2>2 DEF OwnStep
<1>3. QED
  BY <1>1, <1>2, CallStep

-----------------------------------------------------------------------------
(* Profiles *)

\* What an update of a calm user has read is still so when it writes; the
\* columns of users are written by then; and only updates ask for fields.
CurrentAt(q) ==
    /\ pc[q] \in {"idle", "setting", "caching", "storing"} => asked[q] = {}
    /\ who[q] \in Calm /\ pc[q] \in {"reading", "writing"} => seen[q] = profile[who[q]]
    /\ who[q] \in Calm /\ pc[q] = "driving" =>
           \A f \in Field :
               /\ f \in DriverField => seen[q][f] = profile[who[q]][f]
               /\ f \in UserField \cap asked[q] => profile[who[q]][f] = q

Current == \A q \in Calls : CurrentAt(q)

\* A call that writes a profile does not touch what other calls rely on.
LEMMA OthersStayCurrent ==
  ASSUME TypeOK, CalmAlone, Current, NEW p \in Calls, NEW q \in Calls, p # q, InFlight(p),
         \E new \in Profile : profile' = [profile EXCEPT ![who[p]] = new],
         pc'[q] = pc[q], who' = who, asked' = asked, seen' = seen
  PROVE  CurrentAt(q)'
<1> USE DEF TypeOK, UsersTypeOK, InFlight
<1>1. CASE who[q] \notin Calm \/ ~InFlight(q)
  BY <1>1 DEF Current, CurrentAt
<1>2. CASE who[q] \in Calm /\ InFlight(q)
  <2>1. who[q] # who[p] /\ who[q] \in Users
    BY <1>2 DEF CalmAlone
  <2>2. profile'[who[q]] = profile[who[q]]
    BY <2>1
  <2>3. QED
    BY <2>2 DEF Current, CurrentAt
<1>3. QED
  BY <1>1, <1>2

LEMMA CurrentStep == TypeOK /\ CalmAlone /\ Current /\ [Next]_vars => Current'
<1> SUFFICES ASSUME TypeOK, CalmAlone, Current, [Next]_vars, NEW q \in Calls
             PROVE  CurrentAt(q)'
  BY DEF Current, CurrentAt
<1> USE UsersAssumption DEF TypeOK, UsersTypeOK, Goto, Finish
<1>0. UserField \subseteq Field /\ DriverField \subseteq Field /\ UserField \cap DriverField = {}
      /\ Field = UserField \cup DriverField
  BY DEF Field, UserField, DriverField
<1>1. ASSUME NEW p \in Calls, NEW u \in Users, NEW fields \in Updates,
             UpdateProfile(p, u, fields)
      PROVE  CurrentAt(q)'
  <2>1. CASE p = q
    BY <1>0, <1>1, <2>1 DEF UpdateProfile, Arrive, AfterRead, AfterUser, CurrentAt
  <2>2. CASE p # q
    BY <1>1, <2>2 DEF UpdateProfile, Arrive, AfterRead, AfterUser, CurrentAt, Current
  <2>3. QED
    BY <2>1, <2>2
<1>2. ASSUME NEW p \in Calls, NEW d \in Drivers, NEW b \in BOOLEAN, SetAvailability(p, d, b)
      PROVE  CurrentAt(q)'
  BY <1>2 DEF SetAvailability, Arrive, CurrentAt, Current
<1>3. ASSUME NEW p \in Calls, NEW d \in Drivers, NEW l \in Places, UpdateLocation(p, d, l)
      PROVE  CurrentAt(q)'
  BY <1>3 DEF UpdateLocation, Arrive, CurrentAt, Current
<1>4. ASSUME NEW p \in Calls, ReadDriver(p)
      PROVE  CurrentAt(q)'
  <2>1. CASE p = q
    <3>1. who[q] \in Calm => seen'[q] = profile[who[q]]
      <4>1. ASSUME who[q] \in Calm
            PROVE  seen[q] = profile[who[q]] /\ profile[who[q]] \in Profile
        BY <1>4, <2>1, <4>1 DEF ReadDriver, Current, CurrentAt
      <4>2. QED
        BY <1>4, <2>1, <4>1 DEF ReadDriver, Profile
    <3>2. pc'[q] \in {"writing", "driving", "ok", "failed"}
      BY <1>4, <2>1 DEF ReadDriver, AfterRead, AfterUser
    <3>3. pc'[q] = "driving" => asked[q] \cap UserField = {}
      BY <1>4, <2>1 DEF ReadDriver, AfterRead, AfterUser
    <3>4. UNCHANGED <<profile, who, asked>>
      BY <1>4 DEF ReadDriver
    <3>5. QED
      BY <1>0, <3>1, <3>2, <3>3, <3>4 DEF CurrentAt
  <2>2. CASE p # q
    BY <1>4, <2>2 DEF ReadDriver, AfterRead, AfterUser, CurrentAt, Current
  <2>3. QED
    BY <2>1, <2>2
<1>5. ASSUME NEW p \in Calls, WriteUser(p)
      PROVE  CurrentAt(q)'
  <2>1. InFlight(p) /\ who[p] \in Users /\ UNCHANGED <<who, asked, seen>>
    BY <1>5 DEF WriteUser, InFlight
  <2>2. Merge(p, UserField) \in Profile
    BY <1>0, <2>1, ProfileTypes
  <2>3. CASE p = q
    <3>1. pc'[q] \in {"driving", "ok", "failed"}
      BY <1>5, <2>3 DEF WriteUser, AfterUser
    <3>2. profile'[who[q]] = Merge(q, UserField)
      BY <1>5, <2>1, <2>3 DEF WriteUser
    <3>3. \A f \in Field :
            /\ f \in DriverField => profile'[who[q]][f] = profile[who[q]][f]
            /\ f \in UserField \cap asked[q] => profile'[who[q]][f] = q
      BY <1>0, <3>2 DEF Merge
    <3>4. who[q] \in Calm => seen[q] = profile[who[q]]
      BY <1>5, <2>3 DEF WriteUser, Current, CurrentAt
    <3>5. QED
      BY <2>1, <3>1, <3>3, <3>4 DEF CurrentAt
  <2>4. CASE p # q
    <3>1. pc'[q] = pc[q]
      BY <1>5, <2>4 DEF WriteUser, AfterUser
    <3>2. \E new \in Profile : profile' = [profile EXCEPT ![who[p]] = new]
      BY <1>5, <2>2 DEF WriteUser
    <3>3. QED
      BY <2>1, <2>4, <3>1, <3>2, OthersStayCurrent
  <2>5. QED
    BY <2>3, <2>4
<1>6. ASSUME NEW p \in Calls, WriteDriver(p)
      PROVE  CurrentAt(q)'
  <2>1. InFlight(p) /\ who[p] \in Users /\ UNCHANGED <<who, asked, seen>>
    BY <1>6 DEF WriteDriver, InFlight
  <2>2. Merge(p, DriverField) \in Profile
    BY <1>0, <2>1, ProfileTypes
  <2>3. CASE p = q
    <3>1. pc'[q] \in {"ok", "failed"}
      BY <1>6, <2>3 DEF WriteDriver
    <3>2. QED
      BY <3>1 DEF CurrentAt
  <2>4. CASE p # q
    <3>1. pc'[q] = pc[q]
      BY <1>6, <2>4 DEF WriteDriver
    <3>2. \E new \in Profile : profile' = [profile EXCEPT ![who[p]] = new]
      BY <1>6, <2>2 DEF WriteDriver
    <3>3. QED
      BY <2>1, <2>4, <3>1, <3>2, OthersStayCurrent
  <2>5. QED
    BY <2>3, <2>4
<1>7. ASSUME NEW p \in Calls,
             WriteAvailability(p) \/ StepFails(p) \/ CachePosition(p) \/ Insert(p)
      PROVE  CurrentAt(q)'
  BY <1>7 DEF WriteAvailability, StepFails, CachePosition, Insert, InFlight, CurrentAt, Current
<1>8. ASSUME NEW s \in Searches, SearchCache(s) \/ SearchFallsBack(s) \/ SearchTable(s)
      PROVE  CurrentAt(q)'
  BY <1>8 DEF SearchCache, SearchFallsBack, SearchTable, userVars, CurrentAt, Current
<1>9. CASE UNCHANGED vars
  BY <1>9 DEF vars, userVars, CurrentAt, Current
<1>10. QED
  BY <1>1, <1>2, <1>3, <1>4, <1>5, <1>6, <1>7, <1>8, <1>9 DEF Next, UsersNext, LocationNext


LEMMA Inductive == Spec => [](TypeOK /\ CalmAlone /\ Current)
<1>1. Init => TypeOK /\ CalmAlone /\ Current
  <2>1. Init => CalmAlone /\ Current
    BY DEF Init, UsersInit, CalmAlone, Current, CurrentAt, InFlight
  <2>2. Init => TypeOK
    BY InitTyped
  <2>3. QED
    BY <2>1, <2>2
<1>2. TypeOK /\ CalmAlone /\ Current /\ [Next]_vars => (TypeOK /\ CalmAlone /\ Current)'
  BY TypeStep, AloneStep, CurrentStep
<1>3. QED
  BY <1>1, <1>2, PTL DEF Spec

\* The steps that write a profile.
LEMMA ProfileStep ==
  ASSUME [Next]_vars
  PROVE  profile' = profile \/ \E q \in Calls : WriteUser(q) \/ WriteDriver(q)
BY DEF Next, UsersNext, LocationNext, UpdateProfile, SetAvailability, ReadDriver,
   WriteAvailability, StepFails, UpdateLocation, CachePosition, Insert, SearchCache,
   SearchFallsBack, SearchTable, vars, userVars

\* For a user whose calls do not overlap an update changes nothing but the
\* fields it fills in, although it writes whole rows.
THEOREM OtherFieldsKept == Spec => UpdatesKeepOtherFields
<1> DEFINE Kept ==
      \A u \in Calm : \A f \in Field :
         profile'[u][f] # profile[u][f] =>
             LET q == profile'[u][f] IN
             q \in Calls /\ who[q] = u /\ f \in asked[q] /\ InFlight(q)
<1>1. ASSUME TypeOK, CalmAlone, Current, [Next]_vars
      PROVE  Kept
  <2> SUFFICES ASSUME NEW u \in Calm, NEW f \in Field, profile'[u][f] # profile[u][f]
               PROVE  LET q == profile'[u][f] IN
                      q \in Calls /\ who[q] = u /\ f \in asked[q] /\ InFlight(q)
    OBVIOUS
  <2> USE UsersAssumption DEF TypeOK, UsersTypeOK
  <2>1. PICK q \in Calls : WriteUser(q) \/ WriteDriver(q)
    BY <1>1, ProfileStep
  <2>2. InFlight(q) /\ who[q] \in Users
    BY <1>1, <2>1 DEF WriteUser, WriteDriver, InFlight
  <2>3. PICK fields \in {UserField, DriverField} :
          /\ profile' = [profile EXCEPT ![who[q]] = Merge(q, fields)]
          /\ fields = UserField => pc[q] = "writing"
          /\ fields = DriverField => pc[q] = "driving"
    <3>1. UserField # DriverField
      BY DEF UserField, DriverField
    <3>2. QED
      BY <2>1, <3>1 DEF WriteUser, WriteDriver
  <2>4. u = who[q]
    BY <1>1, <2>2, <2>3
  <2>5. profile'[u][f] = Merge(q, fields)[f]
    BY <1>1, <2>2, <2>3, <2>4
  <2>6. f \in fields /\ (f \in asked[q] \/ Merge(q, fields)[f] = seen[q][f])
    BY <2>4, <2>5 DEF Merge
  <2>7. seen[q][f] = profile[u][f]
    BY <1>1, <2>3, <2>4, <2>6 DEF Current, CurrentAt
  <2>8. f \in asked[q]
    BY <2>5, <2>6, <2>7
  <2>9. profile'[u][f] = q
    BY <2>5, <2>6, <2>8 DEF Merge
  <2>10. QED
    BY <2>2, <2>4, <2>8, <2>9
<1>2. TypeOK /\ CalmAlone /\ Current /\ [Next]_vars => [Kept]_userVars
  BY <1>1
<1>3. QED
  BY <1>2, Inductive, PTL DEF Spec, UpdatesKeepOtherFields

\* Such a user, told that his update is done, finds all of it in his profile.
THEOREM DoneUpdatesAreThere == Spec => DoneUpdatesStand
<1> DEFINE Stand ==
      \A q \in Calls :
         InFlight(q) /\ pc'[q] = "ok" /\ who[q] \in Calm =>
             \A f \in asked[q] :
                 f \in UserField \/ who[q] \in Drivers => profile'[who[q]][f] = q
<1>1. ASSUME TypeOK, CalmAlone, Current, [Next]_vars
      PROVE  Stand
  <2> SUFFICES ASSUME NEW q \in Calls, InFlight(q), pc'[q] = "ok", who[q] \in Calm,
                      NEW f \in asked[q], f \in UserField \/ who[q] \in Drivers
               PROVE  profile'[who[q]][f] = q
    OBVIOUS
  <2> USE UsersAssumption DEF TypeOK, UsersTypeOK, Goto, Finish
  <2>1. /\ f \in Field /\ (f \in UserField \/ f \in DriverField)
        /\ UserField \cap DriverField = {}
        /\ who[q] \in Users /\ pc[q] # "ok"
    BY <1>1 DEF Field, UserField, DriverField, InFlight
  <2>2. pc[q] \in {"reading", "writing", "driving"}
    <3>1. asked[q] # {} /\ pc[q] \in Stage /\ pc[q] \notin {"idle", "ok", "failed"}
      BY <1>1 DEF InFlight
    <3>2. pc[q] \notin {"setting", "caching", "storing"}
      BY <1>1, <3>1 DEF Current, CurrentAt
    <3>3. QED
      BY <3>1, <3>2 DEF Stage
  <2>3. ReadDriver(q) \/ WriteUser(q) \/ WriteDriver(q)
    BY <1>1, <2>1, <2>2 DEF Next, UsersNext, LocationNext, UpdateProfile, SetAvailability,
       ReadDriver, WriteUser, WriteDriver, WriteAvailability, StepFails, UpdateLocation,
       CachePosition, Insert, SearchCache, SearchFallsBack, SearchTable, vars, userVars,
       AfterRead, AfterUser, Arrive
  <2>4. CASE ReadDriver(q)
    BY <1>1, <2>1, <2>4 DEF ReadDriver, AfterRead, AfterUser
  <2>5. CASE WriteUser(q)
    <3>1. f \in UserField
      BY <1>1, <2>1, <2>5 DEF WriteUser, AfterUser
    <3>2. profile'[who[q]] = Merge(q, UserField)
      BY <1>1, <2>1, <2>5 DEF WriteUser
    <3>3. QED
      BY <2>1, <3>1, <3>2 DEF Merge
  <2>6. CASE WriteDriver(q)
    <3>1. profile'[who[q]] = Merge(q, DriverField)
      BY <1>1, <2>1, <2>6 DEF WriteDriver
    <3>2. CASE f \in DriverField
      BY <2>1, <3>1, <3>2 DEF Merge
    <3>3. CASE f \in UserField
      <4>1. profile'[who[q]][f] = profile[who[q]][f]
        BY <2>1, <3>1, <3>3 DEF Merge
      <4>2. profile[who[q]][f] = q
        BY <1>1, <2>1, <2>6, <3>3 DEF WriteDriver, Current, CurrentAt
      <4>3. QED
        BY <4>1, <4>2
    <3>4. QED
      BY <2>1, <3>2, <3>3
  <2>7. QED
    BY <2>3, <2>4, <2>5, <2>6
<1>2. TypeOK /\ CalmAlone /\ Current /\ [Next]_vars => [Stand]_userVars
  BY <1>1
<1>3. QED
  BY <1>2, Inductive, PTL DEF Spec, DoneUpdatesStand

-----------------------------------------------------------------------------
(* Positions *)

\* A call that reports a place is a call of UpdateLocation; a row or an entry
\* of the geo set is from a call that got so far.
Reports ==
    /\ \A q \in Calls :
         place[q] # NoPlace => pc[q] \in {"caching", "storing", "ok", "failed"}
    /\ \A i \in DOMAIN rows : pc[rows[i]] \in {"ok", "failed"}
    /\ \A d \in Drivers : geo[d] # NoCall =>
         who[geo[d]] = d /\ pc[geo[d]] \in {"storing", "ok", "failed"}

\* What concerns calm drivers whose positions reach the geo set.
CacheCurrent ==
    \A q \in Calls : pc[q] = "storing" /\ who[q] \in Calm \cap Sound => geo[who[q]] = q

Positions == Reports /\ ReportsStored /\ CacheCurrent /\ CacheNotBehindTable

\* What the users' service does to its calls, seen from here.
Elsewhere ==
    /\ UNCHANGED locationVars
    /\ \A q \in Calls :
         \/ pc'[q] = pc[q] /\ who'[q] = who[q]
         \/ /\ place[q] = NoPlace
            /\ pc'[q] \notin {"idle", "caching", "storing"}
            /\ pc[q] \notin {"caching", "storing", "ok", "failed"}
         \/ InFlight(q) /\ pc'[q] = "failed" /\ who'[q] = who[q]

LEMMA UsersElsewhere ==
  ASSUME TypeOK, Reports, UsersNext, UNCHANGED locationVars
  PROVE  Elsewhere
<1> USE DEF TypeOK, UsersTypeOK, Goto, Finish, Elsewhere
<1>1. ASSUME NEW q \in Calls, NEW u \in Users, NEW fields \in Updates,
             UpdateProfile(q, u, fields)
      PROVE  Elsewhere
  BY <1>1 DEF UpdateProfile, Arrive, AfterRead, AfterUser, Reports
<1>2. ASSUME NEW q \in Calls, NEW d \in Drivers, NEW b \in BOOLEAN, SetAvailability(q, d, b)
      PROVE  Elsewhere
  BY <1>2 DEF SetAvailability, Arrive, Reports
<1>3. ASSUME NEW q \in Calls,
             ReadDriver(q) \/ WriteUser(q) \/ WriteDriver(q) \/ WriteAvailability(q)
      PROVE  Elsewhere
  BY <1>3 DEF ReadDriver, WriteUser, WriteDriver, WriteAvailability, AfterRead, AfterUser,
     Reports
<1>4. ASSUME NEW q \in Calls, StepFails(q)
      PROVE  Elsewhere
  BY <1>4 DEF StepFails
<1>5. QED
  BY <1>1, <1>2, <1>3, <1>4 DEF UsersNext

LEMMA PositionsStep == TypeOK /\ CalmAlone /\ Positions /\ [Next]_vars => Positions'
<1> SUFFICES ASSUME TypeOK, CalmAlone, Positions, [Next]_vars PROVE Positions'
  OBVIOUS
<1> USE UsersAssumption, LocationAssumption DEF TypeOK, UsersTypeOK, Goto, Finish
<1>0. \A i \in DOMAIN rows : rows[i] \in Calls
  OBVIOUS
<1>1. CASE UsersNext /\ UNCHANGED locationVars
  <2>1. Elsewhere
    BY <1>1, UsersElsewhere DEF Positions
  <2>2. UNCHANGED <<place, geo, rows>>
    BY <2>1 DEF Elsewhere, locationVars
  <2>3. \A q \in Calls :
          \/ pc'[q] = pc[q] /\ who'[q] = who[q]
          \/ /\ place[q] = NoPlace
             /\ pc'[q] \notin {"idle", "caching", "storing"}
             /\ pc[q] \notin {"caching", "storing", "ok", "failed"}
          \/ pc[q] \notin {"ok", "failed"} /\ pc'[q] = "failed" /\ who'[q] = who[q]
    BY <2>1 DEF Elsewhere, InFlight
  <2>8. Reports'
    <3>1. ASSUME NEW q \in Calls, place'[q] # NoPlace
          PROVE  pc'[q] \in {"caching", "storing", "ok", "failed"}
      BY <2>2, <2>3, <3>1 DEF Positions, Reports
    <3>2. ASSUME NEW i \in DOMAIN rows
          PROVE  pc'[rows[i]] \in {"ok", "failed"}
      BY <1>0, <2>3 DEF Positions, Reports
    <3>3. ASSUME NEW d \in Drivers, geo[d] # NoCall
          PROVE  who'[geo[d]] = d /\ pc'[geo[d]] \in {"storing", "ok", "failed"}
      <4>1. geo[d] \in Calls
        BY <3>3
      <4>2. QED
        BY <2>3, <3>3, <4>1 DEF Positions, Reports
    <3>4. QED
      BY <2>2, <3>1, <3>2, <3>3 DEF Reports
  <2>4. ReportsStored'
    <3>1. ASSUME NEW q \in Calls, pc'[q] = "ok", place[q] # NoPlace
          PROVE  pc[q] = "ok"
      BY <2>3, <3>1
    <3>2. QED
      BY <2>2, <3>1 DEF Positions, ReportsStored
  <2>5. CacheCurrent'
    BY <2>1, <2>2 DEF Elsewhere, Positions, CacheCurrent
  <2>6. CacheNotBehindTable'
    BY <1>0, <2>1, <2>2 DEF Elsewhere, Positions, Reports, CacheNotBehindTable, Rows
  <2>7. QED
    BY <2>4, <2>5, <2>6, <2>8 DEF Positions
<1>2. ASSUME NEW q \in Calls, NEW d \in Drivers, NEW p \in Places, UpdateLocation(q, d, p)
      PROVE  Positions'
  <2>1. /\ pc[q] = "idle" /\ UNCHANGED <<geo, rows>>
        /\ pc'[q] = "caching" /\ place'[q] = p
        /\ \A r \in Calls \ {q} : pc'[r] = pc[r] /\ who'[r] = who[r] /\ place'[r] = place[r]
    BY <1>2 DEF UpdateLocation, Arrive
  <2>2. /\ \A i \in DOMAIN rows : rows[i] # q
        /\ \A c \in Drivers : geo[c] # q
    BY <2>1 DEF Positions, Reports
  <2>3. Reports'
    BY <1>0, <2>1, <2>2 DEF Positions, Reports
  <2>4. ReportsStored'
    BY <2>1, <2>2 DEF Positions, ReportsStored
  <2>5. CacheCurrent'
    BY <2>1 DEF Positions, CacheCurrent
  <2>6. CacheNotBehindTable'
    BY <1>0, <2>1, <2>2 DEF Positions, CacheNotBehindTable, Rows
  <2>7. QED
    BY <2>3, <2>4, <2>5, <2>6 DEF Positions
<1>3. ASSUME NEW q \in Calls, CachePosition(q)
      PROVE  Positions'
  <2>1. /\ pc[q] = "caching" /\ pc'[q] = "storing" /\ UNCHANGED <<who, place, rows>>
        /\ \A r \in Calls \ {q} : pc'[r] = pc[r]
        /\ who[q] \in Drivers
        /\ \A c \in Drivers \ {who[q]} : geo'[c] = geo[c]
        /\ geo'[who[q]] \in {geo[who[q]], q}
        /\ who[q] \in Sound => geo'[who[q]] = q
    BY <1>3 DEF CachePosition
  <2>2. \A i \in DOMAIN rows : rows[i] # q
    BY <2>1 DEF Positions, Reports
  <2>3. Reports'
    BY <1>0, <2>1, <2>2 DEF Positions, Reports
  <2>4. ReportsStored'
    BY <2>1 DEF Positions, ReportsStored
  <2>5. \A r \in Calls \ {q} : pc[r] = "storing" /\ who[r] \in Calm => who[r] # who[q]
    BY <2>1 DEF CalmAlone, InFlight
  <2>6. CacheCurrent'
    BY <2>1, <2>5 DEF Positions, CacheCurrent
  <2>7. CacheNotBehindTable'
    BY <2>1, <2>2 DEF Positions, CacheNotBehindTable, Rows
  <2>8. QED
    BY <2>3, <2>4, <2>6, <2>7 DEF Positions
<1>4. ASSUME NEW q \in Calls, Insert(q)
      PROVE  Positions'
  <2>1. /\ pc[q] = "storing" /\ pc'[q] \in {"ok", "failed"} /\ UNCHANGED <<who, place, geo>>
        /\ \A r \in Calls \ {q} : pc'[r] = pc[r]
        /\ rows' = Append(rows, q)
    BY <1>4 DEF Insert
  <2>2. /\ DOMAIN rows = 1 .. Len(rows) /\ DOMAIN rows' = 1 .. Len(rows) + 1
        /\ Len(rows) \in Nat
        /\ \A i \in DOMAIN rows : rows'[i] = rows[i]
        /\ rows'[Len(rows) + 1] = q
    BY <2>1
  <2>3. \A i \in DOMAIN rows : rows[i] # q
    BY <2>1 DEF Positions, Reports
  <2>9. \A i \in DOMAIN rows' : i \in DOMAIN rows \/ i = Len(rows) + 1
    BY <2>2
  <2>4. Reports'
    <3>1. \A i \in DOMAIN rows' : pc'[rows'[i]] \in {"ok", "failed"}
      BY <1>0, <2>1, <2>2, <2>3, <2>9 DEF Positions, Reports
    <3>2. \A r \in Calls :
            place'[r] # NoPlace => pc'[r] \in {"caching", "storing", "ok", "failed"}
      BY <2>1 DEF Positions, Reports
    <3>3. ASSUME NEW d \in Drivers, geo'[d] # NoCall
          PROVE  who'[geo'[d]] = d /\ pc'[geo'[d]] \in {"storing", "ok", "failed"}
      <4>1. geo'[d] = geo[d] /\ geo[d] \in Calls /\ who' = who
        BY <2>1, <3>3
      <4>2. who[geo[d]] = d /\ pc[geo[d]] \in {"storing", "ok", "failed"}
        BY <3>3, <4>1 DEF Positions, Reports
      <4>3. pc'[geo[d]] \in {"storing", "ok", "failed"}
        BY <2>1, <4>1, <4>2
      <4>4. QED
        BY <4>1, <4>2, <4>3
    <3>4. QED
      BY <3>1, <3>2, <3>3 DEF Reports
  <2>5. ReportsStored'
    <3>1. \A i, j \in DOMAIN rows' : rows'[i] = rows'[j] => i = j
      BY <2>2, <2>3, <2>9 DEF Positions, ReportsStored
    <3>2. ASSUME NEW r \in Calls, pc'[r] = "ok", place[r] # NoPlace
          PROVE  \E i \in DOMAIN rows' : rows'[i] = r
      <4>1. CASE r = q
        <5>1. Len(rows) + 1 \in DOMAIN rows'
          BY <2>2
        <5>2. QED
          BY <2>2, <4>1, <5>1
      <4>2. CASE r # q
        <5>1. PICK i \in DOMAIN rows : rows[i] = r
          BY <2>1, <3>2, <4>2 DEF Positions, ReportsStored
        <5>2. i \in DOMAIN rows' /\ rows'[i] = r
          BY <2>2, <5>1
        <5>3. QED
          BY <5>2
      <4>3. QED
        BY <4>1, <4>2
    <3>3. QED
      BY <2>1, <3>1, <3>2 DEF ReportsStored
  <2>6. CacheCurrent'
    BY <2>1 DEF Positions, CacheCurrent
  <2>7. CacheNotBehindTable'
    <3> SUFFICES ASSUME NEW d \in Calm \cap Sound, NEW i \in Rows(d)', NEW j \in Rows(d)', i < j
                 PROVE  geo[d] # rows'[i]
      BY <2>1 DEF CacheNotBehindTable
    <3>1. i \in Rows(d) /\ rows'[i] = rows[i] /\ rows[i] # q
      BY <2>1, <2>2, <2>3 DEF Rows
    <3>2. CASE j \in Rows(d)
      BY <3>1, <3>2 DEF Positions, CacheNotBehindTable
    <3>3. CASE j = Len(rows) + 1
      BY <2>1, <2>2, <3>1, <3>3 DEF Positions, CacheCurrent, Rows
    <3>4. QED
      BY <2>1, <2>2, <3>2, <3>3 DEF Rows
  <2>8. QED
    BY <2>4, <2>5, <2>6, <2>7 DEF Positions
<1>5. ASSUME NEW s \in Searches, SearchCache(s) \/ SearchFallsBack(s) \/ SearchTable(s)
      PROVE  Positions'
  BY <1>5 DEF SearchCache, SearchFallsBack, SearchTable, userVars, Positions, Reports,
     ReportsStored, CacheCurrent, CacheNotBehindTable, Rows
<1>6. CASE UNCHANGED vars
  BY <1>6 DEF vars, userVars, locationVars, Positions, Reports,
     ReportsStored, CacheCurrent, CacheNotBehindTable, Rows
<1>7. QED
  BY <1>1, <1>2, <1>3, <1>4, <1>5, <1>6 DEF Next, LocationNext

LEMMA PositionsInductive == Spec => [](TypeOK /\ Positions)
<1>1. Init => Positions
  BY DEF Init, UsersInit, Positions, Reports, ReportsStored, CacheCurrent,
     CacheNotBehindTable, Rows
<1>2. TypeOK /\ CalmAlone /\ Positions /\ [Next]_vars => Positions'
  BY PositionsStep
<1>3. QED
  BY <1>1, <1>2, Inductive, PTL DEF Spec

\* A report is stored once, and surely when the driver is told so.
THEOREM StoredOnce == Spec => []ReportsStored
<1>1. Positions => ReportsStored
  BY DEF Positions
<1>2. QED
  BY <1>1, PositionsInductive, PTL

\* The geo set does not hold a position the table has a later one than.
THEOREM CacheNeverBehind == Spec => []CacheNotBehindTable
<1>1. Positions => CacheNotBehindTable
  BY DEF Positions
<1>2. QED
  BY <1>1, PositionsInductive, PTL

-----------------------------------------------------------------------------
(* Searches *)

\* A row that is answered from the table is the driver's last within the radius.
LEMMA FoundRowsAreLast ==
  ASSUME TypeOK, ReportsStored, NEW f \in FindNearby,
         NEW i \in Rows(f.driver), NEW j \in Rows(f.driver), rows[i] = f.report, i < j
  PROVE  ~ReportIsNear(rows[j])
<1>1. PICK k \in NearRows(f.driver) :
        rows[k] = f.report /\ \A l \in NearRows(f.driver) : l <= k
  BY DEF FindNearby
<1>2. i = k
  BY <1>1 DEF ReportsStored, Rows, NearRows
<1>3. ASSUME ReportIsNear(rows[j])
      PROVE  FALSE
  <2>1. j \in NearRows(f.driver)
    BY <1>3 DEF Rows, NearRows
  <2>2. i \in Nat /\ j \in Nat /\ j <= i
    BY <1>1, <1>2, <2>1 DEF Rows, TypeOK
  <2>3. QED
    BY <2>2
<1>4. QED
  BY <1>3

\* No search answers a position that the table has a later one than within the
\* radius: the table for nobody, the geo set for no driver who is calm and
\* sound; and those the table answers are available.
THEOREM SearchesAreCurrent == Spec => SearchesCurrent
<1> DEFINE LastNear(s, f) ==
      /\ search'[s] = "table" => available[f.driver]
      /\ search'[s] = "table" \/ f.driver \in Calm \cap Sound =>
             \A i, j \in Rows(f.driver) :
                 rows[i] = f.report /\ i < j => ~ReportIsNear(rows[j])
<1> DEFINE NothingYet ==
      \A s \in Searches : search[s] \in {"idle", "fallback"} => found[s] = {}
<1>1. Init => NothingYet
  BY DEF Init
<1>2. TypeOK /\ NothingYet /\ [Next]_vars => NothingYet'
  <2> SUFFICES ASSUME TypeOK, NothingYet, [Next]_vars PROVE NothingYet'
    OBVIOUS
  <2>1. CASE UNCHANGED <<search, found>>
    BY <2>1
  <2>2. ASSUME NEW t \in Searches, SearchCache(t) \/ SearchFallsBack(t) \/ SearchTable(t)
        PROVE  NothingYet'
    BY <2>2 DEF SearchCache, SearchFallsBack, SearchTable, TypeOK
  <2>3. QED
    BY <2>1, <2>2 DEF Next, LocationNext, locationVars, UpdateLocation, CachePosition,
       Insert, vars
<1>3. ASSUME TypeOK, Positions, NothingYet, [Next]_vars,
             NEW s \in Searches, NEW f \in found'[s], search'[s] # search[s]
      PROVE  LastNear(s, f)
  <2>1. PICK t \in Searches : SearchCache(t) \/ SearchFallsBack(t) \/ SearchTable(t)
    BY <1>3 DEF Next, LocationNext, locationVars, UpdateLocation, CachePosition, Insert, vars
  <2>2. s = t /\ search[s] \in {"idle", "fallback"} /\ found[s] = {}
    BY <1>3, <2>1 DEF SearchCache, SearchFallsBack, SearchTable, TypeOK
  <2>3. CASE SearchCache(s)
    <3>1. search'[s] = "cache" /\ f \in Cached
      BY <1>3, <2>3 DEF SearchCache, Nearest, TypeOK
    <3>2. f.driver \in Drivers /\ f.report = geo[f.driver]
      BY <3>1 DEF Cached, Finding
    <3>3. QED
      BY <1>3, <3>1, <3>2 DEF Positions, CacheNotBehindTable
  <2>4. CASE SearchTable(s)
    <3>1. f \in FindNearby
      BY <1>3, <2>2, <2>4 DEF SearchTable, TypeOK
    <3>2. available[f.driver]
      BY <3>1 DEF FindNearby
    <3>3. QED
      BY <1>3, <3>1, <3>2, FoundRowsAreLast DEF Positions
  <2>5. CASE SearchFallsBack(s)
    BY <1>3, <2>2, <2>5 DEF SearchFallsBack
  <2>6. QED
    BY <2>1, <2>2, <2>3, <2>4, <2>5
<1>4. TypeOK /\ Positions /\ NothingYet /\ [Next]_vars =>
        [\A s \in Searches : \A f \in found'[s] : search'[s] # search[s] =>
            LastNear(s, f)]_vars
  BY <1>3
<1>5. QED
  BY <1>1, <1>2, <1>4, PositionsInductive, PTL DEF Spec, SearchesCurrent


\* What FindingsTruthful says of one search.
Truthful(s) ==
    /\ \A f \in found[s] : who[f.report] = f.driver /\ ReportIsNear(f.report)
    /\ \A f, g \in found[s] : f.driver = g.driver => f = g
    /\ search[s] = "cache" => found[s] # {} /\ Cardinality(found[s]) <= Limit
    /\ search[s] = "table" =>
           \A f \in found[s] : \E i \in DOMAIN rows : rows[i] = f.report

\* A report does not change, and a row is never deleted.
LEMMA ReportsStay ==
  ASSUME TypeOK, [Next]_vars
  PROVE  /\ \A q \in Calls : pc[q] # "idle" => who'[q] = who[q] /\ place'[q] = place[q]
         /\ \A i \in DOMAIN rows : i \in DOMAIN rows' /\ rows'[i] = rows[i]
<1> USE DEF TypeOK, UsersTypeOK
<1>1. \A q \in Calls : pc[q] # "idle" => who'[q] = who[q]
  BY CallStep DEF OwnStep, Arrive
<1>2. place' = place \/ \E q \in Calls, p \in Places :
                         pc[q] = "idle" /\ place' = [place EXCEPT ![q] = p]
  BY DEF Next, LocationNext, UpdateLocation, Arrive, CachePosition, Insert, SearchCache,
     SearchFallsBack, SearchTable, vars, locationVars
<1>3. rows' = rows \/ \E q \in Calls : rows' = Append(rows, q)
  BY DEF Next, LocationNext, UpdateLocation, CachePosition, Insert, SearchCache,
     SearchFallsBack, SearchTable, vars, locationVars
<1>4. \A q \in Calls : pc[q] # "idle" => place'[q] = place[q]
  BY <1>2
<1>5. ASSUME NEW q \in Calls, rows' = Append(rows, q), NEW i \in DOMAIN rows
      PROVE  i \in DOMAIN rows' /\ rows'[i] = rows[i]
  BY <1>5
<1>6. QED
  BY <1>1, <1>3, <1>4, <1>5

LEMMA CacheSearchTruthful ==
  ASSUME TypeOK, Reports, NEW chosen \in Nearest(Cached), Cached # {}
  PROVE  /\ \A f \in chosen : who[f.report] = f.driver /\ ReportIsNear(f.report)
         /\ \A f, g \in chosen : f.driver = g.driver => f = g
         /\ chosen # {} /\ Cardinality(chosen) <= Limit
<1> USE UsersAssumption, LocationAssumption
<1>1. chosen \subseteq Cached
  BY DEF Nearest
<1>2. \A f \in Cached : /\ f.driver \in Drivers /\ f.report \in Calls
                        /\ f.report = geo[f.driver] /\ ReportIsNear(f.report)
                        /\ f = [driver |-> f.driver, report |-> f.report]
  BY DEF Cached, Finding
<1>3. \A f \in Cached : who[f.report] = f.driver
  BY <1>2 DEF Reports
<1>4. \A f, g \in chosen : f.driver = g.driver => f = g
  BY <1>1, <1>2
<1>5. Cardinality(chosen) <= Limit
  BY DEF Nearest
<1>6. chosen # {}
  BY FS_EmptySet DEF Nearest
<1>7. QED
  BY <1>1, <1>2, <1>3, <1>4, <1>5, <1>6

LEMMA TableSearchTruthful ==
  ASSUME TypeOK
  PROVE  /\ \A f \in FindNearby : who[f.report] = f.driver /\ ReportIsNear(f.report)
         /\ \A f, g \in FindNearby : f.driver = g.driver => f = g
         /\ \A f \in FindNearby : \E i \in DOMAIN rows : rows[i] = f.report
<1>1. \A d : NearRows(d) \subseteq DOMAIN rows /\ NearRows(d) \subseteq Nat
  BY DEF NearRows, TypeOK
<1>2. \A f \in FindNearby :
        \E i \in NearRows(f.driver) :
          rows[i] = f.report /\ \A j \in NearRows(f.driver) : j <= i
  BY DEF FindNearby
<1>3. ASSUME NEW f \in FindNearby, NEW g \in FindNearby, f.driver = g.driver
      PROVE  f = g
  <2>1. PICK i \in NearRows(f.driver) :
          rows[i] = f.report /\ \A j \in NearRows(f.driver) : j <= i
    BY <1>2
  <2>2. PICK k \in NearRows(f.driver) :
          rows[k] = g.report /\ \A j \in NearRows(f.driver) : j <= k
    BY <1>2, <1>3
  <2>3. i <= k /\ k <= i /\ i \in Nat /\ k \in Nat
    BY <1>1, <2>1, <2>2
  <2>4. f.report = g.report
    BY <2>1, <2>2, <2>3
  <2>5. QED
    BY <1>3, <2>4 DEF FindNearby, Finding
<1>4. QED
  BY <1>1, <1>2, <1>3 DEF NearRows

LEMMA TruthfulStep ==
  ASSUME TypeOK, Reports, FindingsTruthful, [Next]_vars
  PROVE  FindingsTruthful'
<1> SUFFICES ASSUME NEW s \in Searches PROVE Truthful(s)'
  BY DEF FindingsTruthful, Truthful
<1> USE UsersAssumption, LocationAssumption
<1>1. Truthful(s)
  BY DEF FindingsTruthful, Truthful
<1>2. \A f \in Finding : ReportIsNear(f.report) =>
        who'[f.report] = who[f.report] /\ ReportIsNear(f.report)'
  <2> SUFFICES ASSUME NEW f \in Finding, ReportIsNear(f.report)
               PROVE  who'[f.report] = who[f.report] /\ place'[f.report] = place[f.report]
    BY DEF ReportIsNear
  <2>1. f.report \in Calls /\ place[f.report] # NoPlace
    BY DEF Finding, ReportIsNear
  <2>2. pc[f.report] # "idle"
    BY <2>1 DEF Reports
  <2>3. QED
    BY <2>1, <2>2, ReportsStay
<1>3. \A i \in DOMAIN rows : i \in DOMAIN rows' /\ rows'[i] = rows[i]
  BY ReportsStay
<1>4. ASSUME found'[s] = found[s], search'[s] = search[s] \/ search'[s] \in {"fallback", "failed"}
      PROVE  Truthful(s)'
  <2>1. found[s] \subseteq Finding
    BY DEF TypeOK
  <2>2. \A f \in found'[s] : who'[f.report] = f.driver /\ ReportIsNear(f.report)'
    BY <1>1, <1>2, <1>4, <2>1 DEF Truthful
  <2>3. QED
    BY <1>1, <1>3, <1>4, <2>2 DEF Truthful
<1>5. ASSUME SearchCache(s)
      PROVE  Truthful(s)'
  <2>1. PICK chosen \in Nearest(Cached) : found'[s] = chosen
    BY <1>5 DEF SearchCache, TypeOK
  <2>2. search'[s] = "cache" /\ Cached # {} /\ chosen \subseteq Finding
    BY <1>5 DEF SearchCache, TypeOK, Nearest, Cached
  <2>3. \A f \in chosen : who[f.report] = f.driver /\ ReportIsNear(f.report)
    BY <2>2, CacheSearchTruthful
  <2>4. QED
    BY <1>2, <2>1, <2>2, <2>3, CacheSearchTruthful DEF Truthful
<1>6. ASSUME SearchTable(s)
      PROVE  Truthful(s)'
  <2>1. CASE found'[s] \in SUBSET FindNearby /\ search'[s] = "table"
    <3>1. \A f \in FindNearby : f \in Finding
      BY DEF FindNearby
    <3>2. \A f \in FindNearby : who'[f.report] = f.driver /\ ReportIsNear(f.report)'
      BY <1>2, <3>1, TableSearchTruthful
    <3>3. \A f \in FindNearby : \E i \in DOMAIN rows' : rows'[i] = f.report
      BY <1>3, TableSearchTruthful
    <3>4. QED
      BY <2>1, <3>2, <3>3, TableSearchTruthful DEF Truthful
  <2>2. CASE found'[s] = found[s] /\ search'[s] = "failed"
    BY <1>4, <2>2
  <2>3. QED
    BY <1>6, <2>1, <2>2 DEF SearchTable, TypeOK
<1>7. ASSUME NEW t \in Searches, t # s, SearchCache(t) \/ SearchTable(t)
      PROVE  Truthful(s)'
  BY <1>4, <1>7 DEF SearchCache, SearchTable, TypeOK
<1>8. ASSUME NEW t \in Searches, SearchFallsBack(t)
      PROVE  Truthful(s)'
  BY <1>4, <1>8 DEF SearchFallsBack, TypeOK
<1>9. CASE UNCHANGED <<search, found>>
  BY <1>4, <1>9
<1>10. QED
  BY <1>5, <1>6, <1>7, <1>8, <1>9 DEF Next, LocationNext, locationVars, UpdateLocation,
     CachePosition, Insert, vars

\* Searches answer positions within the radius that the drivers found there
\* reported, each driver once, and at most Limit from the geo set.
THEOREM FindingsAreTruthful == Spec => []FindingsTruthful
<1>1. Init => FindingsTruthful
  BY DEF Init, FindingsTruthful
<1>2. TypeOK /\ Positions /\ FindingsTruthful /\ [Next]_vars => FindingsTruthful'
  BY TruthfulStep DEF Positions
<1>3. QED
  BY <1>1, <1>2, PositionsInductive, PTL DEF Spec

=============================================================================
