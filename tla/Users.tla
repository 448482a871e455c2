------------------------------- MODULE Users --------------------------------
(***************************************************************************)
(* The user service, internal/user: UpdateProfile and SetAvailability over *)
(* the tables users and drivers.  A user only calls for himself, which the *)
(* gateway sees to.  GetProfile reads only.                                *)
(*                                                                         *)
(* pc[q] is where call q stands:                                           *)
(*                                                                         *)
(*   reading      UpdateProfile read the row of users; next: that of       *)
(*                drivers                                                  *)
(*   writing      next: UPDATE users                                       *)
(*   driving      next: UPDATE drivers                                     *)
(*   setting      SetAvailability read the role; next: UPDATE drivers      *)
(*   ok, failed   answered, or never answered for the process died: it     *)
(*                keeps no state                                           *)
(*                                                                         *)
(* A value of a field is named by the call that brought it.                *)
(***************************************************************************)
EXTENDS Naturals

CONSTANTS
    Calls,
    Riders, Drivers,
    Calm,     \* users whose calls do not overlap
    Updates,  \* the sets of fields that requests fill in
    NoCall,   \* the origin of what a field held at first
    NoUser    \* the user of a call not made yet

VARIABLES
    profile,    \* the columns of users and drivers a profile consists of
    available,  \* drivers.is_available
    pc,
    who,        \* the user who made the call
    asked,      \* the fields the request fills in
    seen,       \* the row UpdateProfile read
    online      \* what SetAvailability is asked to set

userVars == <<profile, available, pc, who, asked, seen, online>>

UserField == {"name", "phone"}

DriverField == {"vehicle_type", "license_plate"}

Field == UserField \cup DriverField

Users == Riders \cup Drivers

Profile == [Field -> Calls \cup {NoCall}]

ASSUME UsersAssumption ==
    /\ NoCall \notin Calls
    /\ NoUser \notin Users
    /\ Calm \subseteq Users
    /\ Updates \subseteq SUBSET Field

\* The stages of the location service, which shares the calls, included.
Stage == {"idle", "reading", "writing", "driving", "setting", "caching", "storing",
          "ok", "failed"}

InFlight(q) == pc[q] \notin {"idle", "ok", "failed"}

AsAtFirst == [f \in Field |-> NoCall]

UsersInit ==
    /\ profile = [u \in Users |-> AsAtFirst]
    /\ available = [d \in Drivers |-> TRUE]
    /\ pc = [q \in Calls |-> "idle"]
    /\ who = [q \in Calls |-> NoUser]
    /\ asked = [q \in Calls |-> {}]
    /\ seen = [q \in Calls |-> AsAtFirst]
    /\ online = [q \in Calls |-> FALSE]

Goto(q, stage) == pc' = [pc EXCEPT ![q] = stage]

\* The effect is there whether or not the caller learns of it.
Finish(q) == \E answer \in {"ok", "failed"} : Goto(q, answer)

Arrive(q, u) ==
    /\ pc[q] = "idle"
    /\ u \in Calm => \A p \in Calls : InFlight(p) => who[p] # u
    /\ who' = [who EXCEPT ![q] = u]

-----------------------------------------------------------------------------
(* UpdateProfile *)

\* Fault: the role is not looked at.
AfterUserAnyRole(q, u, fields) ==
    IF fields \cap DriverField # {} THEN Goto(q, "driving") ELSE Finish(q)

AfterUser(q, u, fields) ==
    IF u \in Drivers /\ fields \cap DriverField # {} THEN Goto(q, "driving") ELSE Finish(q)

AfterRead(q, u, fields) ==
    IF fields \cap UserField # {} THEN Goto(q, "writing") ELSE AfterUser(q, u, fields)

\* GetByID is two queries, the second one for drivers only.
UpdateProfile(q, u, fields) ==
    /\ Arrive(q, u)
    /\ asked' = [asked EXCEPT ![q] = fields]
    /\ seen' = [seen EXCEPT ![q] = profile[u]]
    /\ IF u \in Drivers THEN Goto(q, "reading") ELSE AfterRead(q, u, fields)
    /\ UNCHANGED <<profile, available, online>>

ReadDriver(q) ==
    /\ pc[q] = "reading"
    /\ seen' = [seen EXCEPT ![q] =
                  [f \in Field |-> IF f \in DriverField THEN profile[who[q]][f] ELSE @[f]]]
    /\ AfterRead(q, who[q], asked[q])
    /\ UNCHANGED <<profile, available, who, asked, online>>

\* Fault: a field left empty is written empty.
MergeEmpty(q, fields) ==
    [f \in Field |-> IF f \notin fields THEN profile[who[q]][f]
                     ELSE IF f \in asked[q] THEN q ELSE NoCall]

\* The columns an UPDATE writes: a field left empty gets what was read.
Merge(q, fields) ==
    [f \in Field |-> IF f \notin fields THEN profile[who[q]][f]
                     ELSE IF f \in asked[q] THEN q ELSE seen[q][f]]

WriteUser(q) ==
    /\ pc[q] = "writing"
    /\ profile' = [profile EXCEPT ![who[q]] = Merge(q, UserField)]
    /\ AfterUser(q, who[q], asked[q])
    /\ UNCHANGED <<available, who, asked, seen, online>>

\* Fault: the failure of the second statement is not reported.
WriteDriverUnnoticed(q) ==
    /\ pc[q] = "driving"
    /\ \/ profile' = [profile EXCEPT ![who[q]] = Merge(q, DriverField)]
       \/ UNCHANGED profile
    /\ Goto(q, "ok")
    /\ UNCHANGED <<available, who, asked, seen, online>>

\* The columns of drivers are written last.
WriteDriver(q) ==
    /\ pc[q] = "driving"
    /\ profile' = [profile EXCEPT ![who[q]] = Merge(q, DriverField)]
    /\ Finish(q)
    /\ UNCHANGED <<available, who, asked, seen, online>>

-----------------------------------------------------------------------------
(* SetAvailability: nothing but this column changes *)

SetAvailability(q, d, b) ==
    /\ Arrive(q, d)
    /\ online' = [online EXCEPT ![q] = b]
    /\ Goto(q, "setting")
    /\ UNCHANGED <<profile, available, asked, seen>>

WriteAvailability(q) ==
    /\ pc[q] = "setting"
    /\ available' = [available EXCEPT ![who[q]] = online[q]]
    /\ Finish(q)
    /\ UNCHANGED <<profile, who, asked, seen, online>>

-----------------------------------------------------------------------------

\* An access fails, the deadline of 5 seconds passes, or the process dies.
\* What an earlier statement of the call wrote stays.
StepFails(q) ==
    /\ InFlight(q)
    /\ Goto(q, "failed")
    /\ UNCHANGED <<profile, available, who, asked, seen, online>>

UsersNext ==
    \E q \in Calls :
        \/ \E u \in Users, fields \in Updates : UpdateProfile(q, u, fields)
        \/ \E d \in Drivers, b \in BOOLEAN : SetAvailability(q, d, b)
        \/ ReadDriver(q)
        \/ WriteUser(q)
        \/ WriteDriver(q)
        \/ WriteAvailability(q)
        \/ StepFails(q)

-----------------------------------------------------------------------------
(* Properties *)

\* Types, and only drivers reach the statements on drivers.
UsersTypeOK ==
    /\ profile \in [Users -> Profile]
    /\ available \in [Drivers -> BOOLEAN]
    /\ pc \in [Calls -> Stage]
    /\ who \in [Calls -> Users \cup {NoUser}]
    /\ asked \in [Calls -> SUBSET Field]
    /\ seen \in [Calls -> Profile]
    /\ online \in [Calls -> BOOLEAN]
    /\ \A q \in Calls :
         /\ pc[q] # "idle" => who[q] \in Users
         /\ pc[q] \in {"reading", "driving", "setting", "caching", "storing"} =>
                who[q] \in Drivers

\* An update that fills in some fields leaves the others alone, although it
\* writes them too, with what it read before: for a user whose calls do not
\* overlap no value ever goes back to an older one.
UpdatesKeepOtherFields ==
    [][\A u \in Calm : \A f \in Field :
         profile'[u][f] # profile[u][f] =>
             LET q == profile'[u][f] IN
             q \in Calls /\ who[q] = u /\ f \in asked[q] /\ InFlight(q)]_userVars

\* A user whose calls do not overlap and who is told that an update is done
\* finds all of it in his profile, though it is written in two statements.
DoneUpdatesStand ==
    [][\A q \in Calls :
         InFlight(q) /\ pc'[q] = "ok" /\ who[q] \in Calm =>
             \A f \in asked[q] :
                 f \in UserField \/ who[q] \in Drivers => profile'[who[q]][f] = q]_userVars

=============================================================================
