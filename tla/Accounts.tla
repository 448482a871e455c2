------------------------------ MODULE Accounts ------------------------------
(***************************************************************************)
(* The auth service: Register, Login and RefreshToken of                   *)
(* internal/auth/service.go over the tables users and drivers, with the    *)
(* LoginAttemptTracker of pkg/security/security.go, which every auth       *)
(* process keeps in its own memory.                                        *)
(*                                                                         *)
(* pc[q] is where call q stands.  Registering:                             *)
(*                                                                         *)
(*   free       GetByEmail found nobody; next: begin and CreateUser        *)
(*   inserted   the user is inserted, uncommitted; next: CreateDriver      *)
(*   ready      next: the commit                                           *)
(*                                                                         *)
(* and logging in:                                                         *)
(*                                                                         *)
(*   admitted   IsLocked said no; next: GetByEmail, compare the password   *)
(*   wrong      no such user or password; next: RecordFailure              *)
(*   right      the password matches; next: RecordSuccess                  *)
(*                                                                         *)
(* A call ends with the answer pc[q] names, or dead with its process.      *)
(* A row is named by the call that inserts it, and holds what the call     *)
(* asked for.  A call that refreshes tokens stands for the account they    *)
(* name.  Time is what the tracker makes of it: a lock is aged once it is  *)
(* older than lockDur; tokens may expire at any time.                      *)
(*                                                                         *)
(* A definition marked Fault is not part of the specification: it is the   *)
(* next definition with a plausible bug.                                   *)
(***************************************************************************)
EXTENDS Naturals, FiniteSets

CONSTANTS
    Calls,       \* calls of Register and of Login
    Emails,
    Passwords,
    Servers,     \* auth processes
    Stable,      \* processes that do not restart
    ViaGateway,  \* calls that come over HTTP; the others call the service
    MaxFails,    \* failures before a lock
    NoServer, NoRequest  \* of a call not made yet

ASSUME ConstantsAssumption ==
    /\ Stable \subseteq Servers
    /\ ViaGateway \subseteq Calls
    /\ MaxFails \in Nat \ {0}
    /\ IsFiniteSet(Calls)
    /\ NoServer \notin Servers

VARIABLES
    users,     \* the calls with a row in the table users
    drivers,   \* the calls with a row in the table drivers
    attempts,  \* attempts of each tracker, no entry: no failures
    pc,
    server,    \* the process serving the call
    req        \* what the client sent

vars == <<users, drivers, attempts, pc, server, req>>

Role == {"rider", "driver"}

\* An email as it is written.
Address == Emails \X {"lower", "mixed"}

\* vehicle: vehicle_type and license_plate are given.
Request == [email : Address, password : Passwords, role : Role, vehicle : BOOLEAN]

Answer == {"registered", "authenticated", "conflict", "bad_request",
           "unauthorized", "locked", "refreshed", "rejected", "internal", "dead"}

Stage == {"idle", "free", "inserted", "ready", "admitted", "wrong", "right"} \cup Answer

InFlight(q) == pc[q] \notin Answer \cup {"idle"}

NoAttempts == [fails |-> 0, aged |-> FALSE]

Init ==
    /\ users = {}
    /\ drivers = {}
    /\ attempts = [s \in Servers |-> [a \in Address |-> NoAttempts]]
    /\ pc = [q \in Calls |-> "idle"]
    /\ server = [q \in Calls |-> NoServer]
    /\ req = [q \in Calls |-> NoRequest]

Goto(q, stage) == pc' = [pc EXCEPT ![q] = stage]

Arrive(q, s, r) ==
    /\ pc[q] = "idle"
    /\ server' = [server EXCEPT ![q] = s]
    /\ req' = [req EXCEPT ![q] = r]

\* Fault: the email is taken as it is written.
AsWritten(a) == a

\* ToLower and TrimSpace.
Lower(a) == <<a[1], "lower">>

Email(q) == Lower(req[q].email)

-----------------------------------------------------------------------------
(* Register *)

\* Of a request that comes over HTTP the service sees no vehicle.
VehicleReceived(q, r) == r.vehicle /\ q \notin ViaGateway

GetByEmail(a) == {p \in users : Email(p) = a}

\* The email is looked up, then the fields of a driver are required.
Register(q, s, r) ==
    /\ Arrive(q, s, r)
    /\ Goto(q, IF GetByEmail(Lower(r.email)) # {} THEN "conflict"
               ELSE IF r.role = "driver" /\ ~VehicleReceived(q, r) THEN "bad_request"
               ELSE "free")
    /\ UNCHANGED <<users, drivers, attempts>>

\* Fault: the index on users.email is not unique.
CreateUserTwice(q) ==
    /\ pc[q] = "free"
    /\ Goto(q, IF req[q].role = "driver" THEN "inserted" ELSE "ready")
    /\ UNCHANGED <<users, drivers, attempts, server, req>>

\* The INSERT waits while another transaction holds the same email in the
\* unique index, and fails when the email is taken.
CreateUser(q) ==
    /\ pc[q] = "free"
    /\ \A p \in Calls : pc[p] \in {"inserted", "ready"} => Email(p) # Email(q)
    /\ Goto(q, IF GetByEmail(Email(q)) # {} THEN "internal"
               ELSE IF req[q].role = "driver" THEN "inserted" ELSE "ready")
    /\ UNCHANGED <<users, drivers, attempts, server, req>>

CreateDriver(q) ==
    /\ pc[q] = "inserted"
    /\ Goto(q, "ready")
    /\ UNCHANGED <<users, drivers, attempts, server, req>>

\* Fault: the driver row is inserted after the transaction, not in it.
CommitUserOnly(q) ==
    /\ pc[q] = "ready"
    /\ users' = users \cup {q}
    /\ \E answered \in BOOLEAN :
         /\ Goto(q, IF answered THEN "registered" ELSE "internal")
         /\ drivers' = IF answered /\ req[q].role = "driver" THEN drivers \cup {q} ELSE drivers
    /\ UNCHANGED <<attempts, server, req>>

\* The user and the driver become visible together.  When the answer is lost,
\* or the tokens cannot be signed, the call fails all the same.
Commit(q) ==
    /\ pc[q] = "ready"
    /\ users' = users \cup {q}
    /\ drivers' = IF req[q].role = "driver" THEN drivers \cup {q} ELSE drivers
    /\ \E answered \in BOOLEAN : Goto(q, IF answered THEN "registered" ELSE "internal")
    /\ UNCHANGED <<attempts, server, req>>

-----------------------------------------------------------------------------
(* Login and the tracker *)

Forget(s, a) == attempts' = [attempts EXCEPT ![s][a] = NoAttempts]

\* Fault: a lock is dropped by whoever asks.
IsLockedOnce(q, s, r) ==
    /\ Arrive(q, s, r)
    /\ LET a == Lower(r.email) IN
         IF attempts[s][a].fails >= MaxFails
         THEN Forget(s, a) /\ Goto(q, "locked")
         ELSE Goto(q, "admitted") /\ UNCHANGED attempts
    /\ UNCHANGED <<users, drivers>>

\* The call arrives and asks IsLocked, which drops a lock that is over.
Login(q, s, r) ==
    /\ Arrive(q, s, r)
    /\ LET a == Lower(r.email) IN
         IF attempts[s][a].aged
         THEN Forget(s, a) /\ Goto(q, "admitted")
         ELSE /\ Goto(q, IF attempts[s][a].fails >= MaxFails THEN "locked" ELSE "admitted")
              /\ UNCHANGED attempts
    /\ UNCHANGED <<users, drivers>>

\* The user is read and the password compared with the hash.
ComparePassword(q) ==
    /\ pc[q] = "admitted"
    /\ Goto(q, IF \E p \in GetByEmail(Email(q)) : req[p].password = req[q].password
               THEN "right" ELSE "wrong")
    /\ UNCHANGED <<users, drivers, attempts, server, req>>

\* Fault: a failure counts for every email with one.
RecordFailureForAll(q) ==
    /\ pc[q] = "wrong"
    /\ attempts' = [attempts EXCEPT ![server[q]] =
                      [a \in Address |-> [fails |-> @[a].fails + 1, aged |-> FALSE]]]
    /\ Goto(q, "unauthorized")
    /\ UNCHANGED <<users, drivers, server, req>>

\* At the limit and beyond, a failure starts the lock (again).
RecordFailure(q) ==
    /\ pc[q] = "wrong"
    /\ attempts' = [attempts EXCEPT ![server[q]][Email(q)] =
                      [fails |-> @.fails + 1, aged |-> FALSE]]
    /\ Goto(q, "unauthorized")
    /\ UNCHANGED <<users, drivers, server, req>>

\* The failures are forgotten before the tokens are signed, which may fail.
RecordSuccess(q) ==
    /\ pc[q] = "right"
    /\ Forget(server[q], Email(q))
    /\ \E signed \in BOOLEAN : Goto(q, IF signed THEN "authenticated" ELSE "internal")
    /\ UNCHANGED <<users, drivers, server, req>>

\* The calls answered with a pair of tokens, an access and a refresh token.
\* They name the account of the call and are signed; the service keeps nothing
\* of them.
Issued(b) == pc[b] \in {"registered", "authenticated", "refreshed"}

\* ValidateRefreshToken: the signature holds, and a refresh token, unlike an
\* access token, names "refresh" as its audience.
ValidateRefreshToken(audience, expired) == audience = "refresh" /\ ~expired

\* The client of call b sends one of its tokens, and the account is looked up
\* by the id in it, with or without an error.
RefreshToken(q, s, b) ==
    /\ Issued(b)
    /\ Arrive(q, s, req[b])
    /\ \/ \E audience \in {"access", "refresh"}, expired \in BOOLEAN :
            Goto(q, IF /\ ValidateRefreshToken(audience, expired)
                       /\ GetByEmail(Email(b)) # {}
                    THEN "refreshed" ELSE "rejected")
       \/ Goto(q, "internal")
    /\ UNCHANGED <<users, drivers, attempts>>

\* lockDur has passed since the last failure.
Age(s, a) ==
    /\ attempts[s][a].fails >= MaxFails
    /\ ~attempts[s][a].aged
    /\ attempts' = [attempts EXCEPT ![s][a].aged = TRUE]
    /\ UNCHANGED <<users, drivers, pc, server, req>>

\* The ticker drops the locks that are over.
Cleanup(s) ==
    /\ \E a \in Address : attempts[s][a].aged
    /\ attempts' = [attempts EXCEPT ![s] =
                      [a \in Address |-> IF @[a].aged THEN NoAttempts ELSE @[a]]]
    /\ UNCHANGED <<users, drivers, pc, server, req>>

-----------------------------------------------------------------------------

\* Fault: the error of the commit is dropped.
StepFailsUnnoticed(q) ==
    /\ pc[q] \in {"free", "inserted", "ready", "admitted"}
    /\ Goto(q, IF pc[q] = "ready" THEN "registered" ELSE "internal")
    /\ UNCHANGED <<users, drivers, attempts, server, req>>

\* An access to the database fails, or the deadline of 5 seconds passes; an
\* open transaction is rolled back.
StepFails(q) ==
    /\ pc[q] \in {"free", "inserted", "ready", "admitted"}
    /\ Goto(q, "internal")
    /\ UNCHANGED <<users, drivers, attempts, server, req>>

\* The process dies with its calls and its tracker, and starts again.
Restart(s) ==
    /\ s \notin Stable
    /\ attempts' = [attempts EXCEPT ![s] = [a \in Address |-> NoAttempts]]
    /\ pc' = [q \in Calls |-> IF InFlight(q) /\ server[q] = s THEN "dead" ELSE pc[q]]
    /\ UNCHANGED <<users, drivers, server, req>>

CallStep(q) ==
    \/ CreateUser(q)
    \/ CreateDriver(q)
    \/ Commit(q)
    \/ ComparePassword(q)
    \/ RecordFailure(q)
    \/ RecordSuccess(q)
    \/ StepFails(q)

\* A login names neither a role nor a vehicle.
Credentials == {r \in Request : r.role = "rider" /\ ~r.vehicle}

Next ==
    \/ \E q \in Calls : CallStep(q)
    \/ \E q \in Calls, s \in Servers, r \in Request : Register(q, s, r)
    \/ \E q \in Calls, s \in Servers, r \in Credentials : Login(q, s, r)
    \/ \E q, b \in Calls, s \in Servers : RefreshToken(q, s, b)
    \/ \E s \in Servers, a \in Address : Age(s, a)
    \/ \E s \in Servers : Cleanup(s) \/ Restart(s)

Spec == Init /\ [][Next]_vars

-----------------------------------------------------------------------------
(* Properties *)

Types ==
    /\ users \subseteq Calls
    /\ drivers \subseteq Calls
    /\ attempts \in [Servers -> [Address -> [fails : Nat, aged : BOOLEAN]]]
    /\ pc \in [Calls -> Stage]
    /\ server \in [Calls -> Servers \cup {NoServer}]
    /\ req \in [Calls -> Request \cup {NoRequest}]

CountsNormalised ==
    \A s \in Servers, a \in Address : attempts[s][a].fails > 0 => a[2] = "lower"

\* Types, and the trackers count for normalised emails only.
TypeOK == Types /\ CountsNormalised

\* No two accounts have emails that differ in their spelling only, although
\* the look-up and the INSERT of a registration are two statements.
OneAccountPerEmail ==
    \A p, q \in users : p # q => req[p].email[1] # req[q].email[1]

\* Whatever fails, and wherever the process dies: a driver has a row in
\* drivers, and nobody else has.
DriverRowsMatchRoles ==
    \A q \in Calls : q \in drivers <=> q \in users /\ req[q].role = "driver"

\* A client that is told so has the account it asked for; a conflict
\* means that somebody has the email; who is turned away has no account; tokens
\* are issued only against the password of the account named, and refreshed
\* only for an account that somebody once registered for or logged in to.
AnswersTruthful ==
    \A q \in Calls :
        /\ pc[q] = "registered" => q \in users
        /\ pc[q] = "conflict" => GetByEmail(Email(q)) # {}
        /\ pc[q] \in {"conflict", "bad_request"} => q \notin users
        /\ pc[q] = "authenticated" =>
               \E p \in GetByEmail(Email(q)) : req[p].password = req[q].password
        /\ pc[q] = "refreshed" =>
               \E b \in Calls : /\ pc[b] \in {"registered", "authenticated"}
                               /\ Email(b) = Email(q)

Unauthorized(s, a) ==
    {q \in Calls : pc[q] = "unauthorized" /\ server[q] = s /\ Email(q) = a}

\* Nobody is locked out for failures of others: the counter of an email never
\* exceeds the logins that were refused for it by the same process.
LockedForCause ==
    \A s \in Servers, a \in Address :
        attempts[s][a].fails <= Cardinality(Unauthorized(s, a))

\* In a process that does not restart, failures are forgotten only when the
\* lock they led to is over or when a login for the same email has the right
\* password; such a login may have been let in before the lock.
FailuresRemembered ==
    [][\A s \in Stable, a \in Address :
         attempts'[s][a].fails < attempts[s][a].fails =>
             \/ attempts[s][a].aged
             \/ \E q \in Calls : /\ pc[q] = "right" /\ pc'[q] # "right"
                                 /\ server[q] = s /\ Email(q) = a]_vars

\* Registrations in several statements, logins in several critical sections and
\* refreshed tokens together are a Registry: an account is opened at once and for
\* good, and tokens go back to its password.
accountsOf ==
    {[call |-> q, email |-> req[q].email[1], password |-> req[q].password,
      role |-> IF q \in drivers THEN "driver" ELSE "rider"] : q \in users}

issuedTo ==
    {[call |-> q, email |-> req[q].email[1], password |-> req[q].password] :
        q \in {p \in Calls : Issued(p)}}

Registrar == INSTANCE Registry WITH Roles <- Role, accounts <- accountsOf, issued <- issuedTo

ImplementsRegistry == Registrar!Spec

-----------------------------------------------------------------------------
(* What a script of the repository says and the code does not do *)

\* scripts/e2e_demo.sh registers a driver with a vehicle type and a license
\* plate: such a request is not refused for lack of them.
VehicleIsSeen == \A q \in Calls : pc[q] = "bad_request" => ~req[q].vehicle

=============================================================================
