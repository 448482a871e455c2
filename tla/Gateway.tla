------------------------------ MODULE Gateway ------------------------------
(***************************************************************************)
(* One process of the gateway, cmd/gateway/main.go: how it starts and      *)
(* stops, and what a request passes on its way to a service.               *)
(*                                                                         *)
(* A request meets one thing that requests share, the window of its user   *)
(* (security.UserRateLimiter, behind a mutex); all before and after it,    *)
(* up to the RPC, is its own, so a request comes in with one action.  The  *)
(* token bucket in front of everything is shared with all other traffic    *)
(* and may be empty at any time.  Tokens are valid or not.                 *)
(*                                                                         *)
(* at[q] is "idle" before the request, the name of the RPC while its       *)
(* handler waits for it, and "over" from the answer on, or from when there *)
(* is nobody to answer (status NoAnswer).  No handler gives its RPC a      *)
(* deadline: it waits for the service, the client or the end.              *)
(*                                                                         *)
(* Time is counted in ticks; a window is over when more than Window ticks  *)
(* have passed since it was opened.                                        *)
(*                                                                         *)
(* Definitions marked Fault are variants with a plausible bug, kept to     *)
(* show that the properties notice it.                                     *)
(***************************************************************************)
EXTENDS Api, FiniteSets

CONSTANTS
    Requests,
    Users,     \* who the tokens are of
    NoUser,
    Offered,   \* the routes requests take
    MaxReqs,   \* requests of a user in one window
    Window     \* the length of a window

ASSUME GatewayAssumption ==
    /\ IsFiniteSet(Requests)
    /\ NoUser \notin Users
    /\ Offered \subseteq Routes
    /\ MaxReqs \in Nat /\ Window \in Nat

VARIABLES
    phase,    \* of the process
    windows,  \* the requests counted for each user and the age of the count
    at,
    status,   \* what each request was answered
    user,     \* the user whose window let the request pass
    age       \* how long ago that was (for the properties)

limiter == <<windows, user, age>>
handling == <<at, status>>
gatewayVars == <<phase, limiter, handling>>

Phase == {"down", "database", "redis", "serving", "draining"}

Waiting(q) == at[q] \notin {"idle", "over"}

NoAnswer == 0

\* The age of what is over, and of what has never been.
Expired == Window + 1

\* There is no window, or one that is over: the limiter treats them alike.
NoWindow == [count |-> 0, elapsed |-> Expired]

FreshLimiter ==
    /\ windows' = [u \in Users |-> NoWindow]
    /\ age' = [q \in Requests |-> Expired]
    /\ UNCHANGED user

GatewayInit ==
    /\ phase = "down"
    /\ windows = [u \in Users |-> NoWindow]
    /\ at = [q \in Requests |-> "idle"]
    /\ status = [q \in Requests |-> NoAnswer]
    /\ user = [q \in Requests |-> NoUser]
    /\ age = [q \in Requests |-> Expired]

-----------------------------------------------------------------------------
(* Starting and stopping *)

Boot ==
    /\ phase = "down"
    /\ phase' = "database"
    /\ UNCHANGED <<limiter, handling>>

\* The pings of NewPool and NewClient succeed, one after the other.  The
\* limiters are made last.
ConnectDatabase ==
    /\ phase = "database"
    /\ phase' = "redis"
    /\ UNCHANGED <<limiter, handling>>

ConnectRedis ==
    /\ phase = "redis"
    /\ phase' = "serving"
    /\ FreshLimiter
    /\ UNCHANGED handling

\* Thirty pings have failed.
GiveUp ==
    /\ phase \in {"database", "redis"}
    /\ phase' = "down"
    /\ UNCHANGED <<limiter, handling>>

\* A signal: no new requests, those that wait have ten seconds.
Shutdown ==
    /\ phase = "serving"
    /\ phase' = "draining"
    /\ UNCHANGED <<limiter, handling>>

\* All are answered, or the ten seconds are over; or the process is killed.
Exit ==
    /\ phase \in {"serving", "draining"}
    /\ phase' = "down"
    /\ at' = [q \in Requests |-> IF Waiting(q) THEN "over" ELSE at[q]]
    /\ UNCHANGED <<limiter, status>>

-----------------------------------------------------------------------------
(* The limiter *)

\* Fault: the ticker forgets every window.
ForgetAll ==
    /\ windows' = [u \in Users |-> NoWindow]
    /\ UNCHANGED <<phase, user, age, handling>>

\* The ticker forgets the windows that are over.
Cleanup ==
    /\ windows' = [u \in Users |-> IF windows[u].elapsed = Expired
                                   THEN NoWindow ELSE windows[u]]
    /\ UNCHANGED <<phase, user, age, handling>>

Older(n) == IF n = Expired THEN n ELSE n + 1

Tick ==
    /\ windows' = [u \in Users |-> [windows[u] EXCEPT !.elapsed = Older(@)]]
    /\ age' = [q \in Requests |-> Older(age[q])]
    /\ UNCHANGED <<phase, user, handling>>

\* Fault: the count of a window that is over goes on in the next.
CountedOn(u) ==
    [windows[u] EXCEPT !.count = @ + 1,
                       !.elapsed = IF @ = Expired THEN 0 ELSE @]

\* The window of u with one more request in it.
Counted(u) ==
    IF windows[u].elapsed = Expired
    THEN [count |-> 1, elapsed |-> 0]
    ELSE [windows[u] EXCEPT !.count = @ + 1]

\* Middleware of UserRateLimiter: every request is counted, those above the
\* limit are refused.
Allow(q, u) ==
    /\ Counted(u).count <= MaxReqs
    /\ windows' = [windows EXCEPT ![u] = Counted(u)]
    /\ user' = [user EXCEPT ![q] = u]
    /\ age' = [age EXCEPT ![q] = 0]

Deny(u) ==
    /\ Counted(u).count > MaxReqs
    /\ windows' = [windows EXCEPT ![u] = Counted(u)]
    /\ UNCHANGED <<user, age>>

-----------------------------------------------------------------------------
(* Requests *)

Comes(q) == phase = "serving" /\ at[q] = "idle" /\ UNCHANGED phase

Respond(q, s) ==
    /\ at' = [at EXCEPT ![q] = "over"]
    /\ status' = [status EXCEPT ![q] = s]

\* The middleware answers: a preflight (204), an empty bucket (429), no valid
\* token (401).
TurnAway(q, route) ==
    /\ Comes(q)
    /\ \E s \in {204, 429} \cup (IF route \in AuthRoutes THEN {} ELSE {401}) :
         Respond(q, s)
    /\ UNCHANGED limiter

\* The handler refuses the request or calls the service.
Handle(q, route) ==
    \/ \E s \in route.refusals : Respond(q, s)
    \/ at' = [at EXCEPT ![q] = route.rpc] /\ UNCHANGED status

PublicRequest(q, route) ==
    /\ Comes(q)
    /\ route \in AuthRoutes
    /\ Handle(q, route)
    /\ UNCHANGED limiter

UserRequest(q, route, u) ==
    /\ Comes(q)
    /\ route \in ProtectedRoutes
    /\ \/ Allow(q, u) /\ Handle(q, route)
       \/ Deny(u) /\ Respond(q, 429)

Request(q, route) ==
    \/ TurnAway(q, route)
    \/ PublicRequest(q, route)
    \/ \E u \in Users : UserRequest(q, route, u)

\* GET /health, which Kubernetes probes, pings both stores; it is behind the
\* bucket like everything else.
HealthCheck(q) ==
    /\ Comes(q)
    /\ \E s \in {200, 503, 429} : Respond(q, s)
    /\ UNCHANGED limiter

\* The RPC has ended, well or not.
Reply(q, route) ==
    /\ at[q] = route.rpc
    /\ \E s \in Replies(route) : Respond(q, s)
    /\ UNCHANGED <<phase, limiter>>

\* The client hangs up; its handler ends, the service may go on.
HangUp(q) ==
    /\ Waiting(q)
    /\ at' = [at EXCEPT ![q] = "over"]
    /\ UNCHANGED <<phase, limiter, status>>

-----------------------------------------------------------------------------

\* What the process does without a request.
ProcessStep ==
    \/ Boot
    \/ ConnectDatabase
    \/ ConnectRedis
    \/ GiveUp
    \/ Shutdown
    \/ Exit
    \/ Cleanup
    \/ Tick

GatewayNext ==
    \/ ProcessStep
    \/ \E q \in Requests :
         \/ \E route \in Offered : Request(q, route) \/ Reply(q, route)
         \/ HealthCheck(q)
         \/ HangUp(q)

GatewaySpec == GatewayInit /\ [][GatewayNext]_gatewayVars

-----------------------------------------------------------------------------
(* Properties *)

GatewayTypeOK ==
    /\ phase \in Phase
    /\ windows \in [Users -> [count : Nat, elapsed : 0..Expired]]
    /\ at \in [Requests -> {"idle", "over"} \cup {route.rpc : route \in Offered}]
    /\ status \in [Requests -> Nat]
    /\ user \in [Requests -> Users \cup {NoUser}]
    /\ age \in [Requests -> 0..Expired]

\* The requests of u that were let pass in the last Window ticks.
Recent(u) == {q \in Requests : user[q] = u /\ age[q] <= Window}

\* The window does not slide, as its comment says it does: the last requests
\* of one window and the first of the next may all come at once.  Still no
\* stretch of time as long as a window has more than twice the limit, at
\* whatever moments windows are opened, forgotten and counted in.  This is of
\* one process; another gateway counts for itself.
BurstBounded == \A u \in Users : Cardinality(Recent(u)) <= 2 * MaxReqs

\* Whom the limiter would refuse now has had all he may have: MaxReqs of his
\* requests were let pass in the last Window ticks.  Refused requests are counted
\* too, and the window is opened by the first request and not by the clock, but
\* neither costs anybody a request.
RefusedForCause ==
    \A u \in Users :
        Counted(u).count > MaxReqs => Cardinality(Recent(u)) >= MaxReqs

=============================================================================
