------------------------------ MODULE Checkout ------------------------------
(***************************************************************************)
(* Charging through the gateway: Gateway and Payment put together.  What a *)
(* client is told and what happens to its money are decided in different   *)
(* processes: a call may go on, and even start, when the gateway has long  *)
(* answered with an error, the client is gone or the gateway is down.      *)
(*                                                                         *)
(* A request to charge and the call of ChargeRide that comes of it have    *)
(* the same name.                                                          *)
(***************************************************************************)
EXTENDS Payment, Gateway

ASSUME CheckoutAssumption ==
    /\ Charges \subseteq Requests
    /\ PaymentRoutes \subseteq Offered

VARIABLE asked  \* the ride each request about payments is for

checkoutVars == <<vars, gatewayVars, asked>>

CheckoutInit ==
    /\ Init
    /\ GatewayInit
    /\ asked = [q \in Requests |-> NoRide]

-----------------------------------------------------------------------------

RequestPayment(q, route, r) ==
    /\ Request(q, route)
    /\ asked' = [asked EXCEPT ![q] = r]
    /\ UNCHANGED vars

\* The service may still take up a call whose caller has failed or gone.
OnTheWire(c) ==
    \/ at[c] = "ChargeRide"
    \/ at[c] = "over" /\ status[c] \in {NoAnswer, 500} /\ asked[c] # NoRide

TakeUp(c) ==
    /\ OnTheWire(c)
    /\ ReturnExisting(c, asked[c]) \/ FindUnpaid(c, asked[c])
    /\ UNCHANGED <<gatewayVars, asked>>

PaymentStep ==
    /\ \/ \E c \in Charges : CallStep(c) \/ Crash(c)
       \/ \E r \in Rides : CreateRide(r)
    /\ UNCHANGED <<gatewayVars, asked>>

\* Fault: the handler forgets to look at the error.
ReplyAnyway(c) ==
    /\ at[c] = "ChargeRide"
    /\ pc[c] \in {"done", "failed"}
    /\ Respond(c, ChargeRoute.ok)
    /\ UNCHANGED <<vars, phase, limiter, asked>>

\* The reply of ChargeRide arrives, or an error: the service cannot be reached,
\* refuses the id, or has failed.
ReplyCharge(c) ==
    /\ at[c] = "ChargeRide"
    /\ \/ pc[c] = "done" /\ Respond(c, ChargeRoute.ok)
       \/ Respond(c, 500)
    /\ UNCHANGED <<vars, phase, limiter, asked>>

\* The service reads the table; there may be no payment (an error like any).
ReplyLookup(q) ==
    /\ at[q] = "GetPayment"
    /\ \/ GetByRideID(asked[q]) # {} /\ Respond(q, LookupRoute.ok)
       \/ Respond(q, 500)
    /\ UNCHANGED <<vars, phase, limiter, asked>>

CheckoutNext ==
    \/ /\ \/ ProcessStep
          \/ \E q \in Requests : HangUp(q)
          \/ \E q \in Requests \ Charges :
               \/ HealthCheck(q)
               \/ \E route \in Offered \ PaymentRoutes :
                    Request(q, route) \/ Reply(q, route)
       /\ UNCHANGED <<vars, asked>>
    \/ \E r \in Rides :
         \/ \E c \in Charges : RequestPayment(c, ChargeRoute, r)
         \/ \E q \in Requests \ Charges : RequestPayment(q, LookupRoute, r)
    \/ \E c \in Charges : TakeUp(c) \/ ReplyCharge(c)
    \/ \E q \in Requests \ Charges : ReplyLookup(q)
    \/ PaymentStep

CheckoutSpec == CheckoutInit /\ [][CheckoutNext]_checkoutVars

-----------------------------------------------------------------------------
(* Properties *)

CheckoutTypeOK ==
    /\ TypeOK
    /\ GatewayTypeOK
    /\ asked \in [Requests -> Rides \cup {NoRide}]

Refusals == {204, 400, 401, 403, 429}

\* What the client is told of its money is so: a success means that a payment
\* of the ride is recorded and its money taken; a refusal means that this
\* request takes nothing, then or later; and nobody's money is taken for
\* another ride than the one asked for.  Of an error, or no answer, nothing
\* follows.
AnswersTrue ==
    \A c \in Charges :
        /\ status[c] = ChargeRoute.ok =>
             \E p \in payments : p.ride = asked[c] /\ p.txn \in captured
        /\ status[c] \in Refusals => c \notin captured /\ ~InFlight(c)
        /\ c \in captured => rideOf[c] = asked[c]

=============================================================================
