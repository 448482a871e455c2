------------------------------ MODULE Payment ------------------------------
(***************************************************************************)
(* The payment service, internal/payment/payment.go: ChargeRide reads the  *)
(* table payments, asks the payment gateway for an intent, captures it and *)
(* records the payment, four accesses with nothing that spans them.        *)
(*                                                                         *)
(* pc[c] is where call c of ChargeRide stands:                             *)
(*                                                                         *)
(*   idle      not made yet                                                *)
(*   unpaid    no completed payment was found; next: CreatePaymentIntent   *)
(*   intended  the intent exists; next: CapturePayment                     *)
(*   captured  the money is taken; next: the INSERT into payments          *)
(*   done      answered with a payment                                     *)
(*   failed    answered with an error                                      *)
(*   dead      the process serving the call crashed                        *)
(*                                                                         *)
(* A call makes at most one intent, so a transaction is named by its call. *)
(* The service only ever writes the status "completed" (UpdateStatus and   *)
(* Refund have no caller), so a row of payments is a ride and a            *)
(* transaction.  The amount comes from the client and is never compared;   *)
(* it is left out.                                                         *)
(*                                                                         *)
(* Definitions marked Fault are variants with a plausible bug, kept to     *)
(* show that the properties notice it.                                     *)
(***************************************************************************)

CONSTANTS
    Charges,       \* calls of ChargeRide
    Rides,         \* ride ids a client may send
    NoRide,        \* the ride of a call not made yet
    NoPayment,     \* the answer of a call that has not answered with a payment
    Calm           \* rides charged by one call at a time, whose payments can
                   \* always be read

ASSUME ConstantsAssumption ==
    /\ NoRide \notin Rides
    /\ NoPayment \notin [ride : Rides, txn : Charges]
    /\ Calm \subseteq Rides

VARIABLES
    pc,
    rideOf,    \* the ride each call is for
    captured,  \* the transactions the gateway has captured
    payments,  \* the table payments
    answer,    \* the payment each call answered with
    rideRows   \* the ids in the table rides, which payments.ride_id references

ownVars == <<pc, rideOf, captured, payments, answer>>
vars == <<pc, rideOf, captured, payments, answer, rideRows>>

PaymentRow == [ride : Rides, txn : Charges]

Stage == {"idle", "unpaid", "intended", "captured", "done", "failed", "dead"}

InFlight(c) == pc[c] \in {"unpaid", "intended", "captured"}

OwnInit ==
    /\ pc = [c \in Charges |-> "idle"]
    /\ rideOf = [c \in Charges |-> NoRide]
    /\ captured = {}
    /\ payments = {}
    /\ answer = [c \in Charges |-> NoPayment]

Init == OwnInit /\ rideRows = {}

Goto(c, stage) == pc' = [pc EXCEPT ![c] = stage]

GetByRideID(r) == {p \in payments : p.ride = r}

Calls(c, r) ==
    /\ pc[c] = "idle"
    /\ r \in Calm => \A b \in Charges : InFlight(b) => rideOf[b] # r
    /\ rideOf' = [rideOf EXCEPT ![c] = r]

\* Fault: the existing payment is not looked for.
ReturnExistingNever(c, r) ==
    /\ Calls(c, r)
    /\ Goto(c, "unpaid")
    /\ UNCHANGED <<captured, payments, answer, rideRows>>

\* The call finds a payment and answers with it: any one, when there are
\* several, as the SELECT has no ORDER BY.
ReturnExisting(c, r) ==
    /\ Calls(c, r)
    /\ \E p \in GetByRideID(r) : answer' = [answer EXCEPT ![c] = p]
    /\ Goto(c, "done")
    /\ UNCHANGED <<captured, payments, rideRows>>

\* The call finds none, or the read fails, which the code ignores.
FindUnpaid(c, r) ==
    /\ Calls(c, r)
    /\ r \in Calm => GetByRideID(r) = {}
    /\ Goto(c, "unpaid")
    /\ UNCHANGED <<captured, payments, answer, rideRows>>

CreatePaymentIntent(c) ==
    /\ pc[c] = "unpaid"
    /\ Goto(c, "intended")
    /\ UNCHANGED <<rideOf, captured, payments, answer, rideRows>>

\* Fault: the capture is asked for by ride instead of by transaction.
CaptureByRide(c) ==
    /\ pc[c] = "intended"
    /\ captured' = captured \cup {rideOf[c]}
    /\ Goto(c, "captured")
    /\ UNCHANGED <<rideOf, payments, answer, rideRows>>

CapturePayment(c) ==
    /\ pc[c] = "intended"
    /\ captured' = captured \cup {c}
    /\ Goto(c, "captured")
    /\ UNCHANGED <<rideOf, payments, answer, rideRows>>

\* Fault: the payment is recorded, and answered, before the capture.
RecordFirst(c) ==
    /\ pc[c] \in {"intended", "captured"}
    /\ payments' = payments \cup {[ride |-> rideOf[c], txn |-> c]}
    /\ answer' = [answer EXCEPT ![c] = [ride |-> rideOf[c], txn |-> c]]
    /\ Goto(c, "done")
    /\ UNCHANGED <<rideOf, captured, rideRows>>

\* The INSERT, which needs the row of the ride.  The answer of the database
\* may be lost: the call fails, the row stays.
Record(c) ==
    /\ pc[c] = "captured"
    /\ rideOf[c] \in rideRows
    /\ payments' = payments \cup {[ride |-> rideOf[c], txn |-> c]}
    /\ \/ /\ answer' = [answer EXCEPT ![c] = [ride |-> rideOf[c], txn |-> c]]
          /\ Goto(c, "done")
       \/ /\ UNCHANGED answer
          /\ Goto(c, "failed")
    /\ UNCHANGED <<rideOf, captured, rideRows>>

\* A step without effect: the gateway declines, the INSERT fails or violates
\* the foreign key.  What was captured stays captured.
StepFails(c) ==
    /\ InFlight(c)
    /\ Goto(c, "failed")
    /\ UNCHANGED <<rideOf, captured, payments, answer, rideRows>>

Crash(c) ==
    /\ InFlight(c)
    /\ Goto(c, "dead")
    /\ UNCHANGED <<rideOf, captured, payments, answer, rideRows>>

\* The ride service inserts a ride.
CreateRide(r) ==
    /\ r \notin rideRows
    /\ rideRows' = rideRows \cup {r}
    /\ UNCHANGED ownVars

CallStep(c) ==
    \/ CreatePaymentIntent(c)
    \/ CapturePayment(c)
    \/ Record(c)
    \/ StepFails(c)

ChargeRide(c) ==
    \/ \E r \in Rides : ReturnExisting(c, r) \/ FindUnpaid(c, r)
    \/ CallStep(c)
    \/ Crash(c)

Next ==
    \/ \E c \in Charges : ChargeRide(c)
    \/ \E r \in Rides : CreateRide(r)

Spec == Init /\ [][Next]_vars

-----------------------------------------------------------------------------
(* Properties *)

TypeOK ==
    /\ pc \in [Charges -> Stage]
    /\ rideOf \in [Charges -> Rides \cup {NoRide}]
    /\ captured \subseteq Charges
    /\ payments \subseteq PaymentRow
    /\ answer \in [Charges -> PaymentRow \cup {NoPayment}]
    /\ rideRows \subseteq Rides

\* The books are right: a recorded payment is of a ride that exists, its money
\* was taken by a call for that ride, and who is answered with a payment is
\* answered with a recorded payment of the ride asked for.
BooksTruthful ==
    /\ \A p \in payments :
         p.ride \in rideRows /\ p.txn \in captured /\ rideOf[p.txn] = p.ride
    /\ \A c \in Charges :
         answer[c] # NoPayment => answer[c] \in payments /\ answer[c].ride = rideOf[c]

\* A ride has at most one payment (the check at the start of ChargeRide; the
\* table has no unique constraint) when the calls for it do not overlap and no
\* read fails, however many of them fail or die on the way, and whatever
\* happens to other rides.
OneRecordPerRide ==
    \A p1, p2 \in payments : p1.ride = p2.ride /\ p1.ride \in Calm => p1 = p2

\* If money was taken twice for such a ride, one of the two calls ended in an
\* error or died and its capture was never recorded: no two calls that both
\* succeed charge twice.
SecondCaptureOnlyAfterFailure ==
    \A b, c \in captured :
        b # c /\ rideOf[b] = rideOf[c] /\ rideOf[c] \in Calm =>
            \E x \in {b, c} :
                /\ pc[x] \in {"failed", "dead"}
                /\ [ride |-> rideOf[x], txn |-> x] \notin payments

\* Whatever overlaps, fails or dies, the service keeps the books of Ledger: no
\* money is taken for a calm ride that is paid, no entry is lost or made twice,
\* and no receipt is given without one.
takenFor == {[ride |-> rideOf[c], txn |-> c] : c \in captured}

receiptsOf ==
    {[charge |-> c, payment |-> answer[c]] : c \in {b \in Charges : answer[b] # NoPayment}}

Cash == INSTANCE Ledger WITH taken <- takenFor, booked <- payments, receipts <- receiptsOf

ImplementsLedger == Cash!Spec

-----------------------------------------------------------------------------
(* What the documentation says and the code does not do *)

\* README.md and docs/openapi.yaml: "Idempotent", charging an already-charged
\* ride returns the existing payment.
ChargedOnce == \A b, c \in captured : b # c => rideOf[b] # rideOf[c]

=============================================================================
