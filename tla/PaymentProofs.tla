--------------------------- MODULE PaymentProofs ---------------------------
(***************************************************************************)
(* Proofs about Payment for every set of calls and of rides.               *)
(***************************************************************************)
EXTENDS Payment, TLAPS

RowOf(c) == [ride |-> rideOf[c], txn |-> c]

-----------------------------------------------------------------------------
(* Types and books *)

LEMMA TypeStep == TypeOK /\ [Next]_vars => TypeOK'
<1> SUFFICES ASSUME TypeOK, [Next]_vars PROVE TypeOK'
  OBVIOUS
<1> USE DEF TypeOK, PaymentRow, Stage, Goto
<1>1. ASSUME NEW c \in Charges, NEW r \in Rides, ReturnExisting(c, r)
      PROVE  TypeOK'
  BY <1>1 DEF ReturnExisting, Calls, GetByRideID
<1>2. ASSUME NEW c \in Charges, NEW r \in Rides, FindUnpaid(c, r)
      PROVE  TypeOK'
  BY <1>2 DEF FindUnpaid, Calls
<1>3. ASSUME NEW c \in Charges, CreatePaymentIntent(c) \/ CapturePayment(c)
      PROVE  TypeOK'
  BY <1>3 DEF CreatePaymentIntent, CapturePayment
<1>4. ASSUME NEW c \in Charges, Record(c)
      PROVE  TypeOK'
  BY <1>4 DEF Record
<1>5. ASSUME NEW c \in Charges, StepFails(c) \/ Crash(c)
      PROVE  TypeOK'
  BY <1>5 DEF StepFails, Crash
<1>6. ASSUME NEW r \in Rides, CreateRide(r)
      PROVE  TypeOK'
  BY <1>6 DEF CreateRide, ownVars
<1>7. CASE UNCHANGED vars
  BY <1>7 DEF vars
<1>8. QED
  BY <1>1, <1>2, <1>3, <1>4, <1>5, <1>6, <1>7 DEF Next, ChargeRide, CallStep

\* What a call owns: it is for a ride, it has a capture only from "captured" on,
\* a row only with its capture and once it has left "captured", and a row for
\* certain when it answered after a capture.
CallBooks ==
    \A c \in Charges :
        /\ pc[c] # "idle" => rideOf[c] \in Rides
        /\ c \in captured => pc[c] \in {"captured", "done", "failed", "dead"}
        /\ pc[c] = "captured" => c \in captured
        /\ c \in captured /\ pc[c] = "done" => RowOf(c) \in payments

RowBooks ==
    \A p \in payments :
        /\ p = RowOf(p.txn)
        /\ p.ride \in rideRows
        /\ p.txn \in captured
        /\ pc[p.txn] \in {"done", "failed"}

Answers ==
    \A c \in Charges :
        /\ pc[c] # "done" => answer[c] = NoPayment
        /\ answer[c] # NoPayment => answer[c] \in payments /\ answer[c].ride = rideOf[c]

Books == CallBooks /\ RowBooks /\ Answers

LEMMA BooksStep == TypeOK /\ Books /\ [Next]_vars => Books'
<1> SUFFICES ASSUME TypeOK, Books, [Next]_vars PROVE Books'
  OBVIOUS
<1> USE ConstantsAssumption
    DEF TypeOK, PaymentRow, Stage, Goto, Books, CallBooks, RowBooks, Answers, RowOf
<1>1. ASSUME NEW c \in Charges, NEW r \in Rides, ReturnExisting(c, r)
      PROVE  Books'
  <2>1. PICK p \in payments : /\ p.ride = r /\ pc[c] = "idle"
                              /\ pc' = [pc EXCEPT ![c] = "done"]
                              /\ rideOf' = [rideOf EXCEPT ![c] = r]
                              /\ answer' = [answer EXCEPT ![c] = p]
                              /\ UNCHANGED <<captured, payments, rideRows>>
    BY <1>1 DEF ReturnExisting, Calls, GetByRideID
  <2>2. c \notin captured /\ RowOf(c) \notin payments
    BY <2>1
  <2>3. CallBooks'
    BY <2>1, <2>2
  <2>4. RowBooks'
    BY <2>1, <2>2
  <2>5. Answers'
    BY <2>1, <2>2
  <2>6. QED
    BY <2>3, <2>4, <2>5
<1>2. ASSUME NEW c \in Charges, NEW r \in Rides, FindUnpaid(c, r)
      PROVE  Books'
  BY <1>2 DEF FindUnpaid, Calls
<1>3. ASSUME NEW c \in Charges, CreatePaymentIntent(c) \/ CapturePayment(c)
      PROVE  Books'
  BY <1>3 DEF CreatePaymentIntent, CapturePayment
<1>4. ASSUME NEW c \in Charges, Record(c)
      PROVE  Books'
  <2>1. CallBooks'
    BY <1>4 DEF Record
  <2>2. RowBooks'
    BY <1>4 DEF Record
  <2>3. Answers'
    BY <1>4 DEF Record
  <2>4. QED
    BY <2>1, <2>2, <2>3
<1>5. ASSUME NEW c \in Charges, StepFails(c) \/ Crash(c)
      PROVE  Books'
  BY <1>5 DEF StepFails, Crash, InFlight
<1>6. ASSUME NEW r \in Rides, CreateRide(r)
      PROVE  Books'
  BY <1>6 DEF CreateRide, ownVars
<1>7. CASE UNCHANGED vars
  BY <1>7 DEF vars
<1>8. QED
  BY <1>1, <1>2, <1>3, <1>4, <1>5, <1>6, <1>7 DEF Next, ChargeRide, CallStep

LEMMA Inductive == Spec => [](TypeOK /\ Books)
<1>1. Init => TypeOK /\ Books
  BY DEF Init, OwnInit, TypeOK, Stage, PaymentRow, Books, CallBooks, RowBooks, Answers
<1>2. TypeOK /\ Books /\ [Next]_vars => (TypeOK /\ Books)'
  BY TypeStep, BooksStep
<1>3. QED
  BY <1>1, <1>2, PTL DEF Spec

\* Every reachable state is well typed, and the books are right whatever
\* overlaps and whatever fails.
THEOREM BooksAlwaysTruthful == Spec => [](TypeOK /\ BooksTruthful)
<1>1. TypeOK /\ Books => BooksTruthful
  BY DEF TypeOK, PaymentRow, Books, RowBooks, Answers, RowOf, BooksTruthful
<1>2. QED
  BY <1>1, Inductive, PTL

-----------------------------------------------------------------------------
(* Charging a ride once *)

\* Calls in flight are for different calm rides, and no calm ride of a call in
\* flight has a payment.
Exclusive ==
    \A c \in Charges :
        InFlight(c) /\ rideOf[c] \in Calm =>
            /\ GetByRideID(rideOf[c]) = {}
            /\ \A b \in Charges : b # c /\ InFlight(b) => rideOf[b] # rideOf[c]

Once == Exclusive /\ OneRecordPerRide /\ SecondCaptureOnlyAfterFailure

LEMMA OnceStep == TypeOK /\ Books /\ Once /\ [Next]_vars => Once'
<1> SUFFICES ASSUME TypeOK, Books, Once, [Next]_vars PROVE Once'
  OBVIOUS
<1> USE DEF TypeOK, PaymentRow, Stage, Goto, Books, CallBooks, RowBooks, RowOf,
            Once, Exclusive, InFlight, GetByRideID, OneRecordPerRide,
            SecondCaptureOnlyAfterFailure
<1>1. ASSUME NEW c \in Charges, NEW r \in Rides, ReturnExisting(c, r)
      PROVE  Once'
  <2>1. c \notin captured /\ ~InFlight(c)'
    BY <1>1 DEF ReturnExisting, Calls
  <2>2. \A b \in Charges \ {c} : pc'[b] = pc[b] /\ rideOf'[b] = rideOf[b]
    BY <1>1 DEF ReturnExisting, Calls
  <2>3. UNCHANGED <<captured, payments>>
    BY <1>1 DEF ReturnExisting
  <2>4. QED
    BY <2>1, <2>2, <2>3
<1>2. ASSUME NEW c \in Charges, NEW r \in Rides, FindUnpaid(c, r)
      PROVE  Once'
  BY <1>2 DEF FindUnpaid, Calls
<1>3. ASSUME NEW c \in Charges, CreatePaymentIntent(c)
      PROVE  Once'
  BY <1>3 DEF CreatePaymentIntent
<1>4. ASSUME NEW c \in Charges, CapturePayment(c)
      PROVE  Once'
  <2>1. \A b \in captured :
          rideOf[b] = rideOf[c] /\ rideOf[c] \in Calm =>
              pc[b] \in {"failed", "dead"} /\ RowOf(b) \notin payments
    BY <1>4 DEF CapturePayment
  <2>2. Exclusive' /\ OneRecordPerRide'
    BY <1>4 DEF CapturePayment
  <2>3. SecondCaptureOnlyAfterFailure'
    BY <1>4, <2>1 DEF CapturePayment
  <2>4. QED
    BY <2>2, <2>3
<1>5. ASSUME NEW c \in Charges, Record(c)
      PROVE  Once'
  <2>1. Exclusive'
    BY <1>5 DEF Record
  <2>2. OneRecordPerRide'
    BY <1>5 DEF Record
  <2>3. SecondCaptureOnlyAfterFailure'
    BY <1>5 DEF Record
  <2>4. QED
    BY <2>1, <2>2, <2>3
<1>6. ASSUME NEW c \in Charges, StepFails(c) \/ Crash(c)
      PROVE  Once'
  BY <1>6 DEF StepFails, Crash
<1>7. ASSUME NEW r \in Rides, CreateRide(r)
      PROVE  Once'
  BY <1>7 DEF CreateRide, ownVars
<1>8. CASE UNCHANGED vars
  BY <1>8 DEF vars
<1>9. QED
  BY <1>1, <1>2, <1>3, <1>4, <1>5, <1>6, <1>7, <1>8 DEF Next, ChargeRide, CallStep

LEMMA OnceInductive == Spec => []Once
<1>1. Init => Once
  BY DEF Init, OwnInit, Once, Exclusive, InFlight, OneRecordPerRide,
         SecondCaptureOnlyAfterFailure
<1>2. TypeOK /\ Books /\ Once /\ [Next]_vars => Once'
  BY OnceStep
<1>3. QED
  BY <1>1, <1>2, Inductive, PTL DEF Spec

\* A ride whose charges do not overlap and whose payments can be read has at
\* most one payment.
THEOREM PaidOnce == Spec => []OneRecordPerRide
<1>1. Once => OneRecordPerRide
  BY DEF Once
<1>2. QED
  BY <1>1, OnceInductive, PTL

\* And its money is taken a second time only after a call that took it failed
\* before it could record it.
THEOREM CapturedAgainOnlyAfterFailure == Spec => []SecondCaptureOnlyAfterFailure
<1>1. Once => SecondCaptureOnlyAfterFailure
  BY DEF Once
<1>2. QED
  BY <1>1, OnceInductive, PTL

-----------------------------------------------------------------------------
(* The ledger *)

\* The answer to a call is a new receipt.
LEMMA AnswerIsReceipt ==
    ASSUME TypeOK, NEW c \in Charges, NEW p \in PaymentRow, answer[c] = NoPayment,
           answer' = [answer EXCEPT ![c] = p]
    PROVE  Cash!Receipt(c, p)
<1>1. \A x \in receiptsOf : x.charge # c
  BY DEF receiptsOf
<1>2. p # NoPayment
  BY ConstantsAssumption DEF PaymentRow
<1>3. \A b \in Charges \ {c} : answer'[b] = answer[b]
  BY DEF TypeOK
<1>4. answer'[c] = p
  BY DEF TypeOK
<1>5. receiptsOf' = receiptsOf \cup {[charge |-> c, payment |-> p]}
  BY <1>2, <1>3, <1>4 DEF receiptsOf
<1>6. QED
  BY <1>1, <1>5 DEF Cash!Receipt

\* Money stays taken for the ride it was taken for when a call without a
\* capture starts.
LEMMA TakenStays ==
    ASSUME TypeOK, NEW c \in Charges \ captured, NEW r, UNCHANGED captured,
           rideOf' = [rideOf EXCEPT ![c] = r]
    PROVE  UNCHANGED takenFor
<1>1. \A b \in captured : rideOf'[b] = rideOf[b]
  BY DEF TypeOK
<1>2. QED
  BY <1>1 DEF takenFor

\* A step of a charge is an entry of the ledger, or none.
LEMMA LedgerStep ==
    TypeOK /\ Books /\ Once /\ [Next]_vars => [Cash!Next]_(Cash!vars)
<1> SUFFICES ASSUME TypeOK, Books, Once, [Next]_vars
             PROVE  Cash!Next \/ UNCHANGED Cash!vars
  OBVIOUS
<1> USE DEF Books, CallBooks, Answers, InFlight
<1>1. ASSUME NEW c \in Charges, NEW r \in Rides, ReturnExisting(c, r)
      PROVE  Cash!Next
  <2>1. PICK p \in payments : answer' = [answer EXCEPT ![c] = p]
    BY <1>1 DEF ReturnExisting, GetByRideID
  <2>2. pc[c] = "idle" /\ UNCHANGED <<captured, payments>>
    BY <1>1 DEF ReturnExisting, Calls
  <2>3. UNCHANGED takenFor
    BY <1>1, <2>2, TakenStays DEF ReturnExisting, Calls
  <2>4. Cash!Receipt(c, p)
    BY <2>1, <2>2, AnswerIsReceipt DEF TypeOK
  <2>5. QED
    BY <2>2, <2>3, <2>4 DEF Cash!Next, Cash!Show
<1>2. ASSUME NEW c \in Charges, NEW r \in Rides, FindUnpaid(c, r)
      PROVE  UNCHANGED Cash!vars
  <2>1. UNCHANGED takenFor
    BY <1>2, TakenStays DEF FindUnpaid, Calls
  <2>2. QED
    BY <1>2, <2>1 DEF FindUnpaid, Cash!vars, receiptsOf
<1>3. ASSUME NEW c \in Charges, CapturePayment(c)
      PROVE  Cash!Next
  <2>1. rideOf[c] \in Rides /\ c \notin captured
    BY <1>3 DEF CapturePayment
  <2>2. Cash!Open(rideOf[c])
    BY <1>3 DEF CapturePayment, Cash!Open, Once, Exclusive, GetByRideID
  <2>3. takenFor' = takenFor \cup {[ride |-> rideOf[c], txn |-> c]}
    BY <1>3 DEF CapturePayment, takenFor
  <2>4. \A p \in takenFor : p.txn # c
    BY <2>1 DEF takenFor
  <2>5. UNCHANGED <<payments, receiptsOf>>
    BY <1>3 DEF CapturePayment, receiptsOf
  <2>6. QED
    BY <2>1, <2>2, <2>3, <2>4, <2>5 DEF Cash!Next, Cash!Take
<1>4. ASSUME NEW c \in Charges, Record(c)
      PROVE  Cash!Next
  <2> DEFINE p == [ride |-> rideOf[c], txn |-> c]
  <2>1. /\ pc[c] = "captured" /\ rideOf[c] \in Rides
        /\ payments' = payments \cup {p} /\ UNCHANGED <<rideOf, captured>>
        /\ answer' = [answer EXCEPT ![c] = p] \/ UNCHANGED answer
    BY <1>4 DEF Record
  <2>2. p \in PaymentRow /\ p \in takenFor /\ p.ride = rideOf[c] /\ p.txn = c
    BY <2>1 DEF PaymentRow, takenFor
  <2>3. p \notin payments
    BY <2>1, <2>2 DEF RowBooks
  <2>4. Cash!Open(p.ride)
    BY <2>1, <2>2 DEF Cash!Open, Once, Exclusive, GetByRideID
  <2> HIDE DEF p
  <2>5. Cash!Receipt(c, p) \/ UNCHANGED receiptsOf
    <3>1. CASE answer' = [answer EXCEPT ![c] = p]
      <4>1. answer[c] = NoPayment
        BY <2>1
      <4>2. QED
        BY <2>2, <3>1, <4>1, AnswerIsReceipt
    <3>2. CASE UNCHANGED answer
      BY <3>2 DEF receiptsOf
    <3>3. QED
      BY <2>1, <3>1, <3>2
  <2>6. UNCHANGED takenFor
    BY <2>1 DEF takenFor
  <2>7. QED
    BY <2>1, <2>2, <2>3, <2>4, <2>5, <2>6 DEF Cash!Next, Cash!Book
<1>5. CASE UNCHANGED <<rideOf, captured, payments, answer>>
  BY <1>5 DEF Cash!vars, takenFor, receiptsOf
<1>6. QED
  BY <1>1, <1>2, <1>3, <1>4, <1>5
     DEF Next, ChargeRide, CallStep, CreatePaymentIntent, StepFails, Crash, CreateRide,
         vars, ownVars

\* Whatever overlaps, fails or dies, the service keeps the books Ledger asks
\* for: no money for a calm ride that is paid, nothing entered twice, nothing
\* lost, no receipt without an entry.
THEOREM LedgerRefinement == Spec => ImplementsLedger
<1>1. Init => Cash!Init
  BY DEF Init, OwnInit, Cash!Init, takenFor, receiptsOf
<1>2. QED
  BY <1>1, LedgerStep, Inductive, OnceInductive, PTL DEF Spec, ImplementsLedger, Cash!Spec

=============================================================================
