--------------------------- MODULE AccountsProofs ---------------------------
(***************************************************************************)
(* Proofs about Accounts for every set of calls, emails, passwords and     *)
(* processes, and every limit of failures.                                 *)
(***************************************************************************)
EXTENDS Accounts, FiniteSetTheorems, TLAPS

-----------------------------------------------------------------------------
(* Types *)

Arrived == \A q \in Calls : pc[q] # "idle" => req[q] \in Request /\ server[q] \in Servers

Typed == Types /\ Arrived

LEMMA AddressOfRequest ==
  ASSUME NEW r \in Request
  PROVE  r.email \in Address /\ Lower(r.email) \in Address
BY DEF Request, Address, Lower

Entry == [fails : Nat, aged : BOOLEAN]

\* What the tracker does to its entries.
LEMMA EntryStep ==
  ASSUME attempts \in [Servers -> [Address -> Entry]],
         NEW s \in Servers, NEW a \in Address, NEW e \in Entry
  PROVE  [attempts EXCEPT ![s][a] = e] \in [Servers -> [Address -> Entry]]
<1>1. attempts[s] \in [Address -> Entry]
  OBVIOUS
<1>2. [attempts[s] EXCEPT ![a] = e] \in [Address -> Entry]
  BY <1>1
<1>3. QED
  BY <1>2

LEMMA TypeStep == Typed /\ [Next]_vars => Typed'
<1> SUFFICES ASSUME Typed, [Next]_vars PROVE Typed'
  OBVIOUS
<1> USE ConstantsAssumption DEF Typed, Types, Arrived, Goto
<1>1. ASSUME NEW q \in Calls, NEW s \in Servers, NEW r \in Request, Register(q, s, r)
      PROVE  Typed'
  BY <1>1 DEF Register, Arrive, Stage, Answer
<1>2. ASSUME NEW q \in Calls, NEW s \in Servers, NEW r \in Request, Login(q, s, r)
      PROVE  Typed'
  <2>1. Lower(r.email) \in Address
    BY AddressOfRequest
  <2>2. NoAttempts \in Entry
    BY DEF NoAttempts, Entry
  <2>3. attempts' \in [Servers -> [Address -> Entry]]
    <3>1. attempts \in [Servers -> [Address -> Entry]]
      BY DEF Entry
    <3>2. \/ attempts' = attempts
          \/ attempts' = [attempts EXCEPT ![s][Lower(r.email)] = NoAttempts]
      BY <1>2 DEF Login, Forget
    <3>3. [attempts EXCEPT ![s][Lower(r.email)] = NoAttempts] \in [Servers -> [Address -> Entry]]
      BY <2>1, <2>2, <3>1, EntryStep
    <3>4. QED
      BY <3>1, <3>2, <3>3
  <2>4. QED
    BY <1>2, <2>3 DEF Login, Arrive, Entry, Stage, Answer
<1>3. ASSUME NEW q \in Calls,
             CreateUser(q) \/ CreateDriver(q) \/ Commit(q) \/ ComparePassword(q) \/ StepFails(q)
      PROVE  Typed'
  BY <1>3 DEF CreateUser, CreateDriver, Commit, ComparePassword, StepFails, Stage, Answer
<1>4. ASSUME NEW q \in Calls, RecordFailure(q) \/ RecordSuccess(q)
      PROVE  Typed'
  <2>1. Email(q) \in Address /\ server[q] \in Servers
    BY <1>4, AddressOfRequest DEF Email, RecordFailure, RecordSuccess
  <2>2. attempts[server[q]][Email(q)].fails + 1 \in Nat
    BY <2>1
  <2>3. /\ NoAttempts \in Entry
        /\ [fails |-> attempts[server[q]][Email(q)].fails + 1, aged |-> FALSE] \in Entry
    BY <2>2 DEF NoAttempts, Entry
  <2>4. attempts' \in [Servers -> [Address -> Entry]]
    <3>1. attempts \in [Servers -> [Address -> Entry]]
      BY DEF Entry
    <3>2. PICK e \in Entry : attempts' = [attempts EXCEPT ![server[q]][Email(q)] = e]
      BY <1>4, <2>3 DEF RecordFailure, RecordSuccess, Forget
    <3>3. QED
      BY <2>1, <3>1, <3>2, EntryStep
  <2>5. QED
    BY <1>4, <2>4 DEF RecordFailure, RecordSuccess, Entry, Stage, Answer
<1>5. ASSUME NEW s \in Servers, NEW a \in Address, Age(s, a)
      PROVE  Typed'
  <2>1. attempts \in [Servers -> [Address -> Entry]]
    BY DEF Entry
  <2>2. PICK e \in Entry : attempts' = [attempts EXCEPT ![s][a] = e]
    <3>1. attempts[s][a] \in Entry
      BY <2>1
    <3>2. [attempts[s][a] EXCEPT !.aged = TRUE] \in Entry
      BY <3>1 DEF Entry
    <3>3. attempts' = [attempts EXCEPT ![s][a] = [attempts[s][a] EXCEPT !.aged = TRUE]]
      BY <1>5 DEF Age
    <3>4. QED
      BY <3>2, <3>3
  <2>3. attempts' \in [Servers -> [Address -> Entry]]
    BY <2>1, <2>2, EntryStep
  <2>4. QED
    BY <1>5, <2>3 DEF Age, Entry
<1>6. ASSUME NEW s \in Servers, Cleanup(s) \/ Restart(s)
      PROVE  Typed'
  <2>1. NoAttempts \in Entry
    BY DEF NoAttempts, Entry
  <2>2. attempts[s] \in [Address -> Entry]
    BY DEF Entry
  <2>3. [a \in Address |-> NoAttempts] \in [Address -> Entry]
    BY <2>1
  <2>4. [a \in Address |-> IF attempts[s][a].aged THEN NoAttempts ELSE attempts[s][a]]
          \in [Address -> Entry]
    BY <2>1, <2>2
  <2>5. attempts' \in [Servers -> [Address -> Entry]]
    BY <1>6, <2>3, <2>4 DEF Cleanup, Restart, Entry
  <2>6. QED
    BY <1>6, <2>5 DEF Cleanup, Restart, InFlight, Entry, Stage, Answer
<1>7. ASSUME NEW q \in Calls, NEW b \in Calls, NEW s \in Servers, RefreshToken(q, s, b)
      PROVE  Typed'
  BY <1>7 DEF RefreshToken, Issued, Arrive, Stage, Answer
<1>8. CASE UNCHANGED vars
  BY <1>8 DEF vars
<1>9. QED
  BY <1>1, <1>2, <1>3, <1>4, <1>5, <1>6, <1>7, <1>8 DEF Next, CallStep, Credentials

-----------------------------------------------------------------------------
(* The tables *)

\* In a transaction that holds an entry of the unique index.
Inserting(q) == pc[q] \in {"inserted", "ready"}

\* Committed rows belong to calls that are over; an email is held by one row
\* or by one transaction, and never by both.
EmailsHeldOnce ==
    /\ \A q \in users : pc[q] \in {"registered", "internal"}
    /\ \A p, q \in users : p # q => Email(p) # Email(q)
    /\ \A p, q \in Calls : p # q /\ Inserting(p) /\ Inserting(q) => Email(p) # Email(q)
    /\ \A q \in Calls : Inserting(q) => GetByEmail(Email(q)) = {}

Known(q) == \E p \in GetByEmail(Email(q)) : req[p].password = req[q].password

Granted(q) ==
    \E b \in Calls : pc[b] \in {"registered", "authenticated"} /\ Email(b) = Email(q)

Told ==
    \A q \in Calls :
        /\ pc[q] = "registered" => q \in users
        /\ pc[q] = "conflict" => GetByEmail(Email(q)) # {}
        /\ pc[q] \in {"right", "authenticated", "refreshed"} => Known(q)
        /\ pc[q] = "refreshed" => Granted(q)

Tables == EmailsHeldOnce /\ DriverRowsMatchRoles /\ Told

\* A step that commits nothing and leaves the requests of the calls that have
\* arrived alone keeps what the tables hold.
LEMMA SameRows ==
  ASSUME Typed, Tables, users' = users, drivers' = drivers,
         \A p \in Calls : pc[p] # "idle" => req'[p] = req[p],
         \A p \in users : pc'[p] = pc[p]
  PROVE  /\ DriverRowsMatchRoles'
         /\ \A p \in users : Email(p)' = Email(p)
         /\ \A a : GetByEmail(a)' = GetByEmail(a)
         /\ \A p \in Calls : pc[p] # "idle" => Email(p)' = Email(p) /\ Known(p)' = Known(p)
<1> USE DEF Typed, Types, Tables, EmailsHeldOnce, Email
<1>1. \A p \in users : p \in Calls /\ pc[p] # "idle"
  OBVIOUS
<1>2. \A p \in users : Email(p)' = Email(p) /\ req'[p] = req[p]
  BY <1>1
<1>3. \A a : GetByEmail(a)' = GetByEmail(a)
  BY <1>2 DEF GetByEmail
<1>4. \A p \in Calls : pc[p] # "idle" => Email(p)' = Email(p) /\ req'[p] = req[p]
  OBVIOUS
<1>5. \A p \in Calls : pc[p] # "idle" => Known(p)' = Known(p)
  BY <1>2, <1>3, <1>4 DEF Known, GetByEmail
<1>6. DriverRowsMatchRoles'
  BY <1>1, <1>2 DEF DriverRowsMatchRoles
<1>7. QED
  BY <1>2, <1>3, <1>4, <1>5, <1>6

LEMMA TablesStep == Typed /\ Tables /\ [Next]_vars => Tables'
<1> SUFFICES ASSUME Typed, Tables, [Next]_vars PROVE Tables'
  OBVIOUS
<1>1. ASSUME NEW q \in Calls, NEW s \in Servers, NEW r \in Request,
             Register(q, s, r) \/ Login(q, s, r)
      PROVE  Tables'
  <2>1. /\ users' = users /\ drivers' = drivers
        /\ pc[q] = "idle"
        /\ req'[q] = r
        /\ pc'[q] \in {"conflict", "bad_request", "free", "locked", "admitted"}
        /\ pc'[q] = "conflict" => GetByEmail(Lower(r.email)) # {}
        /\ \A p \in Calls \ {q} : pc'[p] = pc[p] /\ req'[p] = req[p]
    BY <1>1 DEF Register, Login, Arrive, Goto, Typed, Types
  <2>2. q \notin users
    BY <2>1 DEF Tables, EmailsHeldOnce
  <2> DEFINE Frame ==
        /\ DriverRowsMatchRoles'
        /\ \A p \in users : Email(p)' = Email(p)
        /\ \A a : GetByEmail(a)' = GetByEmail(a)
        /\ \A p \in Calls : pc[p] # "idle" => Email(p)' = Email(p) /\ Known(p)' = Known(p)
  <2>3. Frame
    BY <2>1, <2>2, SameRows DEF Typed, Types
  <2>4. \A p \in Calls : Inserting(p)' => pc[p] # "idle" /\ Inserting(p)
    BY <2>1 DEF Inserting
  <2>5. \A p \in users : p \in Calls /\ p # q
    BY <2>2 DEF Typed, Types
  <2>6. EmailsHeldOnce'
    <3>1. \A o, p \in Calls : o # p /\ Inserting(o)' /\ Inserting(p)' => Email(o)' # Email(p)'
      BY <2>3, <2>4 DEF Tables, EmailsHeldOnce
    <3>2. \A p \in Calls : Inserting(p)' => GetByEmail(Email(p))' = {}
      <4>1. SUFFICES ASSUME NEW p \in Calls, Inserting(p)' PROVE GetByEmail(Email(p))' = {}
        OBVIOUS
      <4>2. Email(p)' = Email(p) /\ GetByEmail(Email(p)) = {}
        BY <2>3, <2>4, <4>1 DEF Tables, EmailsHeldOnce
      <4>3. \A x \in users : Email(x)' # Email(p)'
        BY <2>3, <4>2 DEF GetByEmail
      <4>4. QED
        BY <2>1, <4>3 DEF GetByEmail
    <3>3. QED
      BY <2>1, <2>3, <2>5, <3>1, <3>2 DEF Tables, EmailsHeldOnce
  <2>7. \A p \in Calls : pc[p] # "idle" /\ Granted(p) => Granted(p)'
    BY <2>1, <2>3 DEF Granted
  <2>8. Told'
    BY <2>1, <2>3, <2>7 DEF Tables, Told, Email
  <2>9. QED
    BY <2>3, <2>6, <2>8 DEF Tables
<1>2. ASSUME NEW q \in Calls, Commit(q)
      PROVE  Tables'
  <2>1. /\ pc[q] = "ready"
        /\ pc'[q] \in {"registered", "internal"}
        /\ \A p \in Calls \ {q} : pc'[p] = pc[p]
        /\ users' = users \cup {q}
        /\ drivers' = IF req[q].role = "driver" THEN drivers \cup {q} ELSE drivers
        /\ req' = req
    BY <1>2 DEF Commit, Goto, Typed, Types
  <2>2. \A p : Email(p)' = Email(p)
    BY <2>1 DEF Email
  <2>3. \A a : GetByEmail(a) \subseteq GetByEmail(a)'
    BY <2>1, <2>2 DEF GetByEmail
  <2>4. \A p \in users : Email(p) # Email(q)
    BY <2>1 DEF Tables, EmailsHeldOnce, Inserting, GetByEmail
  <2>5. EmailsHeldOnce'
    <3>1. \A p \in Calls : Inserting(p)' => p # q /\ Inserting(p) /\ Email(p) # Email(q)
      BY <2>1 DEF Tables, EmailsHeldOnce, Inserting
    <3>2. \A p \in Calls : Inserting(p)' => GetByEmail(Email(p))' = {}
      BY <2>1, <2>2, <3>1 DEF Tables, EmailsHeldOnce, GetByEmail
    <3>3. \A p \in users' : pc'[p] \in {"registered", "internal"}
      BY <2>1 DEF Tables, EmailsHeldOnce, Typed, Types
    <3>4. \A o, p \in users' : o # p => Email(o)' # Email(p)'
      BY <2>1, <2>2, <2>4 DEF Tables, EmailsHeldOnce
    <3>5. QED
      BY <2>2, <3>1, <3>2, <3>3, <3>4 DEF Tables, EmailsHeldOnce
  <2>6. DriverRowsMatchRoles'
    BY <2>1 DEF Tables, EmailsHeldOnce, DriverRowsMatchRoles, Typed, Types
  <2>7. \A p \in Calls : Granted(p) => Granted(p)'
    BY <2>1, <2>2 DEF Granted
  <2>8. Told'
    BY <2>1, <2>2, <2>3, <2>7 DEF Tables, Told, Known
  <2>9. QED
    BY <2>5, <2>6, <2>8 DEF Tables
<1>3. ASSUME NEW q \in Calls,
             CreateUser(q) \/ CreateDriver(q) \/ ComparePassword(q) \/ RecordFailure(q)
               \/ RecordSuccess(q) \/ StepFails(q)
      PROVE  Tables'
  <2>1. /\ users' = users /\ drivers' = drivers /\ req' = req
        /\ pc[q] \in {"free", "inserted", "ready", "admitted", "wrong", "right"}
        /\ pc'[q] \in {"internal", "inserted", "ready", "wrong", "right", "unauthorized",
                       "authenticated"}
        /\ pc'[q] \in {"inserted", "ready"} =>
               \/ Inserting(q)
               \/ /\ \A p \in Calls : Inserting(p) => Email(p) # Email(q)
                  /\ GetByEmail(Email(q)) = {}
        /\ pc'[q] \in {"right", "authenticated"} => Known(q)
        /\ \A p \in Calls \ {q} : pc'[p] = pc[p]
    BY <1>3 DEF CreateUser, CreateDriver, ComparePassword, RecordFailure, RecordSuccess,
         StepFails, Goto, Typed, Types, Inserting, Tables, Told, Known
  <2>2. q \notin users
    BY <2>1 DEF Tables, EmailsHeldOnce
  <2>3. /\ DriverRowsMatchRoles'
        /\ \A p : Email(p)' = Email(p)
        /\ \A a : GetByEmail(a)' = GetByEmail(a)
        /\ \A p : Known(p)' = Known(p)
    BY <2>1 DEF Email, GetByEmail, Known, Tables, DriverRowsMatchRoles
  <2>4. EmailsHeldOnce'
    BY <2>1, <2>2, <2>3 DEF Tables, EmailsHeldOnce, Inserting, Typed, Types
  <2>5. \A p \in Calls : Granted(p) => Granted(p)'
    BY <2>1, <2>3 DEF Granted
  <2>6. Told'
    BY <2>1, <2>3, <2>5 DEF Tables, Told
  <2>7. QED
    BY <2>3, <2>4, <2>6 DEF Tables
<1>4. ASSUME \/ UNCHANGED vars
             \/ \E s \in Servers, a \in Address : Age(s, a)
             \/ \E s \in Servers : Cleanup(s) \/ Restart(s)
      PROVE  Tables'
  <2>1. /\ users' = users /\ drivers' = drivers /\ req' = req
        /\ \A p \in Calls : pc'[p] = pc[p] \/ (InFlight(p) /\ pc'[p] = "dead")
    BY <1>4 DEF vars, Age, Cleanup, Restart
  <2>2. /\ DriverRowsMatchRoles'
        /\ \A p : Email(p)' = Email(p)
        /\ \A a : GetByEmail(a)' = GetByEmail(a)
        /\ \A p : Known(p)' = Known(p)
    BY <2>1 DEF Email, GetByEmail, Known, Tables, DriverRowsMatchRoles
  <2>3. EmailsHeldOnce'
    BY <2>1, <2>2 DEF Tables, EmailsHeldOnce, Inserting, InFlight, Answer, Typed, Types
  <2>4. \A p \in Calls : Granted(p) => Granted(p)'
    BY <2>1, <2>2 DEF Granted, InFlight, Answer
  <2>5. Told'
    BY <2>1, <2>2, <2>4 DEF Tables, Told, InFlight, Answer
  <2>6. QED
    BY <2>2, <2>3, <2>5 DEF Tables
<1>5. ASSUME NEW q \in Calls, NEW b \in Calls, NEW s \in Servers, RefreshToken(q, s, b)
      PROVE  Tables'
  <2>1. /\ users' = users /\ drivers' = drivers
        /\ pc[q] = "idle" /\ pc'[q] \in {"refreshed", "rejected", "internal"}
        /\ req'[q] = req[b] /\ Issued(b) /\ b # q
        /\ \A p \in Calls \ {q} : pc'[p] = pc[p] /\ req'[p] = req[p]
    BY <1>5 DEF RefreshToken, Issued, Arrive, Goto, Typed, Types
  <2>2. q \notin users
    BY <2>1 DEF Tables, EmailsHeldOnce
  <2>3. /\ DriverRowsMatchRoles'
        /\ \A p \in users : Email(p)' = Email(p)
        /\ \A a : GetByEmail(a)' = GetByEmail(a)
        /\ \A p \in Calls : pc[p] # "idle" => Email(p)' = Email(p) /\ Known(p)' = Known(p)
    BY <2>1, <2>2, SameRows DEF Typed, Types
  <2>4. \A p \in Calls : Inserting(p)' => pc[p] # "idle" /\ Inserting(p) /\ p # q
    BY <2>1 DEF Inserting
  <2>5. EmailsHeldOnce'
    <3>1. \A p \in users : pc'[p] \in {"registered", "internal"}
      BY <2>1, <2>2 DEF Tables, EmailsHeldOnce, Typed, Types
    <3>2. \A p \in Calls : Inserting(p)' => GetByEmail(Email(p))' = {}
      <4>1. SUFFICES ASSUME NEW p \in Calls, Inserting(p)' PROVE GetByEmail(Email(p))' = {}
        OBVIOUS
      <4>2. Email(p)' = Email(p) /\ GetByEmail(Email(p)) = {}
        BY <2>3, <2>4, <4>1 DEF Tables, EmailsHeldOnce
      <4>3. \A x \in users : Email(x)' # Email(p)'
        BY <2>3, <4>2 DEF GetByEmail
      <4>4. QED
        BY <2>1, <4>3 DEF GetByEmail
    <3>3. \A o, p \in Calls : o # p /\ Inserting(o)' /\ Inserting(p)' => Email(o)' # Email(p)'
      BY <2>3, <2>4 DEF Tables, EmailsHeldOnce
    <3>4. QED
      BY <2>1, <2>3, <3>1, <3>2, <3>3 DEF Tables, EmailsHeldOnce
  <2>6. Granted(b)
    BY <2>1 DEF Issued, Tables, Told, Granted
  <2>7. Granted(q)'
    BY <2>1, <2>3, <2>6 DEF Granted, Email
  <2>8. \A p \in Calls : pc[p] # "idle" /\ Granted(p) => Granted(p)'
    BY <2>1, <2>3 DEF Granted
  <2>9. Known(q)'
    <3>1. Known(b)
      BY <2>1 DEF Issued, Tables, Told, GetByEmail, Known
    <3>2. Known(b)' /\ Email(q)' = Email(b)' /\ req'[q] = req'[b]
      BY <2>1, <2>3, <3>1 DEF Issued, Email
    <3>3. QED
      BY <3>2 DEF Known
  <2>10. Told'
    BY <2>1, <2>3, <2>7, <2>8, <2>9 DEF Tables, Told
  <2>11. QED
    BY <2>3, <2>5, <2>10 DEF Tables
<1>6. QED
  BY <1>1, <1>2, <1>3, <1>4, <1>5 DEF Next, CallStep, Credentials

LEMMA Inductive == Spec => [](Typed /\ Tables)
<1>1. Init => Typed /\ Tables
  BY DEF Init, Typed, Types, Arrived, Tables, EmailsHeldOnce, Inserting, GetByEmail, Known,
     DriverRowsMatchRoles, Told, NoAttempts, Stage, Answer
<1>2. Typed /\ Tables /\ [Next]_vars => (Typed /\ Tables)'
  BY TypeStep, TablesStep
<1>3. QED
  BY <1>1, <1>2, PTL DEF Spec

\* However registrations overlap, fail or die: no two accounts have one email.
THEOREM EmailsUnique == Spec => []OneAccountPerEmail
<1>1. Typed /\ Tables => OneAccountPerEmail
  BY DEF Tables, EmailsHeldOnce, OneAccountPerEmail, Email, Lower
<1>2. QED
  BY <1>1, Inductive, PTL

\* A driver has a row in drivers as soon as in users, and nobody else has one.
THEOREM DriversComplete == Spec => []DriverRowsMatchRoles
<1>1. Tables => DriverRowsMatchRoles
  BY DEF Tables
<1>2. QED
  BY <1>1, Inductive, PTL

\* What a client is told of its account is so.
THEOREM AnswersAlwaysTruthful == Spec => []AnswersTruthful
<1>1. Typed /\ Tables => AnswersTruthful
  BY DEF Typed, Types, Tables, EmailsHeldOnce, Told, Known, Granted, AnswersTruthful
<1>2. QED
  BY <1>1, Inductive, PTL

-----------------------------------------------------------------------------
(* The tracker *)

\* A process that does not restart forgets a failure only when its lock is over
\* or when somebody logs in with the right password.
THEOREM FailuresAreRemembered == Spec => FailuresRemembered
<1> DEFINE Kept ==
      \A s \in Stable, a \in Address :
         attempts'[s][a].fails < attempts[s][a].fails =>
             \/ attempts[s][a].aged
             \/ \E q \in Calls : /\ pc[q] = "right" /\ pc'[q] # "right"
                                 /\ server[q] = s /\ Email(q) = a
<1>1. Typed /\ [Next]_vars => Kept
  <2> SUFFICES ASSUME Typed, [Next]_vars, NEW s \in Stable, NEW a \in Address,
                      attempts'[s][a].fails < attempts[s][a].fails, ~attempts[s][a].aged
               PROVE  \E q \in Calls : /\ pc[q] = "right" /\ pc'[q] # "right"
                                       /\ server[q] = s /\ Email(q) = a
    OBVIOUS
  <2> USE ConstantsAssumption DEF Typed, Types, Arrived
  <2>1. attempts[s][a].fails \in Nat
    OBVIOUS
  <2>2. ASSUME attempts'[s][a].fails = attempts[s][a].fails PROVE FALSE
    BY <2>1, <2>2
  <2>3. ASSUME NEW q \in Calls, NEW p \in Servers, NEW r \in Request, Login(q, p, r)
        PROVE  FALSE
    <3>1. Lower(r.email) \in Address
      BY AddressOfRequest
    <3>2. CASE attempts' = attempts
      BY <2>2, <3>2
    <3>3. CASE /\ attempts[p][Lower(r.email)].aged
               /\ attempts' = [attempts EXCEPT ![p][Lower(r.email)] = NoAttempts]
      BY <2>2, <3>1, <3>3
    <3>4. QED
      BY <2>3, <3>2, <3>3 DEF Login, Forget
  <2>4. ASSUME NEW q \in Calls, RecordFailure(q)
        PROVE  FALSE
    <3>1. Email(q) \in Address /\ server[q] \in Servers
      BY <2>4, AddressOfRequest DEF Email, RecordFailure
    <3>2. attempts'[s][a].fails \in {attempts[s][a].fails, attempts[s][a].fails + 1}
      BY <2>4, <3>1 DEF RecordFailure
    <3>3. QED
      BY <2>1, <3>2
  <2>5. ASSUME NEW q \in Calls, RecordSuccess(q)
        PROVE  /\ pc[q] = "right" /\ pc'[q] # "right"
               /\ server[q] = s /\ Email(q) = a
    <3>1. Email(q) \in Address /\ server[q] \in Servers
      BY <2>5, AddressOfRequest DEF Email, RecordSuccess
    <3>2. server[q] = s /\ Email(q) = a
      BY <2>2, <2>5, <3>1 DEF RecordSuccess, Forget
    <3>3. QED
      BY <2>5, <3>2 DEF RecordSuccess, Goto
  <2>6. ASSUME NEW p \in Servers, NEW b \in Address, Age(p, b)
        PROVE  FALSE
    BY <2>2, <2>6 DEF Age
  <2>7. ASSUME NEW p \in Servers, Cleanup(p) \/ Restart(p)
        PROVE  FALSE
    <3>1. CASE Cleanup(p)
      BY <2>2, <3>1 DEF Cleanup
    <3>2. CASE Restart(p)
      BY <2>2, <3>2 DEF Restart
    <3>3. QED
      BY <2>7, <3>1, <3>2
  <2>8. CASE UNCHANGED attempts
    BY <2>2, <2>8
  <2>9. QED
    BY <2>3, <2>4, <2>5, <2>6, <2>7, <2>8 DEF Next, CallStep, Credentials, vars,
       Register, CreateUser, CreateDriver, Commit, ComparePassword, StepFails, RefreshToken
<1>2. Typed /\ [Next]_vars => [Kept]_vars
  BY <1>1
<1>3. QED
  BY <1>2, Inductive, PTL DEF Spec, FailuresRemembered

\* A counter grows by the failure of a login for its email, and by one.
LEMMA CounterStep ==
  ASSUME Typed, [Next]_vars, NEW s \in Servers, NEW a \in Address
  PROVE  \/ attempts'[s][a].fails <= attempts[s][a].fails
         \/ /\ attempts'[s][a].fails = attempts[s][a].fails + 1
            /\ \E q \in Calls : /\ pc[q] = "wrong" /\ pc'[q] = "unauthorized"
                                /\ server[q] = s /\ Email(q) = a
<1> USE ConstantsAssumption DEF Typed, Types, Arrived
<1>1. attempts[s][a].fails \in Nat /\ NoAttempts.fails = 0
  BY DEF NoAttempts
<1>2. CASE attempts'[s][a] \in {attempts[s][a], NoAttempts}
  BY <1>1, <1>2
<1>3. ASSUME NEW q \in Calls, RecordFailure(q)
      PROVE  \/ attempts'[s][a] = attempts[s][a]
             \/ /\ attempts'[s][a].fails = attempts[s][a].fails + 1
                /\ pc[q] = "wrong" /\ pc'[q] = "unauthorized"
                /\ server[q] = s /\ Email(q) = a
  <2>1. Email(q) \in Address /\ server[q] \in Servers
    BY <1>3, AddressOfRequest DEF Email, RecordFailure
  <2>2. CASE server[q] = s /\ Email(q) = a
    BY <1>3, <2>1, <2>2 DEF RecordFailure, Goto
  <2>3. CASE ~(server[q] = s /\ Email(q) = a)
    BY <1>3, <2>1, <2>3 DEF RecordFailure
  <2>4. QED
    BY <2>2, <2>3
<1>4. ASSUME NEW q \in Calls, RecordSuccess(q)
      PROVE  attempts'[s][a] \in {attempts[s][a], NoAttempts}
  <2>1. Email(q) \in Address /\ server[q] \in Servers
    BY <1>4, AddressOfRequest DEF Email, RecordSuccess
  <2>2. QED
    BY <1>4, <2>1 DEF RecordSuccess, Forget
<1>5. ASSUME NEW q \in Calls, NEW p \in Servers, NEW r \in Request, Login(q, p, r)
      PROVE  attempts'[s][a] \in {attempts[s][a], NoAttempts}
  <2>1. Lower(r.email) \in Address
    BY AddressOfRequest
  <2>2. \/ attempts' = attempts
        \/ attempts' = [attempts EXCEPT ![p][Lower(r.email)] = NoAttempts]
    BY <1>5 DEF Login, Forget
  <2>3. QED
    BY <2>1, <2>2, SMTT(30)
<1>6. ASSUME NEW p \in Servers, NEW b \in Address, Age(p, b)
      PROVE  attempts'[s][a].fails = attempts[s][a].fails
  BY <1>6 DEF Age
<1>7. ASSUME NEW p \in Servers, Cleanup(p) \/ Restart(p)
      PROVE  attempts'[s][a] \in {attempts[s][a], NoAttempts}
  <2>1. CASE Cleanup(p)
    BY <2>1 DEF Cleanup
  <2>2. CASE Restart(p)
    BY <2>2 DEF Restart
  <2>3. QED
    BY <1>7, <2>1, <2>2
<1>8. CASE UNCHANGED attempts
  BY <1>1, <1>8
<1>9. QED
  BY <1>1, <1>2, <1>3, <1>4, <1>5, <1>6, <1>7, <1>8 DEF Next, CallStep, Credentials, vars,
     Register, CreateUser, CreateDriver, Commit, ComparePassword, StepFails, RefreshToken

\* Only RecordFailure counts, for the email as it is looked up.
LEMMA NormalisedStep == Typed /\ CountsNormalised /\ [Next]_vars => CountsNormalised'
<1> SUFFICES ASSUME Typed, CountsNormalised, [Next]_vars,
                    NEW s \in Servers, NEW a \in Address, attempts'[s][a].fails > 0
             PROVE  a[2] = "lower"
  BY DEF CountsNormalised
<1>1. CASE attempts'[s][a].fails <= attempts[s][a].fails
  <2>1. attempts'[s][a].fails \in Nat /\ attempts[s][a].fails \in Nat
    BY TypeStep DEF Typed, Types
  <2>2. QED
    BY <1>1, <2>1 DEF CountsNormalised
<1>2. CASE \E q \in Calls : Email(q) = a
  BY <1>2 DEF Email, Lower
<1>3. QED
  BY <1>1, <1>2, CounterStep

\* Every reachable state is well typed, and failures are counted for
\* normalised emails only.
THEOREM TypeCorrect == Spec => []TypeOK
<1>1. Init => CountsNormalised
  BY DEF Init, CountsNormalised, NoAttempts
<1>2. Typed /\ CountsNormalised /\ [Next]_vars => CountsNormalised'
  BY NormalisedStep
<1>3. Typed /\ CountsNormalised => TypeOK
  BY DEF Typed, TypeOK
<1>4. QED
  BY <1>1, <1>2, <1>3, Inductive, PTL DEF Spec

\* A refused login stays refused.
LEMMA RefusalStep ==
  ASSUME Typed, [Next]_vars, NEW s \in Servers, NEW a \in Address
  PROVE  /\ Unauthorized(s, a) \subseteq Unauthorized(s, a)'
         /\ \A q \in Calls : pc[q] # "idle" => Email(q)' = Email(q) /\ server'[q] = server[q]
<1> USE DEF Typed, Types, Email
<1>1. \A q \in Calls :
          pc[q] # "idle" =>
              /\ req'[q] = req[q] /\ server'[q] = server[q]
              /\ pc[q] = "unauthorized" => pc'[q] = pc[q]
  BY ZenonT(60) DEF Next, CallStep, Credentials, vars, Arrive, Goto, Register, Login, RefreshToken,
     CreateUser, CreateDriver, Commit, ComparePassword, RecordFailure, RecordSuccess, StepFails, Age,
     Cleanup, Restart, InFlight, Answer
<1>2. \A q \in Calls : pc[q] # "idle" => Email(q)' = Email(q) /\ server'[q] = server[q]
  BY <1>1
<1>3. ASSUME NEW q \in Unauthorized(s, a) PROVE q \in Unauthorized(s, a)'
  <2>1. q \in Calls /\ pc[q] = "unauthorized" /\ server[q] = s /\ Email(q) = a
    BY <1>3 DEF Unauthorized
  <2>2. pc'[q] = "unauthorized" /\ server'[q] = s /\ Email(q)' = a
    BY <1>1, <1>2, <2>1
  <2>3. QED
    BY <2>1, <2>2 DEF Unauthorized
<1>4. QED
  BY <1>2, <1>3

LEMMA CauseStep == Typed /\ LockedForCause /\ [Next]_vars => LockedForCause'
<1> SUFFICES ASSUME Typed, LockedForCause, [Next]_vars, NEW s \in Servers, NEW a \in Address
             PROVE  attempts'[s][a].fails <= Cardinality(Unauthorized(s, a)')
  BY DEF LockedForCause
<1> DEFINE Before == Unauthorized(s, a)
           After  == Unauthorized(s, a)'
<1>1. IsFiniteSet(After) /\ After \in SUBSET Calls
  BY ConstantsAssumption, FS_Subset DEF Unauthorized
<1>2. Before \subseteq After
  BY RefusalStep
<1>3. /\ IsFiniteSet(Before)
      /\ Cardinality(Before) \in Nat /\ Cardinality(After) \in Nat
      /\ Cardinality(Before) <= Cardinality(After)
  <2> HIDE DEF Before, After
  <2>1. QED
    BY <1>1, <1>2, FS_Subset, FS_CardinalityType
<1>4. attempts[s][a].fails <= Cardinality(Before) /\ attempts[s][a].fails \in Nat
  BY DEF LockedForCause, Typed, Types
<1>5. attempts'[s][a].fails \in Nat
  <2>1. Types'
    BY TypeStep DEF Typed
  <2>2. QED
    BY <2>1 DEF Types
<1>6. ASSUME attempts'[s][a].fails <= attempts[s][a].fails
      PROVE  attempts'[s][a].fails <= Cardinality(After)
  <2> HIDE DEF Before, After
  <2>1. QED
    BY <1>3, <1>4, <1>5, <1>6
<1>7. ASSUME attempts'[s][a].fails = attempts[s][a].fails + 1,
             NEW q \in Calls, pc[q] = "wrong", pc'[q] = "unauthorized",
             server[q] = s, Email(q) = a
      PROVE  attempts'[s][a].fails <= Cardinality(After)
  <2>1. q \in After
    BY <1>7, RefusalStep DEF Unauthorized
  <2>2. q \notin Before
    BY <1>7 DEF Unauthorized
  <2>3. Cardinality(Before \cup {q}) = Cardinality(Before) + 1
    BY <1>3, <2>2, FS_AddElement
  <2>4. Cardinality(Before \cup {q}) <= Cardinality(After)
    BY <1>1, <1>2, <2>1, FS_Subset
  <2> HIDE DEF Before, After
  <2>5. QED
    BY <1>3, <1>4, <1>7, <2>3, <2>4
<1>8. QED
  BY <1>6, <1>7, CounterStep

\* The counter of an email never exceeds the logins refused for it.
THEOREM LocksHaveCause == Spec => []LockedForCause
<1>1. Init => LockedForCause
  <2> SUFFICES ASSUME Init, NEW s \in Servers, NEW a \in Address
               PROVE  attempts[s][a].fails <= Cardinality(Unauthorized(s, a))
    BY DEF LockedForCause
  <2>1. Unauthorized(s, a) = {}
    BY DEF Init, Unauthorized
  <2>2. attempts[s][a].fails = 0
    BY DEF Init, NoAttempts
  <2>3. QED
    BY <2>1, <2>2, FS_EmptySet
<1>2. Typed /\ LockedForCause /\ [Next]_vars => LockedForCause'
  BY CauseStep
<1>3. QED
  BY <1>1, <1>2, Inductive, PTL DEF Spec

-----------------------------------------------------------------------------
(* The registry *)

\* The account a row is, and the tokens of a call.
AccountOf(q) ==
    [call |-> q, email |-> req[q].email[1], password |-> req[q].password,
     role |-> IF q \in drivers THEN "driver" ELSE "rider"]

TokenOf(q) == [call |-> q, email |-> req[q].email[1], password |-> req[q].password]

LEMMA RegistryReads ==
  /\ accountsOf = {AccountOf(q) : q \in users}
  /\ accountsOf' = {AccountOf(q)' : q \in users'}
  /\ issuedTo = {TokenOf(q) : q \in {p \in Calls : Issued(p)}}
  /\ issuedTo' = {TokenOf(q)' : q \in {p \in Calls : Issued(p)'}}
BY DEF accountsOf, issuedTo, AccountOf, TokenOf

\* A step that commits nothing leaves the accounts alone.
LEMMA AccountsStay ==
  ASSUME Typed, Tables, UNCHANGED <<users, drivers>>,
         \A p \in Calls : pc[p] # "idle" => req'[p] = req[p]
  PROVE  UNCHANGED accountsOf
<1>1. \A p \in users : p \in Calls /\ pc[p] # "idle"
  BY DEF Typed, Types, Tables, EmailsHeldOnce
<1>2. \A p \in users : AccountOf(p)' = AccountOf(p)
  BY <1>1 DEF AccountOf
<1>3. QED
  BY <1>2, RegistryReads

\* As long as no call is answered with tokens, none are issued.
LEMMA TokensStay ==
  ASSUME \A p \in Calls : pc[p] # "idle" => req'[p] = req[p],
         \A p \in Calls : Issued(p)' <=> Issued(p)
  PROVE  UNCHANGED issuedTo
<1>1. \A p \in Calls : Issued(p) => TokenOf(p)' = TokenOf(p)
  BY DEF TokenOf, Issued
<1>2. QED
  BY <1>1, RegistryReads

\* Tokens are issued to an account by a call that names its email and password.
LEMMA TokensIssued ==
  ASSUME NEW q \in Calls, ~Issued(q), Issued(q)',
         \A p \in Calls \ {q} : pc[p] # "idle" => req'[p] = req[p],
         \A p \in Calls \ {q} : Issued(p)' <=> Issued(p),
         NEW a, a.email = req'[q].email[1], a.password = req'[q].password
  PROVE  Registrar!IssueTo(q, a)
<1>1. \A p \in Calls : Issued(p) => p # q /\ TokenOf(p)' = TokenOf(p)
  BY DEF TokenOf, Issued
<1>2. Registrar!Token(q, a) = TokenOf(q)'
  BY DEF Registrar!Token, TokenOf
<1>3. issuedTo' = issuedTo \cup {Registrar!Token(q, a)}
  BY <1>1, <1>2, RegistryReads
<1>4. \A t \in issuedTo : t.call # q
  BY <1>1, RegistryReads DEF TokenOf
<1>5. QED
  BY <1>3, <1>4 DEF Registrar!IssueTo

\* Who names the email and the password of an account has that account.
LEMMA KnownHasAccount ==
  ASSUME Typed, NEW q \in Calls, pc[q] # "idle", Known(q)
  PROVE  \E a \in accountsOf : a.email = req[q].email[1] /\ a.password = req[q].password
<1>1. PICK p \in users : Email(p) = Email(q) /\ req[p].password = req[q].password
  BY DEF Known, GetByEmail
<1>2. AccountOf(p).email = req[q].email[1] /\ AccountOf(p).password = req[q].password
  BY <1>1 DEF AccountOf, Email, Lower
<1>3. QED
  BY <1>2, RegistryReads

LEMMA RegistryStep ==
  Typed /\ Tables /\ [Next]_vars => [Registrar!Next]_(Registrar!vars)
<1> SUFFICES ASSUME Typed, Tables, [Next]_vars
             PROVE  Registrar!Next \/ UNCHANGED Registrar!vars
  OBVIOUS
<1>1. ASSUME NEW q \in Calls, Commit(q)
      PROVE  Registrar!Next
  <2>1. /\ pc[q] = "ready" /\ q \notin users /\ q \notin drivers
        /\ pc'[q] \in {"registered", "internal"}
        /\ \A p \in Calls \ {q} : pc'[p] = pc[p]
        /\ users' = users \cup {q} /\ req' = req
        /\ drivers' \in {drivers, drivers \cup {q}}
    BY <1>1 DEF Commit, Goto, Typed, Types, Tables, EmailsHeldOnce, DriverRowsMatchRoles
  <2> DEFINE a == AccountOf(q)'
  <2>2. a \in Registrar!Account
    <3>1. req'[q] \in Request
      BY <2>1 DEF Typed, Arrived
    <3>2. req'[q].email[1] \in Emails /\ req'[q].password \in Passwords
      BY <3>1 DEF Request, Address
    <3>3. QED
      BY <3>2 DEF AccountOf, Registrar!Account, Role
  <2>3. \A p \in users : AccountOf(p)' = AccountOf(p)
    BY <2>1 DEF AccountOf
  <2>4. accountsOf' = accountsOf \cup {a}
    BY <2>1, <2>3, RegistryReads
  <2>5. \A p \in users : p # q /\ Email(p) # Email(q)
    BY <2>1 DEF Tables, EmailsHeldOnce, Inserting, GetByEmail
  <2>6. \A p \in users : AccountOf(p).email # a.email /\ AccountOf(p).call # a.call
    BY <2>1, <2>5 DEF AccountOf, Email, Lower
  <2>7. \A b \in accountsOf : b.email # a.email /\ b.call # a.call
    BY <2>6, RegistryReads
  <2>8. a.call = q /\ a.email = req'[q].email[1] /\ a.password = req'[q].password
    BY DEF AccountOf
  <2> HIDE DEF a
  <2>9. Registrar!IssueTo(a.call, a) \/ UNCHANGED issuedTo
    <3>1. CASE pc'[q] = "registered"
      <4>1. ~Issued(q) /\ Issued(q)' /\ \A p \in Calls \ {q} : Issued(p)' <=> Issued(p)
        BY <2>1, <3>1 DEF Issued
      <4>2. Registrar!IssueTo(q, a)
        BY <2>1, <2>8, <4>1, TokensIssued
      <4>3. QED
        BY <2>8, <4>2
    <3>2. CASE pc'[q] = "internal"
      <4>1. \A p \in Calls : Issued(p)' <=> Issued(p)
        BY <2>1, <3>2 DEF Issued
      <4>2. QED
        BY <2>1, <4>1, TokensStay
    <3>3. QED
      BY <2>1, <3>1, <3>2
  <2>10. Registrar!Open(a)
    BY <2>4, <2>7, <2>9 DEF Registrar!Open
  <2>11. QED
    BY <2>2, <2>10 DEF Registrar!Next
<1>2. ASSUME NEW q \in Calls, RecordSuccess(q)
      PROVE  Registrar!Next \/ UNCHANGED Registrar!vars
  <2>1. /\ pc[q] = "right" /\ pc'[q] \in {"authenticated", "internal"}
        /\ \A p \in Calls \ {q} : pc'[p] = pc[p]
        /\ UNCHANGED <<users, drivers, req>>
    BY <1>2 DEF RecordSuccess, Goto, Typed, Types
  <2>2. UNCHANGED accountsOf
    BY <2>1, AccountsStay
  <2>3. CASE pc'[q] = "authenticated"
    <3>1. Known(q)
      BY <2>1 DEF Tables, Told
    <3>2. PICK a \in accountsOf : a.email = req[q].email[1] /\ a.password = req[q].password
      BY <2>1, <3>1, KnownHasAccount
    <3>3. ~Issued(q) /\ Issued(q)' /\ \A p \in Calls \ {q} : Issued(p)' <=> Issued(p)
      BY <2>1, <2>3 DEF Issued
    <3>4. Registrar!IssueTo(q, a)
      BY <2>1, <3>2, <3>3, TokensIssued
    <3>5. QED
      BY <2>2, <3>4 DEF Registrar!Next, Registrar!Issue
  <2>4. CASE pc'[q] = "internal"
    <3>1. \A p \in Calls : Issued(p)' <=> Issued(p)
      BY <2>1, <2>4 DEF Issued
    <3>2. UNCHANGED issuedTo
      BY <2>1, <3>1, TokensStay
    <3>3. QED
      BY <2>2, <3>2 DEF Registrar!vars
  <2>5. QED
    BY <2>1, <2>3, <2>4
<1>3. ASSUME NEW q \in Calls, NEW b \in Calls, NEW s \in Servers, RefreshToken(q, s, b)
      PROVE  Registrar!Next \/ UNCHANGED Registrar!vars
  <2>1. /\ UNCHANGED <<users, drivers>>
        /\ pc[q] = "idle" /\ pc'[q] \in {"refreshed", "rejected", "internal"}
        /\ req'[q] = req[b] /\ Issued(b)
        /\ \A p \in Calls \ {q} : pc'[p] = pc[p] /\ req'[p] = req[p]
    BY <1>3 DEF RefreshToken, Arrive, Goto, Typed, Types
  <2>2. UNCHANGED accountsOf
    BY <2>1, AccountsStay
  <2>3. CASE pc'[q] = "refreshed"
    <3>1. Known(b) /\ pc[b] # "idle"
      BY <2>1 DEF Issued, Tables, Told, GetByEmail, Known
    <3>2. PICK a \in accountsOf : a.email = req[b].email[1] /\ a.password = req[b].password
      BY <3>1, KnownHasAccount
    <3>3. ~Issued(q) /\ Issued(q)' /\ \A p \in Calls \ {q} : Issued(p)' <=> Issued(p)
      BY <2>1, <2>3 DEF Issued
    <3>4. Registrar!IssueTo(q, a)
      BY <2>1, <3>2, <3>3, TokensIssued
    <3>5. QED
      BY <2>2, <3>4 DEF Registrar!Next, Registrar!Issue
  <2>4. CASE pc'[q] # "refreshed"
    <3>1. \A p \in Calls : Issued(p)' <=> Issued(p)
      BY <2>1, <2>4 DEF Issued
    <3>2. UNCHANGED issuedTo
      BY <2>1, <3>1, TokensStay
    <3>3. QED
      BY <2>2, <3>2 DEF Registrar!vars
  <2>5. QED
    BY <2>3, <2>4
<1>4. ASSUME UNCHANGED <<users, drivers>>,
             \A p \in Calls : pc[p] # "idle" => req'[p] = req[p],
             \A p \in Calls : Issued(p)' <=> Issued(p)
      PROVE  UNCHANGED Registrar!vars
  BY <1>4, AccountsStay, TokensStay DEF Registrar!vars
<1>5. ASSUME NEW q \in Calls, NEW s \in Servers, NEW r \in Request,
             Register(q, s, r) \/ Login(q, s, r)
      PROVE  UNCHANGED Registrar!vars
  <2>1. /\ UNCHANGED <<users, drivers>>
        /\ pc[q] = "idle"
        /\ pc'[q] \in {"conflict", "bad_request", "free", "locked", "admitted"}
        /\ \A p \in Calls \ {q} : pc'[p] = pc[p] /\ req'[p] = req[p]
    BY <1>5 DEF Register, Login, Arrive, Goto, Typed, Types
  <2>2. QED
    BY <1>4, <2>1 DEF Issued
<1>6. ASSUME NEW q \in Calls,
             \/ CreateUser(q) \/ CreateDriver(q) \/ ComparePassword(q)
             \/ RecordFailure(q) \/ StepFails(q)
      PROVE  UNCHANGED Registrar!vars
  <2>1. /\ UNCHANGED <<users, drivers, req>>
        /\ pc[q] \in {"free", "inserted", "ready", "admitted", "wrong"}
        /\ pc'[q] \in {"internal", "inserted", "ready", "wrong", "right", "unauthorized"}
        /\ \A p \in Calls \ {q} : pc'[p] = pc[p]
    BY <1>6 DEF CreateUser, CreateDriver, ComparePassword, RecordFailure, StepFails, Goto,
         Typed, Types
  <2>2. QED
    BY <1>4, <2>1 DEF Issued
<1>7. ASSUME \/ UNCHANGED vars
             \/ \E s \in Servers, a \in Address : Age(s, a)
             \/ \E s \in Servers : Cleanup(s) \/ Restart(s)
      PROVE  UNCHANGED Registrar!vars
  <2>1. /\ UNCHANGED <<users, drivers, req>>
        /\ \A p \in Calls : pc'[p] = pc[p] \/ (InFlight(p) /\ pc'[p] = "dead")
    BY <1>7 DEF vars, Age, Cleanup, Restart
  <2>2. QED
    BY <1>4, <2>1 DEF Issued, InFlight, Answer
<1>8. QED
  BY <1>1, <1>2, <1>3, <1>5, <1>6, <1>7 DEF Next, CallStep, Credentials

\* The auth service is a Registry: however calls overlap, fail or die, accounts
\* are opened whole, one per email, and tokens go back to a password.
THEOREM RegistryRefinement == Spec => ImplementsRegistry
<1>1. Init => Registrar!Init
  BY DEF Init, Registrar!Init, accountsOf, issuedTo, Issued
<1>2. QED
  BY <1>1, RegistryStep, Inductive, PTL DEF Spec, ImplementsRegistry, Registrar!Spec

=============================================================================
