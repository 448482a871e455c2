# A formal model of the ridesharing back end

TLA+ modules, TLC runs and TLAPS proofs for the Go services under `src/`:
ride dispatch, the Redis lock it matches under, its events over Kafka, fares,
payments, the gateway and its rate limiter, the WebSocket notification hub,
accounts, logins and tokens, user profiles, drivers' positions and pagination.

- [The system](#the-system)
- [Modules and how they correspond to the code](#modules-and-how-they-correspond-to-the-code)
- [Runs](#runs)
- [Fairness](#fairness)
- [Proofs](#proofs)
- [What the code does otherwise than its words](#what-the-code-does-otherwise-than-its-words)
- [Not modelled](#not-modelled)

## The system

A gateway (`cmd/gateway`) translates REST to gRPC calls of five services, each
deployed in two or more replicas (`k8s/base/*`), over one SQL database. Every
request runs in a goroutine of its own with a deadline, so calls of one
operation overlap within a process and between processes. Services keep almost
no state in memory; what they share is the database, Redis and Kafka.

| Component | State | Operations | Interacts with | What is hard | What makes it correct |
|---|---|---|---|---|---|
| Ride dispatch, `internal/ride` | table `rides` | RequestRide (with matchDriver), AcceptRide, CompleteRide, CancelRide, GetRide, GetRideHistory | database, Redis lock, location service, Kafka | RequestRide is seven accesses with nothing that spans them; others act on the row meanwhile | one active ride per rider; a ride goes through its statuses in order, with one driver; events say what happened |
| Status machine, `internal/ride/fsm.go` | none | CanTransition | called under the row lock by accept, complete and cancel; not by matchDriver | | terminal statuses are terminal |
| Distributed lock, `pkg/redis` | a key with a TTL | Acquire, AcquireWithRetry, Release | Redis | TTL against work that lasts longer; lost answers; dead holders | exclusion within the TTL, only the owner deletes, the lock always comes back |
| Payment, `internal/payment` | table `payments` | ChargeRide, GetPayment | database, payment gateway | money is taken before it is recorded | at most one charge per ride; the books match the gateway |
| Notification hub, `internal/notification` | map of clients, three channels, two goroutines per connection | Run, SendToUser, WebSocketHandler, pumps | WebSocket peers | closing channels while others use them; a slow client | no panic, order, no leaked goroutine, no deadlock |
| Location, `internal/location` | Redis geo set, table `locations` | UpdateLocation, GetNearbyDrivers, ActiveDriverCount | Redis, database; read by dispatch | two stores written one after the other | whoever a search finds is there, and available if the table answers |
| Auth and lockout, `internal/auth`, `pkg/security` | tables `users`, `drivers`; failure counters in memory | Register, Login, RefreshToken | database | check then insert; counters read and written in separate critical sections | one account per email; failures count for whom they concern |
| User, `internal/user` | `users`, `drivers` | GetProfile, UpdateProfile, SetAvailability | database | read, modify, write | an update keeps what it does not name |
| Surge and fares, `ride/surge.go`, `pkg/geo` | none | Calculate, EstimateFare, EstimateETA | called by dispatch with counts that may be missing | zero drivers, cutting off, the threshold | monotone, within the limits |
| Pagination, `pkg/pagination` | none | Parse, NewResponse | no caller yet | empty pages, overflow | every record on one page |
| Events, `ride/service.go`, `pkg/kafka` | a topic; each reader's position and marks | publishEvent, Consume, Close | dispatch publishes; the gateways consume | order, loss, duplication; a mark precedes the handler; rebalances | an event stays true; a stop costs at most one message; the group catches up |
| Gateway, `cmd/gateway`, handlers, `pkg/middleware` | requests in flight; a window per user; a token bucket | start, serve, drain, stop; the routes; limiting | clients; all services | an answer and the work behind it end in different processes, in any order | a client is not told anything untrue; the limits hold |

`PROJECT.json` lists under `hazards` what of this is hard to test, each with
its line and the properties that watch it.

## Modules and how they correspond to the code

| Module | Models |
|---|---|
| `RideFSM` | the statuses and the transition table of `fsm.go` |
| `RideLifecycle` | abstract specification: what the ride service promises of each row |
| `RideDispatch` | `service.go` and `repository.go` of `internal/ride` over the table, the lock and the producer; implements `RideLifecycle` |
| `RideEvents` | extends `RideDispatch`: `publishEvent`, the topic, and the consumer group of the gateways (`pkg/kafka`) |
| `Lease` | abstract specification: what the lock promises, with or without a clock |
| `Fares` | `SurgeEngine.Calculate`, its counts, `EstimateFare`, `EstimateETA` |
| `DistLock` | `pkg/redis/redis.go` with a clock; implements `Lease`, as `RideDispatch` does |
| `Ledger` | abstract specification: what the payment service promises of money |
| `Payment` | `internal/payment/payment.go`; implements `Ledger` |
| `Api` | the routes of the REST handlers: refusals, RPCs, statuses |
| `Gateway` | extends `Api`: one gateway process with its middleware, `UserRateLimiter` and requests |
| `Checkout` | `Payment` and `Gateway` composed: charging through the gateway |
| `Pages` | `pkg/pagination` |
| `Inbox` | abstract specification: what the hub promises of notifications |
| `Hub` | `internal/notification/hub.go` and the WebSocket handler; implements `Inbox` |
| `Registry` | abstract specification: what the auth service promises of accounts and tokens |
| `Accounts` | Register, Login and RefreshToken of `internal/auth` with the `LoginAttemptTracker` of `pkg/security`; implements `Registry` |
| `Users` | UpdateProfile and SetAvailability of `internal/user` |
| `Location` | `internal/location/location.go` and `find_nearby_drivers` of migration 004; extends `Users`, whose availability its searches read |
| `MC...` | the module of the same name with the constants and symmetries of its runs |
| `...Proofs` | theorems about the module of the same name |

Definitions marked *Fault* are the following definition with a plausible bug in
it. They are not part of any specification; they document, and let one check,
that each property notices some mistake in the code.

**RideDispatch.** `pc[q]` says between which two accesses to the database or to
Redis call `q` of RequestRide stands. Each access is one action: the
SELECT of the active ride (`RequestRide`), the INSERT (`Create`), the attempts
at SETNX (`Acquire`, `AcquireBusy`), the search for a driver (`Search`), the
UPDATE (`Match`), the compare-and-delete (`Release`) and the return (`Answer`).
Between any two of them all other calls may run. Every access may fail without
effect (`StepFails`; the deadline of 10 seconds looks the same), and every
write may take effect and lose its answer: the branch `answered = FALSE` of
each action, where the code takes the path of an error although the row, or the
key, is there. `Crash` stops a call anywhere.

AcceptRide, CompleteRide and CancelRide read the row `FOR UPDATE`, test and
write it in one transaction. They are one action each: whoever else wants the
row, matchDriver's UPDATE included, waits for the commit. A refused call (not
found, forbidden, invalid transition) changes nothing and is a stutter.
`GetByIDForUpdate`, `SetStarted`, `SetCompleted` and `UpdateStatus` are the
statements of `repository.go` they are made of; `UpdateStatus` keeps the driver
when it is given none.

A row keeps its rider, status and driver and whether `started_at` and
`ended_at` are set. Distances, coordinates and times are left out: nothing
compares them. Fares are in `Fares`. `Search` may answer with any driver,
because distance is data and the location service does not look at rides.

Two constants say where the environment behaves: riders outside `Hasty` make
one call at a time (as the server sees it: a client that gives up and tries
again while the server still works on the first call is hasty), and calls
outside `Slow` finish their matching within the 5 seconds of the lock. Both
sets are arbitrary in the theorems.

**RideLifecycle** sees of each row its status and driver. It is the transition
table plus the driver (given once, never changed or removed) with one weaker
step: a ride cancelled before it had a driver may still be matched, which is
what the code does.

**RideEvents** lets each step of `RideDispatch` that publishes hand its event to
a goroutine (`Publish`). As a goroutine may be late, retry after a lost
acknowledgement, or never write, and the balancer ignores the key, a partition
may be given any published event at any time (`WriteMessages`); a message is
therefore its place in its partition, and what is claimed of contents is
claimed of all of `published`. `ReadMessage` marks a message when it hands it
out; `CommitMarks` is the commit of every second; `StopGateway` is a stop that
closes the reader, or a kill; `Rebalance` is the coordinator's, at which a
reader commits what it marked or is too late. Before the first commit of the
group a reader starts at the end of the partition (`StartOffset`), so a
rebalance then skips what came so far; `since` marks those messages, which the
properties leave out.

**Lease** sees of the lock the client its key names and whether each client is
trying, holding or over. The key is set when there is none, deleted by the client
it names, or passes with its TTL, which does not happen while a client outside
`Slow` still works. The key of `RideDispatch`, without a clock, and that of
`DistLock`, which is there while `now < expires`, both behave like this: what the
dispatch assumes of its lock is what the lock with a clock does.

**Fares** and **Pages** have no state. `Calculate` is claimed to be the largest
tenth not above the ratio, and monotone in both counts; `Quote` says what counts
that fail and the limit of 20 of the geo set lead to; pages show every record
once until integers overflow, and `OffsetsUntilOverflow` names the first page at
which they do. The integers of `Pages` lie between `-half` and `half - 1`, with
`half` 2^63 in the code. These claims are proved for all inputs
(`RideDispatchProofs`); they are also named assumptions of `MCRideDispatch` and
`MCCheckout`, which TLC evaluates, for small inputs, before each of their runs.

**DistLock** has a clock: a key is there while `now < expires`. A client in
`Slow` may hold the lock for `MaxHold` ticks, the others release it or stop
before the TTL has passed. `RideDispatch` uses the same lock without the clock:
its `Expire` may happen whenever the clock of `DistLock` allows it to.

**Payment.** The four steps of ChargeRide (SELECT, intent, capture, INSERT),
any of which may fail, with lost answers and crashes. A failing SELECT is
ignored by the code and counts as "not charged". `rideRows` is there for the
foreign key: a charge for a ride that does not exist captures the money and
then fails. Rides in `Calm` are charged by one call at a time and their
payments can be read; their INSERTs still fail and their calls still die. `Ledger` sees of this the money
taken, the payments entered and the receipts given: entries come after money,
receipts after entries, nothing comes twice, and no more money is taken for a
calm ride with an entry.

**Api, Gateway.** A request passes the middleware, and is refused by it, refused
by its handler, or becomes an RPC, in one step, because the only thing it
shares with others on its way is the window of its user, which is behind a
mutex. A window is its count and its age; time is a clock of ticks. The token
bucket is shared with all other traffic of the process, so that a request may
find it empty at any time. Processes start with retried pings, drain for ten
seconds after a signal and then drop what still waits, or are killed at any
time. Between the RPC and its answer the client may hang up. All services but
auth turn each of their errors into a 500.

**Checkout.** The RPC is taken up by the payment service at any time after the
gateway sent it (`TakeUp`), also when the gateway has answered with an error or
is gone, and the reply arrives when the call is over, or an error before. The
steps of the call are those of `Payment`; a request has the name of its call.

**Hub.** `Register`, `Unregister` and `Dispatch` are the three cases of Run. A
send on an unbuffered channel and its reception are one step. `evicting` holds
the client that Run, at line 95, is trying to send to `unregister`; from there
Run never returns to its select, so there is no action that resets it. Write
pump, read pump and handler of each connection run on their own; a write may
fail at any time, the peer may leave at any time. No code under `src/` calls
SendToUser yet (`KafkaEventHandler` is a stub): the model sends to any user at
any time, up to `MaxMessages`. A read pump closes its connection in a step after
the one in which Run takes its client out of the map; between the two the write
pump goes on with what its channel holds, while a new connection of the user may
be served already. That nothing is heard twice even then is what `Inbox` says,
besides the order on each connection; the order across two connections is not
promised.

**Accounts.** A row of `users` or `drivers` is named by the call that inserts
it. A registration looks the email up, begins a transaction with the INSERT of
the user, inserts the driver, commits; `users` and `drivers` are what is
committed, so `CreateUser` and `CreateDriver` move only the call, and the
unique index on `users.email` makes a second INSERT of an email wait for the
first transaction. A login is IsLocked, the look-up with the comparison, and
the record of its outcome: three critical sections, between which other logins,
the ticker (`Cleanup`) and restarts come. An entry of a tracker is its
counter and whether its lock is over (`aged`); `Age` lets a lock end at any
time after its last failure. Each process in `Servers` has its tracker; those
in `Stable` do not restart. Calls in `ViaGateway` lose the vehicle of the
request on the way, as every HTTP request does; the others call the service as
its tests do. In the repository as it is only riders can register. A call of
RefreshToken stands for the account whose token it brings. Signatures are a
library's; what the code looks at, expiry and audience, is `ValidateRefreshToken`.
`Registry` sees of all this the accounts, which appear whole and once for each
email, and the calls answered with tokens, all of which named an existing account
and its password, or bring a token of somebody who did.

**Users.** The row is read in two queries (`UpdateProfile`, `ReadDriver`) and
written in two statements (`WriteUser`, `WriteDriver`), any of which may fail
and lose its answer. A value is named by the call that brought it, so an old
value that comes back is seen. Users in `Calm` make one call at a time, as the
server sees it.

**Location.** A position is named by the call that reports it. `geo` is the
geo set, `rows` the table in the order of its timestamps. All searches look
around one point, and `Near` are the places within their radius: distance
matters to the code only as within, without, and nearest, and which of the
entries are the nearest `Limit` is left open. Drivers in `Sound` reach Redis
with every report; for the others GEOADD may fail, which the code ignores.
A search is one or two accesses, between which positions and availability
change. The second, of the table, is read row by row, and the code does not ask
afterwards whether all rows came (`rows.Err()`, after the loop of
`location.go:75-86`): a statement that is cut off by an error, the deadline or a
lost connection answers success with what was read. `SearchTable` therefore
answers any part of `FindNearby`, the empty one included, or fails. That a search
misses nobody is false of this code; what can be said, and is said in
`SearchesCurrent` and `FindingsTruthful`, is that whoever is found is found truly.

## Runs

| Run | Instance | Checks | Shows |
|---|---|---|---|
| `RideDispatch_calls` | 2 calls (one slow), 2 riders (one hasty), 2 drivers, 3 attempts, fair; 0.3 million states | TypeOK, ColumnsAgree, OneActiveUnlessHasty, ImplementsLifecycle, ImplementsLease, SettledWhenAnswered, CallsEnd, LockRecovers; the claims of `Fares` | rows and lock are right in every interleaving with failures, lost answers and crashes; calls end and the lock comes back |
| `RideEvents_topic` | 1 call, 2 drivers, 1 partition of 2 messages, 2 gateways, 1 stop, fair; 0.7 million states | EventsTypeOK, EventsTruthful, OneLostPerStop, CatchesUp | events stay true; a stop loses at most what was in hand; the group catches up |
| `RideDispatch_terminal` | 1 call | TerminalStatuses, violated | a cancelled ride is matched |
| `RideDispatch_double` | 2 calls, nobody hasty or slow | NoDoubleMatching, violated | one driver, two rides |
| `DistLock_lease` | 3 clients (one slow), TTL 3, hold up to 6, 2 attempts, 7 ticks; 1.9 million states | TypeOK, LeaseExclusive, ImplementsLease | the lock is safe within its TTL, and only there |
| `Checkout_charges` | 2 charges and 1 other request, 2 rides (one calm), 1 user, 1 request per window of 1 tick, the payment routes and Login; 4.5 million states | CheckoutTypeOK, BooksTruthful, SecondCaptureOnlyAfterFailure, AnswersTrue, BurstBounded, RefusedForCause, ImplementsLedger; the claims of `Pages` | the books match the gateway of the bank; when money can be taken twice; what clients are told of their money is so; the limiter lets at most twice its limit pass in the time of a window and refuses nobody who has had less than the limit |
| `Payment_retry` | 2 calls, 1 calm ride | ChargedOnce, violated | a retry after a failed INSERT captures again |
| `Hub_serves` | 2 connections, 1 or 2 users, queues of 2, 3 notifications, fair; 0.1 million states | TypeOK, OpenIffInMap, ImplementsInbox, ClosedIsWoundUp, BrokenLeavesMap | channels are closed once and never written after; nothing is heard twice; connections are wound up |
| `Hub_full` | 1 connection, queue of 1, fair | FullBufferDisconnects, violated | Run waits for itself |
| `Accounts_auth` | 3 calls (1 over HTTP), 1 email in 2 spellings, 2 passwords, 2 processes (1 stable), a lock after 2 failures; 1.0 million states | TypeOK, DriverRowsMatchRoles, AnswersTruthful, LockedForCause, FailuresRemembered, ImplementsRegistry | accounts are unique and complete; failures count for whom they concern |
| `Accounts_driver` | 2 calls over HTTP | VehicleIsSeen, violated | no driver can register over HTTP |
| `Location_fleet` | 3 calls, 2 drivers (one calm and sound), 1 calm rider, 2 places, 1 search, limit 1; 0.4 million states | TypeOK, UpdatesKeepOtherFields, DoneUpdatesStand, CacheNotBehindTable, ReportsStored, FindingsTruthful, SearchesCurrent | profiles lose nothing but by overlap; the stores of positions agree; searches tell the truth, also when they break off, and no position that a later one nearby has replaced |

`MatchMutex`, `MutualExclusion`, `OnlyOwnerDeletes`, `OneRecordPerRide`,
`OneAccountPerEmail` and `InOrder` are in no run: they say in terms of the
detailed modules what `Lease`, `Ledger`, `Registry` and `Inbox` say in their own,
and the runs check these. They are theorems nevertheless, being what readers of
those modules look for.

Why the bounds are enough. Two calls of RequestRide, with a third party acting
on the rows, already show every pair of steps in both orders; the lock has one
holder and one that waits, expires or comes back late. One ride publishes every
kind of event, and its two messages can be in hand, marked, committed and read
again by either of two gateways around a stop. The third client of
`DistLock_lease` is there for the case of a lock that passes to a second and a
third holder while the first still works. TTL 3 against hold 6 lets two TTLs
pass within one hold. With two charges there can be a failed one and a
successful one after it, and both at once; the third request contends for the
window and looks the payment up. One request per window is enough to be at its
limit, and two ticks to get past it (with all routes the run has 7.9 million
states and passes as well). A queue of 2 can be empty, partly and
entirely full, and 3 notifications overfill it. Three logins or registrations
give a lock after two failures, a login that was let in before it, and one
after it; one email in two spellings is enough for the tables, since emails do
not interact otherwise (`Accounts_auth` has also been run once with two
emails). Three reports are an old position, the one that
replaces it and one in flight. All safety properties of the runs that pass are
also proved, without bounds.

Bounds: `MaxTime` (stops the clock of `DistLock`), `MaxMessages`, `MaxTopic`,
`MaxStops`, and the sets of calls, requests, clients and connections,
each of which is used once. Because these are finite the system comes to rest,
so the runs do not check for deadlock; that calls end is a liveness property
instead. Symmetry is used for drivers, charges, quick clients, calls and
passwords, which are only compared for equality, and in no run with a liveness
property.

## Fairness

- `RideDispatch`: weak fairness of each call's next step. A goroutine is
  scheduled, and every access ends by an answer, an error or the deadline of
  the context (`service.go:68`). No fairness for riders and drivers: nobody has
  to accept, complete or cancel. Calls may crash at any time. Weak fairness of
  `Expire`: Redis deletes a key whose TTL has passed. `CallsEnd` does not need
  the lock to be free: the attempts are bounded.
- `RideEvents`: weak fairness of `Rebalance` (the coordinator notices who comes
  and goes), of `StartGateway` (Kubernetes starts a pod again) and, for each
  gateway, of reading and of handling: its loop reads on after errors, and the
  handler only logs. No fairness for the ride service, for `WriteMessages` (no
  event has to reach the topic) nor for `CommitMarks` (`CatchesUp` holds however
  late the marks are committed).
- `Hub`: weak fairness of Run's cases, of the handler's step from registering
  to starting the pumps, of a read pump on a connection closed at this end
  (ReadMessage then fails) and of its closing it, and of a write pump on a closed connection or a
  closed, empty channel. No write has to succeed and no peer has to read.
- `DistLock`, `Payment`, `Gateway`, `Checkout`, `Accounts` and `Location` have
  safety properties only.

## Proofs

`tlapm` checks every theorem for all values of the constants; the assumptions
are the named assumptions (`ConstantsAssumption`, `GatewayAssumption` and so on)
of each module (the null values differ from the
real ones, the limits are natural numbers).

**RideDispatchProofs.** The inductive invariant is
`IInv == TypeInv /\ RowInv`. `ColumnsAgree` is not inductive
by itself: `Match` writes a row without reading it, so one has to know what the
row can be. `CallRow`, in `RowInv`, says it: as long as a call can still match,
its row is requested or cancelled and has no driver, because nobody can accept
a ride without a driver and a cancel leaves the driver NULL. From it follow
`ColumnsAlwaysAgree`, `Settled`, and `Refinement`:
every step of the service is a step of `RideLifecycle` on the row it writes or
leaves all rows alone. `OneActiveRidePerCalmRider` needs `OneClaim`: a call
*claims* its rider while its ride is active or may become active, and a rider
who is not hasty has one claim; the late match of a cancelled ride is covered
because the call that can still match is still in flight. `MatchMutex` is
inductive given the types. `LeaseRefinement` needs only the types: the
nine places a call can be at are mapped to three stages (`StageMoves`), and
each step of a call is one use of the lock or none.

The same module proves the claims of `Fares` and `Pages`. Both are about
division: `DivFits` says that the quotient is the largest number that fits, and
the rest follows from the order. `PagesPartition` counts the pages on which a
record appears: it is on page `i \div limit + 1` and no other. The proof found a
mistake in an earlier `Calculate`, whose CASE had overlapping guards: TLC takes
the first that is true, but TLA+ leaves the choice open.

**RideEventsProofs.** `EventsImplementDispatch`: hiding the events leaves the
ride service, so all theorems about `RideDispatch` hold under `RideEvents`.
`EventsAlwaysTruthful` rests on `RowGrows`: no step takes back what an event
says of its row. For `OneMessagePerStop` the invariant `GoneBounded` counts the
messages that a reader was past, or the group has committed, and that are
neither handled nor in hand: reading and committing add none to them, because
the message read is then in hand, a rebalance only takes readers back, and a
stop adds the one message its gateway had in hand.

**DistLockProofs.** Within its TTL, a holder's key expires exactly at the end
of that TTL and carries the holder's value (`Inv`). `Exclusion` adds that quick
clients hold the lock for less than the TTL. In `LeaseRefinement` a tick of the
clock may be the lapse of the key, and then its client is slow or over
(`TickExpires`).

**PaymentProofs.** `Books` ties each row of `payments` to the call that
captured. `PaidOnce` and `CapturedAgainOnlyAfterFailure` add `Exclusive`: a calm
ride with a call in flight has no payment and no other call in flight.
`LedgerRefinement` uses all of these: money is taken once for each call because a
call captures once (`CallBooks`), a payment is entered by the call that took its
money, and an answer, once given, is a receipt (`Answers`).

**CheckoutProofs.** `CheckoutImplementsPayment` and `CheckoutImplementsGateway`:
each step of the composition is a step, or a stutter, of both parts, so that
their theorems carry over (`CheckoutSafe`). `AnswersAlwaysTrue` adds `Told`, how
the answer to a request and the state of its call go together. `BurstsAreBounded`
is the argument about fixed windows: the requests of a user let pass in the last
Window ticks are those counted in his present window and those from before it
was opened (`InWindow`, `Before`), neither more than the limit; those from
before are all too old by the time the present window can be replaced, and a
window the ticker forgets was over already. `RefusalsHaveCause` is the bound from
below: no request in an open window was counted without being let pass, until the
limit is reached (`Served`), for which one has to know that a request that has
not come yet is in no window (`Fresh`).

**HubProofs.** `OpenIffInMap` with what each handler state means for the map
(`Wired`). `DeliveredInOrder` treats what a connection has written and what waits
in its channel as one queue, `Carried`: the write pump moves the boundary within
it (`Moved`), a failed write drops one element (`Dropped`), Run appends one
(`Added`), which is greater than all before it because broadcast is in order
(`Waiting`), and of the right user because of `Wired`. `InboxRefinement` adds that connections
carry different notifications (`Apart`), as the one that is dispatched comes
after all that any of them carries.

**AccountsProofs.** `EmailsHeldOnce` is the unique index as an invariant: an
email is held by one committed row or by one open transaction, and never by
both; a commit then cannot make two. With `Told`, which carries what a call has
learned to its answer and whose tokens it refreshes, it gives `EmailsUnique`, `DriversComplete` and
`AnswersAlwaysTruthful`. `CounterStep` says how a counter can change in one
step; `LocksHaveCause` adds that logins refused in the past stay refused, so
their number bounds the counter. `FailuresAreRemembered` needs only the types. `RegistryRefinement`: a commit is
where an account appears, whole; no other step touches the tables, and a call
that is given tokens knows an account (`KnownHasAccount`).

**LocationProofs.** `CalmAlone` (a calm user has one call in flight) and
`Current` (what an update read is still so when it writes, and the columns of
`users` are written when those of `drivers` are next) give `OtherFieldsKept`
and `DoneUpdatesAreThere`. `Positions` has, besides the two properties it
yields, `CacheCurrent`: while a calm, sound driver's INSERT is next the geo set
holds that report. `FindingsAreTruthful` rests on `ReportsStay`: a report, once
made, keeps its driver and place. `SearchesAreCurrent` brings both stores
together: a position the geo set answers is not one the table has replaced
(`CacheNotBehindTable`), and the row the table answers is the driver's last within
the radius because no report is stored twice (`FoundRowsAreLast`).

Model-checked only: the liveness properties (`CallsEnd`, `LockRecovers`,
`CatchesUp`, `ClosedIsWoundUp`, `BrokenLeavesMap`), which the prover cannot do.
All other properties of the runs that pass are theorems.

## What the code does otherwise than its words

Each of these is a run that TLC refutes, and a finding in `PROJECT.json`.

1. `RideDispatch_terminal`: `fsm.go` says cancelled is terminal. A rider who
   cancels while the request is still looking for a driver gets the ride back,
   matched (`service.go:165` writes without reading).
2. `RideDispatch_double`: the lock serialises the matching but does not prevent
   double matching; nothing takes a matched driver out of the search.
3. `Payment_retry`: charging is not idempotent.
4. `Hub_full`: a slow client is not disconnected; it stops the hub.
5. `Accounts_driver`: a driver cannot register over HTTP, because the gRPC
   request has no fields for the vehicle the service insists on.

What holds only under a hypothesis is stated with it: without `Hasty`
(overlapping requests of a rider), `Calm` (overlapping calls of a user, or
charges of a ride) and `Sound` (Redis reachable) the properties that name these
sets fail, because nothing in the code spans the steps concerned. The lock of an
account comes after 1000 failures in one process (`auth/service.go:37`), where
`README.md:142` says 5; as `MaxFails` is a constant, the properties hold for
both.

Some smaller differences no run is spent on:

- `security.go:121` calls the window of the rate limiter sliding; it is fixed,
  which is why `BurstBounded` says twice the limit. The limiter, like the
  tracker of logins, counts for one process, and there are two replicas.
- `surge.go` says "Round to nearest 0.1" and cuts off; `highThreshold` is never
  read. Errors of the counts are dropped: when drivers cannot be counted every
  ride costs three times as much (`ErrorsPriced`).
- `KafkaEventHandler` is said to route events to users; it logs them.
- Until the group has committed for the first time, messages that come during a
  rebalance are skipped.
- The handlers of rides, payments and users answer with empty objects, whatever
  the service replied, and turn each error into a 500, where the API documents
  404 and 409.
- A body above the limit of `MaxBodySize` is answered with 400 by the handlers
  that bind it, not with 413.
- "Finds available drivers" (`location.go:184`, `location/handler.go:88`) is true
  of the fallback to the table only. The geo set, which is asked first, does not
  know who is available, and nothing takes anybody out of it.
- `FindNearby` (`location.go:75`) and `GetHistory` (`ride/repository.go:202`) do
  not ask `rows.Err()` after their loops: a list that was cut off is answered as
  if it were complete.
- `Parse` of `pkg/pagination` does not bound the page; a page far out makes the
  offset overflow (`OffsetsUntilOverflow`).

## Not modelled

- The connection pool of the database and the row locks statement by statement:
  a transaction that locks its row first is one action, because everybody else
  who wants the row waits for the commit. Only Register's transaction, which
  locks nothing before it writes, is modelled by its statements.
- GetProfile, GetRide and GetRideHistory read one row, or a page that may be
  cut off as a search may, and change nothing; their routes and answers are in `Api`. The gateway always
  asks for the first ten rides.
- Refund, UpdateStatus of payments, `Cache.RemoveDriver`, RemainingAttempts,
  `RequireRole` and the whole of `pkg/pagination` have no caller; of these
  pagination is modelled.
- Geometry (floating point without state), hashing and signing (libraries),
  request bodies and identifiers, configuration, logging, tracing and metrics,
  generated code, manifests. The other services' mains keep nothing in memory
  but calls in flight, whose end is a Crash in the modules of their operations.
- A compromise worth knowing: in `RideEvents` the coordinator and the broker are
  what the readers of `kafka.go` see of them, without sessions and timeouts.
