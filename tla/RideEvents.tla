---------------------------- MODULE RideEvents ------------------------------
(***************************************************************************)
(* The ride events: every change of a ride that RideDispatch makes is      *)
(* handed to a goroutine of its own (publishEvent), which writes it to the *)
(* Kafka topic "ride-events"; the gateways read the topic as the consumer  *)
(* group "notification-service" (pkg/kafka/kafka.go).                      *)
(*                                                                         *)
(* Two things decide what arrives.  The balancer ignores the key, and the  *)
(* goroutines race, so an event may go to any partition and take any place *)
(* in it, late, twice or never.  And ReadMessage marks a message as        *)
(* consumed when it hands it out, before the handler has run; the mark is  *)
(* committed once a second, or never when the gateway dies first.          *)
(*                                                                         *)
(* What a message says changes nothing for those who read it (the handler  *)
(* logs), so a message is named by its partition and its place there, from *)
(* 1 on, and may be any event handed over before.  Kafka itself, the       *)
(* group's coordinator included, is not part of the repository; it is      *)
(* modelled by what the readers of kafka.go see of it.                     *)
(*                                                                         *)
(* Definitions marked Fault are variants with a plausible bug, kept to     *)
(* show that the properties notice it.                                     *)
(***************************************************************************)
EXTENDS RideDispatch, FiniteSets

CONSTANTS
    Partitions,  \* of the topic
    Gateways,    \* replicas of the gateway, a consumer each
    NoGateway,   \* nobody reads the partition
    NoMessage,   \* the consumer is between two messages
    NoOffset,    \* the group has committed nothing in the partition
    MaxTopic,    \* bound on the messages of a partition
    MaxStops     \* bound on the stops and deaths of gateways

ASSUME EventConstantsAssumption ==
    /\ NoGateway \notin Gateways
    /\ NoMessage \notin Partitions \X Nat
    /\ NoOffset \notin Nat
    /\ MaxTopic \in Nat /\ MaxStops \in Nat

VARIABLES
    published,  \* the events handed to a goroutine of publishEvent
    written,    \* how many messages each partition has
    running,    \* the gateways that run
    stable,     \* no gateway came or went since the last rebalance
    owner,      \* the gateway that reads the partition
    position,   \* how many messages of the partition its reader has handed out
    committed,  \* what Kafka knows of the group's position
    since,      \* the messages up to this one were there before the group
    inHand,     \* the message a gateway has read and not handled
    handled,    \* the messages that were handled
    stops       \* how often a gateway stopped or died

producer == <<published, written>>
consumers == <<running, stable, owner, position, committed, since, inHand,
               handled, stops>>
eventVars == <<vars, producer, consumers>>

EventType == {"ride.requested", "ride.matched", "ride.started",
              "ride.completed", "ride.cancelled"}

Event == [type : EventType, ride : Calls, driver : Drivers \cup {NoDriver}]

Message == Partitions \X (1..MaxTopic)

EventsInit ==
    /\ Init
    /\ published = {}
    /\ written = [p \in Partitions |-> 0]
    /\ running = {}
    /\ stable = TRUE
    /\ owner = [p \in Partitions |-> NoGateway]
    /\ position = [p \in Partitions |-> 0]
    /\ committed = [p \in Partitions |-> NoOffset]
    /\ since = [p \in Partitions |-> 0]
    /\ inHand = [g \in Gateways |-> NoMessage]
    /\ handled = {}
    /\ stops = 0

-----------------------------------------------------------------------------
(* The ride service *)

\* publishEvent: the event is a copy of the ride as the service has it, handed
\* to a goroutine.  When the answer of the database is lost the service takes
\* the write for failed and publishes nothing.
Publish(answered, type, q, d) ==
    published' = IF answered
                 THEN published \cup {[type |-> type, ride |-> q, driver |-> d]}
                 ELSE published

\* The steps that publish, and what.
PublishingStep(q) ==
    \/ Match(q) /\ Publish(nearest'[q] # NoDriver, "ride.matched", q, nearest[q])
    \/ Answer(q) /\ Publish(TRUE, "ride.requested", q, nearest[q])
    \/ \E answered \in BOOLEAN :
         \/ \E d \in Drivers :
              \/ AcceptRide(q, d) /\ Publish(answered, "ride.started", q, d)
              \/ CompleteRide(q, d) /\ Publish(answered, "ride.completed", q, d)
         \/ \E u \in Riders \cup Drivers :
              /\ CancelRide(q, u)
              /\ Publish(answered, "ride.cancelled", q, rides[q].driver)

QuietStep(q) ==
    /\ \/ \E r \in Riders : RequestRide(q, r)
       \/ Create(q)
       \/ Acquire(q)
       \/ AcquireBusy(q)
       \/ \E d \in Drivers : Search(q, d)
       \/ Release(q)
       \/ StepFails(q)
       \/ Crash(q)
    /\ UNCHANGED published

RideStep ==
    /\ \/ \E q \in Calls : PublishingStep(q) \/ QuietStep(q)
       \/ Expire /\ UNCHANGED published
    /\ UNCHANGED <<written, consumers>>

\* A goroutine writes its event to any partition.  It may come late; when an
\* acknowledgement is lost the writer tries again; when its five seconds are
\* over, the broker refuses, the producer was closed or the process is gone,
\* the event is never written.
WriteMessages(p) ==
    /\ published # {}
    /\ written[p] < MaxTopic
    /\ written' = [written EXCEPT ![p] = @ + 1]
    /\ UNCHANGED <<vars, published, consumers>>

-----------------------------------------------------------------------------
(* The consumers *)

\* The gateway starts; its reader asks to join the group.
StartGateway(g) ==
    /\ g \notin running
    /\ running' = running \cup {g}
    /\ stable' = FALSE
    /\ UNCHANGED <<vars, producer, owner, position, committed, since,
                   inHand, handled, stops>>

\* What the reader of the partition would commit, if it has read anything.
Marked(p) == IF position[p] > since[p] THEN position[p] ELSE committed[p]

\* Fault: the reader has no GroupID and starts at the end of the topic.
RebalanceFromEnd ==
    /\ ~stable
    /\ stable' = TRUE
    /\ \E assignment \in [Partitions -> running \cup {NoGateway}] :
         /\ \A p \in Partitions : assignment[p] = NoGateway <=> running = {}
         /\ owner' = assignment
    /\ position' = [p \in Partitions |-> written[p]]
    /\ UNCHANGED <<vars, producer, running, committed, since, inHand, handled, stops>>

\* The coordinator gives the partitions to the gateways that run.  A reader
\* that loses its generation commits what it marked, or is too late for that.
\* Each reader starts after the committed offset, or, as there is none yet, at
\* the end of the partition (StartOffset).  The message a gateway has in hand
\* stays there.
Rebalance ==
    /\ ~stable
    /\ stable' = TRUE
    /\ \E assignment \in [Partitions -> running \cup {NoGateway}] :
         /\ \A p \in Partitions : assignment[p] = NoGateway <=> running = {}
         /\ owner' = assignment
    /\ \E late \in SUBSET running :
         committed' = [p \in Partitions |-> IF owner[p] \in running \ late
                                            THEN Marked(p) ELSE committed[p]]
    /\ position' = [p \in Partitions |-> IF committed'[p] = NoOffset
                                         THEN written[p] ELSE committed'[p]]
    /\ since' = [p \in Partitions |-> IF committed'[p] = NoOffset
                                      THEN written[p] ELSE since[p]]
    /\ UNCHANGED <<vars, producer, running, inHand, handled, stops>>

\* ReadMessage.  A read that fails is tried again a second later.
ReadMessage(g, p) ==
    /\ owner[p] = g
    /\ inHand[g] = NoMessage
    /\ position[p] < written[p]
    /\ position' = [position EXCEPT ![p] = @ + 1]
    /\ inHand' = [inHand EXCEPT ![g] = <<p, position[p] + 1>>]
    /\ UNCHANGED <<vars, producer, running, stable, owner, committed, since,
                   handled, stops>>

\* Fault: the loop ends when a handler does.
HandleAndReturn(g) ==
    /\ inHand[g] # NoMessage
    /\ handled' = handled \cup {inHand[g]}
    /\ UNCHANGED <<vars, producer, running, stable, owner, position, committed,
                   since, inHand, stops>>

\* KafkaEventHandler looks at the key and logs.  An error of a handler is
\* logged and the loop goes on.
HandleMessage(g) ==
    /\ inHand[g] # NoMessage
    /\ handled' = handled \cup {inHand[g]}
    /\ inHand' = [inHand EXCEPT ![g] = NoMessage]
    /\ UNCHANGED <<vars, producer, running, stable, owner, position, committed,
                   since, stops>>

\* Fault: the offset of the next message is committed, and one is added again.
CommitNext(g) ==
    /\ committed' = [p \in Partitions |-> IF owner[p] = g /\ position[p] > since[p]
                                          THEN position[p] + 1 ELSE committed[p]]
    /\ UNCHANGED <<vars, producer, running, stable, owner, position, since,
                   inHand, handled, stops>>

\* Once a second (CommitInterval) the marks are committed.
CommitMarks(g) ==
    /\ committed' = [p \in Partitions |-> IF owner[p] = g THEN Marked(p)
                                                          ELSE committed[p]]
    /\ UNCHANGED <<vars, producer, running, stable, owner, position, since,
                   inHand, handled, stops>>

\* The gateway stops: main closes the reader, which commits the marks, and
\* exits without waiting for the loop.  Or it is killed and commits nothing.
StopGateway(g) ==
    /\ g \in running
    /\ stops < MaxStops
    /\ stops' = stops + 1
    /\ running' = running \ {g}
    /\ stable' = FALSE
    /\ \E closed \in BOOLEAN :
         committed' = [p \in Partitions |-> IF closed /\ owner[p] = g
                                            THEN Marked(p) ELSE committed[p]]
    /\ owner' = [p \in Partitions |-> IF owner[p] = g THEN NoGateway ELSE owner[p]]
    /\ inHand' = [inHand EXCEPT ![g] = NoMessage]
    /\ UNCHANGED <<vars, producer, position, since, handled>>

-----------------------------------------------------------------------------

EventsNext ==
    \/ RideStep
    \/ \E p \in Partitions : WriteMessages(p)
    \/ \E g \in Gateways :
         \/ StartGateway(g)
         \/ \E p \in Partitions : ReadMessage(g, p)
         \/ HandleMessage(g)
         \/ CommitMarks(g)
         \/ StopGateway(g)
    \/ Rebalance

EventsSpec == EventsInit /\ [][EventsNext]_eventVars

\* Kubernetes starts a gateway again, the coordinator notices who comes and
\* goes, and a running gateway goes on reading and handling.  Nothing has to
\* happen to a ride, no event has to reach the topic, no mark has to be
\* committed.
FairEventsSpec ==
    /\ EventsSpec
    /\ WF_eventVars(Rebalance)
    /\ \A g \in Gateways :
         /\ WF_eventVars(StartGateway(g))
         /\ WF_eventVars(\E p \in Partitions : ReadMessage(g, p))
         /\ WF_eventVars(HandleMessage(g))

-----------------------------------------------------------------------------
(* Properties *)

EventsTypeOK ==
    /\ published \subseteq Event
    /\ running \subseteq Gateways /\ stable \in BOOLEAN
    /\ owner \in [Partitions -> running \cup {NoGateway}]
    /\ \A p \in Partitions :
         /\ written[p] \in 0..MaxTopic
         /\ position[p] \in 0..written[p]
         /\ since[p] \in 0..written[p]
         /\ committed[p] \in (0..written[p]) \cup {NoOffset}
    /\ inHand \in [Gateways -> Message \cup {NoMessage}]
    /\ handled \subseteq Message
    /\ stops \in 0..MaxStops

\* What Kafka is told happened, and what a consumer may read at any later time:
\* a started ride was started, a completed one is completed, a match names the
\* driver of the row, and no event of a ride that has a driver names another
\* one; although the events overtake each other on the way.
Truthful(e) ==
    LET row == rides[e.ride] IN
    /\ row.status # Absent
    /\ e.type = "ride.started" => row.started
    /\ e.type = "ride.completed" => row.status = "completed"
    /\ e.type = "ride.matched" => e.driver # NoDriver
    /\ e.driver # NoDriver => e.driver = row.driver

EventsTruthful == \A e \in published : Truthful(e)

InHand == {inHand[g] : g \in Gateways}

\* Messages the group has committed, that nobody has handled and nobody will.
\* Before its first commit the group has no position, and a rebalance skips
\* what came so far (StartOffset): those messages do not count.
Lost ==
    {m \in Message :
        /\ committed[m[1]] # NoOffset
        /\ m[2] \in since[m[1]] + 1 .. committed[m[1]]}
    \ (handled \cup InHand)

\* ReadMessage commits before the handler runs, and a rebalance may take a
\* partition from a reader at any point; still every stop of a gateway costs
\* at most one message, whoever reads on.
OneLostPerStop == Cardinality(Lost) <= stops

\* Messages written since the group has a position that nobody has handled.
Unhandled ==
    {m \in Message : m[2] \in since[m[1]] + 1 .. written[m[1]]} \ handled

\* The group catches up: again and again all but what the stops cost is
\* handled, through rebalances, late commits and restarts.
CatchesUp == []<>(Cardinality(Unhandled) <= stops)

=============================================================================
