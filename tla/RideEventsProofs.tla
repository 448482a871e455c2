-------------------------- MODULE RideEventsProofs --------------------------
(***************************************************************************)
(* Proofs about RideEvents for every number of calls, partitions, gateways *)
(* and messages.                                                           *)
(***************************************************************************)
EXTENDS RideEvents, RideDispatchProofs, FiniteSetTheorems

-----------------------------------------------------------------------------
(* The ride service under its events *)

\* Publishing is beside the point for the ride service: a step of RideEvents
\* is one of RideDispatch or leaves the rides alone.
LEMMA RideStepIsStep == EventsNext => [Next]_vars
<1> SUFFICES ASSUME EventsNext PROVE [Next]_vars
  OBVIOUS
<1>1. CASE RideStep
  <2>1. ASSUME NEW q \in Calls, PublishingStep(q)
        PROVE  Next
    BY <2>1 DEF PublishingStep, Next, CallStep
  <2>2. ASSUME NEW q \in Calls, QuietStep(q)
        PROVE  Next
    BY <2>2 DEF QuietStep, Next, CallStep
  <2>3. CASE Expire
    BY <2>3 DEF Next
  <2>4. QED
    BY <1>1, <2>1, <2>2, <2>3 DEF RideStep
<1>2. CASE ~RideStep
  BY <1>2
     DEF EventsNext, WriteMessages, StartGateway, ReadMessage, HandleMessage,
         CommitMarks, StopGateway, Rebalance
<1>3. QED
  BY <1>1, <1>2

\* Everything proved of RideDispatch holds under RideEvents.
THEOREM EventsImplementDispatch == EventsSpec => Spec
<1>1. EventsInit => Init
  BY DEF EventsInit
<1>2. [EventsNext]_eventVars => [Next]_vars
  BY RideStepIsStep DEF eventVars
<1>3. QED
  BY <1>1, <1>2, PTL DEF EventsSpec, Spec

-----------------------------------------------------------------------------
(* What the events say *)

\* An event that was truthful stays so: rows do not take back what it tells.
LEMMA TruthStays ==
    ASSUME RowGrowth, NEW e \in Event, Truthful(e)
    PROVE  Truthful(e)'
  BY DEF RowGrowth, Event, Truthful

EventsInv == published \subseteq Event /\ EventsTruthful

LEMMA EventsInvStep == IInv /\ EventsInv /\ [EventsNext]_eventVars => EventsInv'
<1> SUFFICES ASSUME IInv, EventsInv, [EventsNext]_eventVars PROVE EventsInv'
  OBVIOUS
<1>1. RowGrowth
  BY RowGrows, RideStepIsStep DEF IInv, eventVars
<1>2. ASSUME UNCHANGED published
      PROVE  EventsInv'
  BY <1>1, <1>2, TruthStays DEF EventsInv, EventsTruthful
<1>3. ASSUME NEW e \in Event, Truthful(e)', published' = published \cup {e}
      PROVE  EventsInv'
  BY <1>1, <1>3, TruthStays DEF EventsInv, EventsTruthful
<1>4. ASSUME NEW q \in Calls, PublishingStep(q)
      PROVE  EventsInv'
  <2> USE ConstantsAssumption
      DEF IInv, TypeInv, TypeOK, Row, RowInv, CallRow, Columns, EventType, Absent
  <2>1. ASSUME NEW d \in Drivers \cup {NoDriver}, d = nearest[q], Match(q),
               Publish(nearest'[q] # NoDriver, "ride.matched", q, d)
        PROVE  EventsInv'
    <3> DEFINE e == [type |-> "ride.matched", ride |-> q, driver |-> d]
    <3>1. e \in Event
      BY <2>1 DEF Event
    <3>2. published' = published \/ (nearest'[q] # NoDriver /\ published' = published \cup {e})
      BY <2>1 DEF Publish
    <3>3. nearest'[q] # NoDriver => Truthful(e)'
      BY <2>1 DEF Match, UpdateStatus, Truthful
    <3> HIDE DEF e
    <3>4. QED
      BY <1>2, <1>3, <3>1, <3>2, <3>3
  <2>2. ASSUME NEW d \in Drivers \cup {NoDriver}, d = nearest[q], Answer(q),
               Publish(TRUE, "ride.requested", q, d)
        PROVE  EventsInv'
    <3> DEFINE e == [type |-> "ride.requested", ride |-> q, driver |-> d]
    <3>1. e \in Event
      BY <2>2 DEF Event
    <3>2. published' = published \/ (published' = published \cup {e})
      BY <2>2 DEF Publish
    <3>3. Truthful(e)'
      BY <2>2 DEF Answer, Truthful
    <3> HIDE DEF e
    <3>4. QED
      BY <1>2, <1>3, <3>1, <3>2, <3>3
  <2>3. ASSUME NEW answered \in BOOLEAN, NEW d \in Drivers, AcceptRide(q, d),
               Publish(answered, "ride.started", q, d)
        PROVE  EventsInv'
    <3> DEFINE e == [type |-> "ride.started", ride |-> q, driver |-> d]
    <3>1. e \in Event
      BY <2>3 DEF Event
    <3>2. published' = published \/ (published' = published \cup {e})
      BY <2>3 DEF Publish
    <3>3. Truthful(e)'
      BY <2>3 DEF AcceptRide, AssignedTo, SetStarted, Truthful
    <3> HIDE DEF e
    <3>4. QED
      BY <1>2, <1>3, <3>1, <3>2, <3>3
  <2>4. ASSUME NEW answered \in BOOLEAN, NEW d \in Drivers, CompleteRide(q, d),
               Publish(answered, "ride.completed", q, d)
        PROVE  EventsInv'
    <3> DEFINE e == [type |-> "ride.completed", ride |-> q, driver |-> d]
    <3>1. e \in Event
      BY <2>4 DEF Event
    <3>2. published' = published \/ (published' = published \cup {e})
      BY <2>4 DEF Publish
    <3>3. Truthful(e)'
      BY <2>4 DEF CompleteRide, AssignedTo, SetCompleted, Truthful
    <3> HIDE DEF e
    <3>4. QED
      BY <1>2, <1>3, <3>1, <3>2, <3>3
  <2>5. ASSUME NEW answered \in BOOLEAN, NEW u \in Riders \cup Drivers,
               NEW d \in Drivers \cup {NoDriver}, d = rides[q].driver,
               CancelRide(q, u), Publish(answered, "ride.cancelled", q, d)
        PROVE  EventsInv'
    <3> DEFINE e == [type |-> "ride.cancelled", ride |-> q, driver |-> d]
    <3>1. e \in Event
      BY <2>5 DEF Event
    <3>2. published' = published \/ (published' = published \cup {e})
      BY <2>5 DEF Publish
    <3>3. Truthful(e)'
      BY <2>5 DEF CancelRide, UpdateStatus, Truthful
    <3> HIDE DEF e
    <3>4. QED
      BY <1>2, <1>3, <3>1, <3>2, <3>3
  <2>6. nearest[q] \in Drivers \cup {NoDriver} /\ rides[q].driver \in Drivers \cup {NoDriver}
    OBVIOUS
  <2> HIDE DEF IInv, TypeInv, TypeOK, RowInv
  <2>7. QED
    BY <1>4, <2>1, <2>2, <2>3, <2>4, <2>5, <2>6 DEF PublishingStep
<1>5. CASE RideStep
  BY <1>2, <1>4, <1>5 DEF RideStep, QuietStep
<1>6. CASE EventsNext /\ ~RideStep
  BY <1>2, <1>6
     DEF EventsNext, producer, WriteMessages, StartGateway, ReadMessage,
         HandleMessage, CommitMarks, StopGateway, Rebalance
<1>7. QED
  BY <1>2, <1>5, <1>6 DEF eventVars, producer

\* Whatever a consumer reads, and however late, tells what happened to the row.
THEOREM EventsAlwaysTruthful == EventsSpec => []EventsTruthful
<1>1. EventsInit => EventsInv
  BY DEF EventsInit, EventsInv, EventsTruthful
<1>2. IInv /\ EventsInv /\ [EventsNext]_eventVars => EventsInv'
  BY EventsInvStep
<1>3. EventsInv => EventsTruthful
  BY DEF EventsInv
<1>4. QED
  BY <1>1, <1>2, <1>3, EventsImplementDispatch, Inductive, PTL DEF EventsSpec

-----------------------------------------------------------------------------
(* The consumer group *)

ConsumerTypes ==
    /\ written \in [Partitions -> 0..MaxTopic]
    /\ running \subseteq Gateways
    /\ stable \in BOOLEAN
    /\ owner \in [Partitions -> running \cup {NoGateway}]
    /\ position \in [Partitions -> Nat]
    /\ since \in [Partitions -> Nat]
    /\ committed \in [Partitions -> Nat \cup {NoOffset}]
    /\ \A p \in Partitions :
         /\ position[p] <= written[p]
         /\ since[p] <= written[p]
         /\ committed[p] # NoOffset => committed[p] <= written[p]
    /\ inHand \in [Gateways -> Message \cup {NoMessage}]
    /\ handled \subseteq Message
    /\ stops \in 0..MaxStops

LEMMA RebalanceTypes == ConsumerTypes /\ Rebalance => ConsumerTypes'
<1> SUFFICES ASSUME ConsumerTypes, Rebalance PROVE ConsumerTypes'
  OBVIOUS
<1> USE EventConstantsAssumption
<1>1. /\ committed' \in [Partitions -> Nat \cup {NoOffset}]
      /\ \A p \in Partitions : committed'[p] # NoOffset => committed'[p] <= written[p]
  BY DEF Rebalance, Marked, ConsumerTypes
<1>2. /\ position' \in [Partitions -> Nat]
      /\ since' \in [Partitions -> Nat]
      /\ \A p \in Partitions : position'[p] <= written[p] /\ since'[p] <= written[p]
  BY <1>1 DEF Rebalance, ConsumerTypes
<1>3. owner' \in [Partitions -> running \cup {NoGateway}]
  BY DEF Rebalance
<1>4. /\ UNCHANGED <<written, running, inHand, handled, stops>>
      /\ stable' = TRUE
  BY DEF Rebalance, producer
<1>5. QED
  BY <1>1, <1>2, <1>3, <1>4 DEF ConsumerTypes, Message

LEMMA ConsumerTypesStep == ConsumerTypes /\ [EventsNext]_eventVars => ConsumerTypes'
<1> SUFFICES ASSUME ConsumerTypes, [EventsNext]_eventVars PROVE ConsumerTypes'
  OBVIOUS
<1> USE EventConstantsAssumption DEF ConsumerTypes, Message
<1>1. CASE RideStep \/ UNCHANGED <<written, consumers>>
  BY <1>1 DEF RideStep, consumers
<1>2. ASSUME NEW p \in Partitions, WriteMessages(p)
      PROVE  ConsumerTypes'
  BY <1>2 DEF WriteMessages, consumers
<1>3. ASSUME NEW g \in Gateways, StartGateway(g)
      PROVE  ConsumerTypes'
  BY <1>3 DEF StartGateway, producer
<1>4. ASSUME NEW g \in Gateways, NEW p \in Partitions, ReadMessage(g, p)
      PROVE  ConsumerTypes'
  BY <1>4 DEF ReadMessage, producer
<1>5. ASSUME NEW g \in Gateways, HandleMessage(g)
      PROVE  ConsumerTypes'
  BY <1>5 DEF HandleMessage, producer
<1>6. ASSUME NEW g \in Gateways, CommitMarks(g)
      PROVE  ConsumerTypes'
  BY <1>6 DEF CommitMarks, Marked, producer
<1>7. ASSUME NEW g \in Gateways, StopGateway(g)
      PROVE  ConsumerTypes'
  <2>1. /\ committed' \in [Partitions -> Nat \cup {NoOffset}]
        /\ \A p \in Partitions : committed'[p] # NoOffset => committed'[p] <= written[p]
    BY <1>7 DEF StopGateway, Marked
  <2>2. /\ stops' \in 0..MaxStops
        /\ owner' \in [Partitions -> running' \cup {NoGateway}]
    BY <1>7 DEF StopGateway
  <2>3. inHand' \in [Gateways -> Message \cup {NoMessage}]
    BY <1>7 DEF StopGateway
  <2>4. QED
    BY <1>7, <2>1, <2>2, <2>3 DEF StopGateway, producer
<1>8. CASE Rebalance
  BY <1>8, RebalanceTypes
<1>9. QED
  BY <1>1, <1>2, <1>3, <1>4, <1>5, <1>6, <1>7, <1>8
     DEF EventsNext, eventVars, producer, consumers

\* Messages a reader was past, or the group has committed, that nobody has
\* handled or holds.  A message enters by the stop of who holds it; a rebalance
\* only rewinds.
Gone ==
    {m \in Partitions \X (1..MaxTopic) :
        /\ since[m[1]] < m[2]
        /\ \/ m[2] <= position[m[1]]
           \/ committed[m[1]] # NoOffset /\ m[2] <= committed[m[1]]}
    \ (handled \cup InHand)

LEMMA GoneStep ==
    ASSUME ConsumerTypes, [EventsNext]_eventVars
    PROVE  \/ Gone' \subseteq Gone /\ stops' = stops
           \/ /\ \E m : Gone' \subseteq Gone \cup {m}
              /\ stops' = stops + 1
<1> USE EventConstantsAssumption DEF ConsumerTypes, Message, Gone, InHand
<1>1. CASE UNCHANGED consumers
  BY <1>1 DEF consumers
<1>2. ASSUME NEW g \in Gateways, StartGateway(g)
      PROVE  Gone' \subseteq Gone /\ stops' = stops
  BY <1>2 DEF StartGateway
<1>3. ASSUME NEW g \in Gateways, NEW p \in Partitions, ReadMessage(g, p)
      PROVE  Gone' \subseteq Gone /\ stops' = stops
  BY <1>3 DEF ReadMessage
<1>4. ASSUME NEW g \in Gateways, HandleMessage(g)
      PROVE  Gone' \subseteq Gone /\ stops' = stops
  BY <1>4 DEF HandleMessage
<1>5. ASSUME NEW g \in Gateways, CommitMarks(g)
      PROVE  Gone' \subseteq Gone /\ stops' = stops
  BY <1>5 DEF CommitMarks, Marked
<1>6. ASSUME NEW g \in Gateways, StopGateway(g)
      PROVE  Gone' \subseteq Gone \cup {inHand[g]} /\ stops' = stops + 1
  BY <1>6 DEF StopGateway, Marked
<1>7. CASE Rebalance
  BY <1>7 DEF Rebalance, Marked
<1>8. QED
  BY <1>1, <1>2, <1>3, <1>4, <1>5, <1>6, <1>7
     DEF EventsNext, eventVars, RideStep, WriteMessages

GoneBounded == IsFiniteSet(Gone) /\ Cardinality(Gone) <= stops

LEMMA GoneBoundedStep ==
    ConsumerTypes /\ GoneBounded /\ [EventsNext]_eventVars => GoneBounded'
<1> SUFFICES ASSUME ConsumerTypes, GoneBounded, [EventsNext]_eventVars
             PROVE  GoneBounded'
  OBVIOUS
<1>1. stops \in Nat /\ Cardinality(Gone) \in Nat
  BY EventConstantsAssumption, FS_CardinalityType DEF ConsumerTypes, GoneBounded
<1>2. CASE Gone' \subseteq Gone /\ stops' = stops
  <2>1. IsFiniteSet(Gone') /\ Cardinality(Gone') \in Nat
        /\ Cardinality(Gone') <= Cardinality(Gone)
    BY <1>2, FS_Subset, FS_CardinalityType DEF GoneBounded
  <2>2. QED
    BY <1>1, <1>2, <2>1 DEF GoneBounded
<1>3. ASSUME NEW m, Gone' \subseteq Gone \cup {m}, stops' = stops + 1
      PROVE  GoneBounded'
  <2> DEFINE more == Gone \cup {m}
  <2>1. /\ IsFiniteSet(more)
        /\ Cardinality(more) \in Nat
        /\ Cardinality(more) <= Cardinality(Gone) + 1
    BY <1>1, FS_AddElement, FS_CardinalityType DEF GoneBounded
  <2>2. IsFiniteSet(Gone') /\ Cardinality(Gone') \in Nat
        /\ Cardinality(Gone') <= Cardinality(more)
    BY <1>3, <2>1, FS_Subset, FS_CardinalityType
  <2>3. QED
    BY <1>1, <1>3, <2>1, <2>2 DEF GoneBounded
<1>4. QED
  BY <1>2, <1>3, GoneStep

\* Whatever the coordinator does and whenever marks are committed, every stop
\* of a gateway costs at most one message.
THEOREM OneMessagePerStop == EventsSpec => []OneLostPerStop
<1>1. EventsInit => ConsumerTypes /\ GoneBounded
  <2> SUFFICES ASSUME EventsInit PROVE ConsumerTypes /\ GoneBounded
    OBVIOUS
  <2>1. ConsumerTypes
    BY EventConstantsAssumption DEF EventsInit, ConsumerTypes
  <2>2. Gone = {}
    BY EventConstantsAssumption DEF EventsInit, Gone
  <2>3. QED
    BY <2>1, <2>2, FS_EmptySet DEF GoneBounded, EventsInit
<1>2. ConsumerTypes /\ GoneBounded /\ [EventsNext]_eventVars =>
        (ConsumerTypes /\ GoneBounded)'
  BY ConsumerTypesStep, GoneBoundedStep
<1>3. ConsumerTypes /\ GoneBounded => OneLostPerStop
  <2> SUFFICES ASSUME ConsumerTypes, GoneBounded PROVE OneLostPerStop
    OBVIOUS
  <2>1. Lost \subseteq Gone
    BY EventConstantsAssumption DEF Lost, Gone, Message, ConsumerTypes
  <2>2. /\ IsFiniteSet(Lost)
        /\ Cardinality(Lost) \in Nat
        /\ Cardinality(Gone) \in Nat
        /\ Cardinality(Lost) <= Cardinality(Gone)
    BY <2>1, FS_Subset, FS_CardinalityType DEF GoneBounded
  <2>3. QED
    BY <2>2, EventConstantsAssumption DEF GoneBounded, OneLostPerStop, ConsumerTypes
<1>4. QED
  BY <1>1, <1>2, <1>3, PTL DEF EventsSpec

\* Every variable of the topic and its readers keeps its type, and no reader is
\* ahead of its partition.
THEOREM EventsTypeCorrect == EventsSpec => []EventsTypeOK
<1>1. EventsInit => ConsumerTypes /\ EventsInv
  BY EventConstantsAssumption DEF EventsInit, ConsumerTypes, EventsInv, EventsTruthful
<1>2. IInv /\ ConsumerTypes /\ EventsInv /\ [EventsNext]_eventVars =>
        (ConsumerTypes /\ EventsInv)'
  BY ConsumerTypesStep, EventsInvStep
<1>3. ConsumerTypes /\ EventsInv => EventsTypeOK
  BY EventConstantsAssumption DEF ConsumerTypes, EventsInv, EventsTypeOK
<1>4. QED
  BY <1>1, <1>2, <1>3, EventsImplementDispatch, Inductive, PTL DEF EventsSpec

=============================================================================
