----------------------------- MODULE HubProofs -----------------------------
(***************************************************************************)
(* Proofs about Hub for every set of connections and users and every       *)
(* capacity of the channels.                                               *)
(***************************************************************************)
EXTENDS Hub, SequenceTheorems, TLAPS

\* The part of TypeOK the proof needs.
Typed ==
    /\ clients \in [Users -> Conns \cup {NoConn}]
    /\ user \in [Conns -> Users]
    /\ handler \in [Conns -> {"none", "upgraded", "registered", "returned"}]
    /\ reader \in [Conns -> {"off", "reading", "leaving", "closing", "done"}]
    /\ closed \in [Conns -> BOOLEAN]

\* A user is mapped to a connection of its own, pumps run only for registered
\* clients, and only the channel of a registered client is ever closed.
Wired ==
    /\ \A u \in Users : clients[u] # NoConn => user[clients[u]] = u
    /\ \A c \in Conns :
         /\ reader[c] # "off" => handler[c] = "returned"
         /\ closed[c] => Registered(c)

Inv == Typed /\ Wired /\ OpenIffInMap

LEMMA InvStep == Inv /\ [Next]_vars => Inv'
<1> SUFFICES ASSUME Inv, [Next]_vars PROVE Inv'
  OBVIOUS
<1> USE ConstantsAssumption DEF Inv, Typed, Wired, OpenIffInMap, Registered
<1>1. ASSUME NEW c \in Conns, Register(c)
      PROVE  Inv'
  <2>1. /\ handler[c] = "upgraded" /\ ~closed[c] /\ clients[user[c]] # c
        /\ clients' = [clients EXCEPT ![user[c]] = c]
        /\ handler' = [handler EXCEPT ![c] = "registered"]
        /\ closed' = [x \in Conns |-> closed[x] \/ x = clients[user[c]]]
        /\ UNCHANGED <<user, reader>>
    BY <1>1 DEF Register
  <2>2. Typed' /\ Wired'
    BY <2>1
  <2>3. ASSUME NEW x \in Conns, x = c
        PROVE  clients'[user'[x]] = x /\ Registered(x)' /\ ~closed'[x]
    BY <2>1, <2>3
  <2>4. ASSUME NEW x \in Conns, x # c, x = clients[user[c]]
        PROVE  clients'[user'[x]] # x /\ closed'[x]
    BY <2>1, <2>4, ZenonT(60)
  <2>5. ASSUME NEW x \in Conns, x # c, x # clients[user[c]]
        PROVE  /\ clients'[user'[x]] = x <=> clients[user[x]] = x
               /\ Registered(x)' = Registered(x)
               /\ closed'[x] = closed[x]
    BY <2>1, <2>5
  <2>6. QED
    BY <2>2, <2>3, <2>4, <2>5
<1>2. ASSUME NEW c \in Conns, Unregister(c)
      PROVE  Inv'
  <2>1. CASE clients[user[c]] = c
    <3>1. /\ clients' = [clients EXCEPT ![user[c]] = NoConn]
          /\ closed' = [closed EXCEPT ![c] = TRUE]
          /\ reader' = [reader EXCEPT ![c] = "closing"]
          /\ handler[c] = "returned"
          /\ UNCHANGED <<user, handler>>
      BY <1>2, <2>1 DEF Unregister
    <3>2. Typed' /\ Wired'
      BY <3>1
    <3>3. clients'[user'[c]] # c /\ closed'[c]
      BY <3>1
    <3>4. ASSUME NEW x \in Conns, x # c
          PROVE  /\ clients'[user'[x]] = x <=> clients[user[x]] = x
                 /\ Registered(x)' = Registered(x)
                 /\ closed'[x] = closed[x]
      BY <2>1, <3>1, <3>4
    <3>5. QED
      BY <3>2, <3>3, <3>4
  <2>2. CASE clients[user[c]] # c
    BY <1>2, <2>2 DEF Unregister
  <2>3. QED
    BY <2>1, <2>2
<1>3. ASSUME NEW c \in Conns, Upgrade(c) \/ StartPumps(c)
      PROVE  Inv'
  BY <1>3 DEF Upgrade, StartPumps, hubVars
<1>4. ASSUME NEW c \in Conns,
             Write(c) \/ WriterEnds(c) \/ ReaderLeaves(c) \/ ReaderCloses(c)
      PROVE  Inv'
  BY <1>4 DEF Write, WriterEnds, ReaderLeaves, ReaderCloses, hubVars
<1>5. CASE Dispatch
  BY <1>5 DEF Dispatch
<1>6. ASSUME NEW u \in Users, SendToUser(u)
      PROVE  Inv'
  BY <1>6 DEF SendToUser, connVars
<1>7. CASE UNCHANGED vars
  BY <1>7 DEF vars, hubVars, connVars
<1>8. QED
  BY <1>1, <1>2, <1>3, <1>4, <1>5, <1>6, <1>7 DEF Next

\* The hub never closes a channel twice, never sends on a closed one and never
\* forgets one that is open, in whatever order connections come, are replaced
\* and leave.
THEOREM ChannelsSafe == Spec => []OpenIffInMap
<1>1. Init => Inv
  BY ConstantsAssumption DEF Init, Inv, Typed, Wired, OpenIffInMap, Registered
<1>2. Inv => OpenIffInMap
  BY DEF Inv
<1>3. QED
  BY <1>1, <1>2, InvStep, PTL DEF Spec

-----------------------------------------------------------------------------
(* The queues *)

Message == Nat \ {0}

Notification == [user : Users, message : Message]

\* TypeOK, and what is in the queues.
QueueTypes ==
    /\ TypeOK
    /\ broadcast \in Seq(Notification)
    /\ send \in [Conns -> Seq(Message)]
    /\ delivered \in [Conns -> Seq(Message)]

\* What Run does with the next notification.
LEMMA DispatchStep ==
  ASSUME QueueTypes, Dispatch
  PROVE  /\ broadcast # <<>> /\ broadcast' = Tail(broadcast)
         /\ Head(broadcast).message \in Message
         /\ UNCHANGED <<clients, user, handler, writer, reader, open, closed, delivered, sent>>
         /\ \/ UNCHANGED send /\ evicting' \in Conns \cup {NoConn}
            \/ \E c \in Conns :
                 /\ c = clients[Head(broadcast).user]
                 /\ Len(send[c]) < SendCap
                 /\ send' = [send EXCEPT ![c] = Append(@, Head(broadcast).message)]
                 /\ UNCHANGED evicting
<1>1. broadcast # <<>> /\ broadcast \in Seq(Notification)
  BY DEF Dispatch, QueueTypes
<1>2. Head(broadcast) \in Notification
  BY <1>1, HeadTailProperties
<1> USE DEF QueueTypes, TypeOK
<1>3. Head(broadcast).user \in Users /\ Head(broadcast).message \in Message
  BY <1>2 DEF Notification
<1>4. clients[Head(broadcast).user] \in Conns \cup {NoConn}
  BY <1>3
<1>5. QED
  BY <1>1, <1>3, <1>4 DEF Dispatch

LEMMA QueueTypesStep == QueueTypes /\ [Next]_vars => QueueTypes'
<1> SUFFICES ASSUME QueueTypes, [Next]_vars PROVE QueueTypes'
  OBVIOUS
<1> USE ConstantsAssumption DEF QueueTypes, TypeOK
<1>1. ASSUME NEW c \in Conns, Register(c) \/ Unregister(c)
      PROVE  QueueTypes'
  <2>1. UNCHANGED <<broadcast, evicting, user, writer, send, delivered, sent>>
    BY <1>1 DEF Register, Unregister
  <2>2. CASE Register(c)
    BY <2>1, <2>2 DEF Register
  <2>3. CASE Unregister(c)
    BY <2>1, <2>3 DEF Unregister
  <2>4. QED
    BY <1>1, <2>2, <2>3
<1>2. CASE Dispatch
  <2>1. broadcast' \in Seq(Notification) /\ Len(broadcast') <= BroadcastCap
    <3>1. broadcast # <<>> /\ broadcast' = Tail(broadcast) /\ broadcast \in Seq(Notification)
      BY <1>2, DispatchStep
    <3> HIDE DEF QueueTypes, TypeOK
    <3>2. /\ Tail(broadcast) \in Seq(Notification) /\ Len(broadcast) \in Nat
          /\ Len(Tail(broadcast)) = Len(broadcast) - 1
      BY <3>1, HeadTailProperties, LenProperties
    <3>3. QED
      BY <3>1, <3>2 DEF QueueTypes, TypeOK
  <2>2. CASE UNCHANGED send /\ evicting' \in Conns \cup {NoConn}
    BY <1>2, <2>1, <2>2, DispatchStep
  <2>3. ASSUME NEW c \in Conns, Len(send[c]) < SendCap, UNCHANGED evicting,
               send' = [send EXCEPT ![c] = Append(@, Head(broadcast).message)]
        PROVE  QueueTypes'
    <3>1. /\ Append(send[c], Head(broadcast).message) \in Seq(Message)
          /\ Len(Append(send[c], Head(broadcast).message)) = Len(send[c]) + 1
      BY <1>2, DispatchStep, AppendProperties
    <3>2. Len(send[c]) \in Nat
      BY LenProperties
    <3>3. send' \in [Conns -> Seq(Message)] /\ \A x \in Conns : Len(send'[x]) <= SendCap
      BY <2>3, <3>1, <3>2
    <3>4. QED
      BY <1>2, <2>1, <2>3, <3>3, DispatchStep
  <2>4. QED
    BY <1>2, <2>2, <2>3, DispatchStep
<1>3. ASSUME NEW u \in Users, SendToUser(u)
      PROVE  QueueTypes'
  <2>1. sent' \in Seq(Users) /\ Len(sent') = Len(sent) + 1 /\ Len(sent) \in Nat
    BY <1>3, AppendProperties, LenProperties DEF SendToUser
  <2>2. [user |-> u, message |-> Len(sent')] \in Notification
    BY <2>1 DEF Notification, Message
  <2>3. broadcast' \in Seq(Notification) /\ Len(broadcast') = Len(broadcast) + 1 /\ Len(broadcast) \in Nat
    BY <1>3, <2>2, AppendProperties, LenProperties DEF SendToUser
  <2>4. QED
    BY <1>3, <2>1, <2>3 DEF SendToUser, connVars
<1>4. ASSUME NEW c \in Conns,
             Upgrade(c) \/ StartPumps(c) \/ ReaderLeaves(c) \/ ReaderCloses(c)
      PROVE  QueueTypes'
  BY <1>4 DEF Upgrade, StartPumps, ReaderLeaves, ReaderCloses, hubVars
<1>5. ASSUME NEW c \in Conns, Write(c) \/ WriterEnds(c)
      PROVE  QueueTypes'
  <2>1. ASSUME send[c] # <<>>
        PROVE  /\ Tail(send[c]) \in Seq(Message) /\ Len(Tail(send[c])) <= SendCap
               /\ Append(delivered[c], Head(send[c])) \in Seq(Message)
    <3>1. /\ Head(send[c]) \in Message /\ Tail(send[c]) \in Seq(Message)
          /\ Len(Tail(send[c])) = Len(send[c]) - 1
      BY <2>1, HeadTailProperties
    <3>2. Len(send[c]) \in Nat
      BY LenProperties
    <3>3. QED
      BY <3>1, <3>2, AppendProperties
  <2>2. CASE Write(c)
    BY <2>1, <2>2 DEF Write, hubVars
  <2>3. CASE WriterEnds(c)
    BY <2>1, <2>3, ZenonT(60) DEF WriterEnds, hubVars
  <2>4. QED
    BY <1>5, <2>2, <2>3
<1>6. CASE UNCHANGED vars
  BY <1>6 DEF vars, hubVars, connVars
<1>7. QED
  BY <1>1, <1>2, <1>3, <1>4, <1>5, <1>6 DEF Next

\* Every variable of the hub keeps its type; no channel holds more than it can.
THEOREM TypeCorrect == Spec => []TypeOK
<1>1. Init => QueueTypes
  BY ConstantsAssumption, EmptySeq DEF Init, QueueTypes, TypeOK
<1>2. QueueTypes => TypeOK
  BY DEF QueueTypes
<1>3. QED
  BY <1>1, <1>2, QueueTypesStep, PTL DEF Spec

-----------------------------------------------------------------------------
(* The order of the notifications *)

\* Taking from one queue and adding to the other.
LEMMA Moved ==
  ASSUME NEW d \in Seq(Message), NEW s \in Seq(Message), s # <<>>
  PROVE  Append(d, Head(s)) \o Tail(s) = d \o s
<1>1. /\ Head(s) \in Message /\ Tail(s) \in Seq(Message) /\ Len(Tail(s)) = Len(s) - 1
      /\ \A i \in 1..Len(Tail(s)) : Tail(s)[i] = s[i + 1]
      /\ Head(s) = s[1]
  BY HeadTailProperties
<1>2. Len(s) \in Nat /\ Len(d) \in Nat
  BY LenProperties
<1> DEFINE e == Append(d, Head(s))
<1>3. /\ e \in Seq(Message) /\ Len(e) = Len(d) + 1
      /\ \A i \in 1..Len(d) : e[i] = d[i]
      /\ e[Len(d) + 1] = s[1]
  BY <1>1, AppendProperties
<1> HIDE DEF e
<1>4. /\ e \o Tail(s) \in Seq(Message) /\ d \o s \in Seq(Message)
      /\ Len(e \o Tail(s)) = Len(d) + Len(s) /\ Len(d \o s) = Len(d) + Len(s)
  <2>1. /\ e \o Tail(s) \in Seq(Message) /\ d \o s \in Seq(Message)
        /\ Len(e \o Tail(s)) = Len(e) + Len(Tail(s)) /\ Len(d \o s) = Len(d) + Len(s)
    BY <1>1, <1>3, ConcatProperties
  <2>2. QED
    BY <1>1, <1>2, <1>3, <2>1
<1>5. ASSUME NEW i \in 1..Len(d) + Len(s)
      PROVE  (e \o Tail(s))[i] = (d \o s)[i]
  <2> i \in Nat
    BY <1>2
  <2>1. /\ (d \o s)[i] = IF i <= Len(d) THEN d[i] ELSE s[i - Len(d)]
        /\ (e \o Tail(s))[i] = IF i <= Len(e) THEN e[i] ELSE Tail(s)[i - Len(e)]
    BY <1>1, <1>2, <1>3, ConcatProperties, SMTT(30)
  <2>2. CASE i <= Len(d)
    BY <1>2, <1>3, <2>1, <2>2
  <2>3. CASE i = Len(d) + 1
    BY <1>2, <1>3, <2>1, <2>3
  <2>4. CASE i > Len(d) + 1
    <3>1. i - Len(e) \in 1..Len(Tail(s)) /\ (i - Len(e)) + 1 = i - Len(d)
      BY <1>1, <1>2, <1>3, <2>4
    <3>2. QED
      BY <1>1, <1>2, <1>3, <2>1, <2>4, <3>1
  <2>5. i <= Len(d) \/ i = Len(d) + 1 \/ i > Len(d) + 1
    BY <1>2
  <2>6. QED
    BY <2>2, <2>3, <2>4, <2>5
<1>6. QED
  BY <1>4, <1>5, SeqEqual DEF e

\* Adding to the second of two queues.
LEMMA Added ==
  ASSUME NEW d \in Seq(Message), NEW s \in Seq(Message), NEW m \in Message
  PROVE  /\ Len(d \o Append(s, m)) = Len(d \o s) + 1
         /\ \A i \in 1..Len(d \o s) : (d \o Append(s, m))[i] = (d \o s)[i]
         /\ (d \o Append(s, m))[Len(d \o s) + 1] = m
<1> DEFINE t == Append(s, m)
<1>1. /\ t \in Seq(Message) /\ Len(t) = Len(s) + 1
      /\ \A i \in 1..Len(s) : t[i] = s[i]
      /\ t[Len(s) + 1] = m
  BY AppendProperties
<1>2. Len(s) \in Nat /\ Len(d) \in Nat
  BY LenProperties
<1> HIDE DEF t
<1>3. /\ Len(d \o s) = Len(d) + Len(s) /\ Len(d \o t) = Len(d) + Len(s) + 1
      /\ \A i \in 1..Len(d) + Len(s) : (d \o s)[i] = IF i <= Len(d) THEN d[i] ELSE s[i - Len(d)]
      /\ \A i \in 1..Len(d) + Len(s) + 1 : (d \o t)[i] = IF i <= Len(d) THEN d[i] ELSE t[i - Len(d)]
  BY <1>1, <1>2, ConcatProperties
<1>4. (d \o t)[Len(d \o s) + 1] = m
  BY <1>1, <1>2, <1>3
<1>5. \A i \in 1..Len(d \o s) : (d \o t)[i] = (d \o s)[i]
  BY <1>1, <1>2, <1>3, SMTT(30)
<1>6. QED
  BY <1>2, <1>3, <1>4, <1>5 DEF t

\* Dropping the head of the second of two queues.
LEMMA Dropped ==
  ASSUME NEW d \in Seq(Message), NEW s \in Seq(Message), s # <<>>
  PROVE  /\ Len(d \o Tail(s)) = Len(d \o s) - 1
         /\ \A i \in 1..Len(d \o Tail(s)) :
              (d \o Tail(s))[i] = IF i <= Len(d) THEN (d \o s)[i] ELSE (d \o s)[i + 1]
<1>1. /\ Tail(s) \in Seq(Message) /\ Len(Tail(s)) = Len(s) - 1
      /\ \A i \in 1..Len(Tail(s)) : Tail(s)[i] = s[i + 1]
  BY HeadTailProperties
<1>2. Len(s) \in Nat /\ Len(d) \in Nat
  BY LenProperties
<1>3. /\ Len(d \o s) = Len(d) + Len(s) /\ Len(d \o Tail(s)) = Len(d) + Len(s) - 1
      /\ \A i \in 1..Len(d) + Len(s) : (d \o s)[i] = IF i <= Len(d) THEN d[i] ELSE s[i - Len(d)]
      /\ \A i \in 1..Len(d) + (Len(s) - 1) :
           (d \o Tail(s))[i] = IF i <= Len(d) THEN d[i] ELSE Tail(s)[i - Len(d)]
  BY <1>1, <1>2, ConcatProperties
<1>4. ASSUME NEW i \in 1..Len(d \o Tail(s))
      PROVE  (d \o Tail(s))[i] = IF i <= Len(d) THEN (d \o s)[i] ELSE (d \o s)[i + 1]
  <2>1. CASE i <= Len(d)
    BY <1>2, <1>3, <2>1
  <2>2. CASE i > Len(d)
    <3>1. i - Len(d) \in 1..Len(Tail(s)) /\ (i - Len(d)) + 1 = (i + 1) - Len(d)
      BY <1>1, <1>2, <1>3, <2>2
    <3>2. QED
      BY <1>1, <1>2, <1>3, <2>2, <3>1
  <2>3. QED
    BY <1>2, <2>1, <2>2
<1>5. QED
  BY <1>2, <1>3, <1>4

\* What waits in broadcast was sent, to whom it names, and waits in the order it
\* was sent.
Waiting ==
    \A i \in 1..Len(broadcast) :
        LET b == broadcast[i] IN
        /\ b.message <= Len(sent)
        /\ sent[b.message] = b.user
        /\ \A j \in 1..(i - 1) : broadcast[j].message < b.message

\* Only what was sent is carried.
CarriedWasSent ==
    \A c \in Conns : \A i \in 1..Len(Carried(c)) : Carried(c)[i] <= Len(sent)

Ordered == Waiting /\ CarriedWasSent /\ InOrder

LEMMA NotificationParts ==
  ASSUME NEW s \in Seq(Notification), NEW i \in 1..Len(s)
  PROVE  s[i].message \in Message /\ s[i].user \in Users
<1>1. s[i] \in Notification
  BY ElementOfSeq
<1>2. QED
  BY <1>1 DEF Notification

LEMMA CarriedTypes ==
  ASSUME QueueTypes, NEW c \in Conns
  PROVE  /\ Len(Carried(c)) \in Nat
         /\ \A i \in 1..Len(Carried(c)) : Carried(c)[i] \in Message
<1>1. Carried(c) \in Seq(Message)
  BY ConcatProperties DEF QueueTypes, Carried
<1>2. QED
  BY <1>1, LenProperties, ElementOfSeq

\* A step that adds nothing to a queue and changes no user.
LEMMA OrderKept ==
  ASSUME Ordered, UNCHANGED <<broadcast, user, sent>>,
         \A c \in Conns : Carried(c)' = Carried(c)
  PROVE  Ordered'
  BY DEF Ordered, Waiting, CarriedWasSent, InOrder

LEMMA OrderSent ==
  ASSUME QueueTypes, Ordered, NEW u \in Users, SendToUser(u)
  PROVE  Ordered'
<1>1. /\ Len(sent) \in Nat /\ Len(sent') = Len(sent) + 1
      /\ \A n \in 1..Len(sent) : sent'[n] = sent[n]
      /\ sent'[Len(sent) + 1] = u
  BY AppendProperties, LenProperties DEF SendToUser, QueueTypes, TypeOK
<1> DEFINE b == [user |-> u, message |-> Len(sent) + 1]
<1>2. b \in Notification /\ broadcast' = Append(broadcast, b) /\ broadcast \in Seq(Notification)
  BY <1>1 DEF SendToUser, Notification, Message, QueueTypes
<1>3. b.user = u /\ b.message = Len(sent) + 1
  OBVIOUS
<1> HIDE DEF b
<1>4. /\ Len(broadcast) \in Nat /\ Len(broadcast') = Len(broadcast) + 1
      /\ \A i \in 1..Len(broadcast) : broadcast'[i] = broadcast[i]
      /\ broadcast'[Len(broadcast) + 1] = b
  BY <1>2, AppendProperties, LenProperties
<1>5. \A i \in 1..Len(broadcast) : broadcast[i].message \in Message
  BY <1>2, NotificationParts
<1>6. Waiting'
  <2>1. ASSUME NEW i \in 1..Len(broadcast) + 1
        PROVE  /\ broadcast'[i].message <= Len(sent')
               /\ sent'[broadcast'[i].message] = broadcast'[i].user
               /\ \A j \in 1..(i - 1) : broadcast'[j].message < broadcast'[i].message
    <3>1. CASE i \in 1..Len(broadcast)
      <4>1. /\ broadcast[i].message \in 1..Len(sent)
            /\ sent[broadcast[i].message] = broadcast[i].user
            /\ \A j \in 1..(i - 1) : broadcast[j].message < broadcast[i].message
        BY <1>1, <1>5, <3>1 DEF Ordered, Waiting, Message
      <4>2. \A j \in 1..(i - 1) : j \in 1..Len(broadcast)
        BY <1>4, <3>1
      <4>3. broadcast'[i] = broadcast[i] /\ \A j \in 1..(i - 1) : broadcast'[j] = broadcast[j]
        BY <1>4, <3>1, <4>2
      <4>4. broadcast[i].message \in 1..Len(sent)
        BY <4>1
      <4>5. broadcast[i].message <= Len(sent') /\ sent'[broadcast[i].message] = sent[broadcast[i].message]
        BY <1>1, <4>4
      <4>6. \A j \in 1..(i - 1) : broadcast'[j].message < broadcast'[i].message
        BY <4>1, <4>3, Zenon
      <4>7. QED
        BY <4>1, <4>3, <4>5, <4>6, Zenon
    <3>2. CASE i = Len(broadcast) + 1
      BY <1>1, <1>3, <1>4, <1>5, <3>2 DEF Ordered, Waiting, Message
    <3>3. QED
      BY <1>4, <3>1, <3>2
  <2>2. QED
    BY <1>4, <2>1 DEF Waiting
<1>7. /\ user' = user
      /\ \A c \in Conns : Carried(c)' = Carried(c)
  BY DEF SendToUser, connVars, Carried
<1>8. \A c \in Conns : /\ Len(Carried(c)) \in Nat
                       /\ \A i \in 1..Len(Carried(c)) : Carried(c)[i] \in Message
  BY CarriedTypes
<1>9. ASSUME NEW c \in Conns, NEW i \in 1..Len(Carried(c))
      PROVE  /\ Carried(c)[i] <= Len(sent) + 1
             /\ sent'[Carried(c)[i]] = user[c]
             /\ \A j \in 1..(i - 1) : Carried(c)[j] < Carried(c)[i]
             /\ \A j \in 1..Len(broadcast) + 1 : Carried(c)[i] < broadcast'[j].message
  <2>1. /\ Carried(c)[i] \in 1..Len(sent)
        /\ sent[Carried(c)[i]] = user[c]
        /\ \A j \in 1..(i - 1) : Carried(c)[j] < Carried(c)[i]
        /\ \A j \in 1..Len(broadcast) : Carried(c)[i] < broadcast[j].message
    BY <1>1, <1>8 DEF Ordered, CarriedWasSent, InOrder, Message
  <2>2. \A j \in 1..Len(broadcast) + 1 : j \in 1..Len(broadcast) \/ j = Len(broadcast) + 1
    BY <1>4
  <2>3. QED
    BY <1>1, <1>3, <1>4, <2>1, <2>2, SMTT(30)
<1>10. CarriedWasSent' /\ InOrder'
  BY <1>1, <1>4, <1>7, <1>9 DEF CarriedWasSent, InOrder
<1>11. QED
  BY <1>6, <1>10 DEF Ordered

\* A notification that is dispatched is the last of what its client carries.
LEMMA DispatchCarries ==
  ASSUME QueueTypes, Dispatch, NEW c \in Conns,
         send' = [send EXCEPT ![c] = Append(@, Head(broadcast).message)]
  PROVE  /\ \A x \in Conns \ {c} : Carried(x)' = Carried(x)
         /\ Len(Carried(c)') = Len(Carried(c)) + 1
         /\ \A i \in 1..Len(Carried(c)) : Carried(c)'[i] = Carried(c)[i]
         /\ Carried(c)'[Len(Carried(c)) + 1] = Head(broadcast).message
<1> DEFINE m == Head(broadcast).message
           x == delivered[c] \o send[c]
           y == delivered[c] \o Append(send[c], m)
<1>1. m \in Message /\ UNCHANGED delivered
  BY DispatchStep
<1>2. send \in [Conns -> Seq(Message)] /\ delivered \in [Conns -> Seq(Message)]
  BY DEF QueueTypes
<1>3. send'[c] = Append(send[c], m) /\ \A d \in Conns \ {c} : send'[d] = send[d]
  BY <1>2
<1>4. Carried(c) = x /\ Carried(c)' = y
  BY <1>1, <1>3 DEF Carried
<1>5. \A d \in Conns \ {c} : Carried(d)' = Carried(d)
  BY <1>1, <1>3 DEF Carried
<1>6. send[c] \in Seq(Message) /\ delivered[c] \in Seq(Message)
  BY <1>2
<1> HIDE DEF m
<1>7. /\ Len(y) = Len(x) + 1
      /\ \A i \in 1..Len(x) : y[i] = x[i]
      /\ y[Len(x) + 1] = m
  BY <1>1, <1>6, Added, Zenon
<1> HIDE DEF x, y
<1>8. QED
  BY <1>4, <1>5, <1>7 DEF m

\* A notification that is lost with a write leaves a gap.
LEMMA EndCarries ==
  ASSUME QueueTypes, NEW c \in Conns, send[c] # <<>>, UNCHANGED delivered,
         send' = [send EXCEPT ![c] = Tail(@)]
  PROVE  /\ \A x \in Conns \ {c} : Carried(x)' = Carried(x)
         /\ Len(Carried(c)') = Len(Carried(c)) - 1
         /\ \A i \in 1..Len(Carried(c)') :
              Carried(c)'[i] = IF i <= Len(delivered[c]) THEN Carried(c)[i]
                                                         ELSE Carried(c)[i + 1]
<1> DEFINE x == delivered[c] \o send[c]
           y == delivered[c] \o Tail(send[c])
<1>1. send \in [Conns -> Seq(Message)] /\ delivered \in [Conns -> Seq(Message)]
  BY DEF QueueTypes
<1>2. send'[c] = Tail(send[c]) /\ \A d \in Conns \ {c} : send'[d] = send[d]
  BY <1>1
<1>3. Carried(c) = x /\ Carried(c)' = y
  BY <1>2 DEF Carried
<1>4. \A d \in Conns \ {c} : Carried(d)' = Carried(d)
  BY <1>2 DEF Carried
<1>5. send[c] \in Seq(Message) /\ delivered[c] \in Seq(Message)
  BY <1>1
<1>6. /\ Len(y) = Len(x) - 1
      /\ \A i \in 1..Len(y) :
           y[i] = IF i <= Len(delivered[c]) THEN x[i] ELSE x[i + 1]
  BY <1>5, Dropped, Zenon
<1> HIDE DEF x, y
<1>7. QED
  BY <1>3, <1>4, <1>6

LEMMA OrderDispatched ==
  ASSUME QueueTypes, Wired, Ordered, Dispatch
  PROVE  Ordered'
<1> DEFINE b == Head(broadcast)
<1>1. /\ broadcast # <<>> /\ broadcast \in Seq(Notification) /\ broadcast' = Tail(broadcast)
      /\ UNCHANGED <<clients, user, delivered, sent>>
      /\ b.message \in Message
  BY DispatchStep DEF QueueTypes
<1>2. /\ Len(broadcast) \in Nat \ {0} /\ Len(broadcast') = Len(broadcast) - 1
      /\ \A i \in 1..Len(broadcast') : broadcast'[i] = broadcast[i + 1]
      /\ b = broadcast[1]
  <2>1. Len(broadcast) \in Nat \ {0}
    BY <1>1, EmptySeq
  <2>2. /\ Len(Tail(broadcast)) = Len(broadcast) - 1
        /\ \A i \in 1..Len(Tail(broadcast)) : Tail(broadcast)[i] = broadcast[i + 1]
    BY <1>1, HeadTailProperties
  <2>3. QED
    BY <1>1, <2>1, <2>2
<1>3. \A i \in 1..Len(broadcast) : broadcast[i].message \in Message
  BY <1>1, NotificationParts
<1> HIDE DEF b
<1>4. Waiting'
  BY <1>1, <1>2, <1>3 DEF Ordered, Waiting, Message
<1>5. \A i \in 1..Len(broadcast') : b.message < broadcast'[i].message
  BY <1>2 DEF Ordered, Waiting
<1>6. b.message <= Len(sent) /\ sent[b.message] = b.user
  BY <1>2 DEF Ordered, Waiting
<1>7. CASE UNCHANGED send
  <2>1. \A c \in Conns : Carried(c)' = Carried(c)
    BY <1>1, <1>7 DEF Carried
  <2>2. QED
    BY <1>1, <1>2, <1>4, <2>1 DEF Ordered, CarriedWasSent, InOrder
<1>8. ASSUME NEW c \in Conns, c = clients[b.user],
             send' = [send EXCEPT ![c] = Append(@, b.message)]
      PROVE  Ordered'
  <2>1. user[c] = b.user
    <3>1. b \in Notification
      BY <1>1, <1>2, ElementOfSeq
    <3>2. b.user \in Users
      BY <3>1 DEF Notification
    <3>3. QED
      BY <1>8, <3>2, ConstantsAssumption DEF Wired
  <2> DEFINE old == Carried(c)
             new == Carried(c)'
  <2>2. /\ Len(old) \in Nat /\ Len(new) = Len(old) + 1
        /\ \A i \in 1..Len(old) : new[i] = old[i]
        /\ new[Len(old) + 1] = b.message
    BY <1>8, CarriedTypes, DispatchCarries DEF b
  <2>3. \A i \in 1..Len(old) : old[i] < b.message /\ old[i] <= Len(sent) /\ sent[old[i]] = user[c]
    BY <1>2 DEF Ordered, CarriedWasSent, InOrder
  <2>4. \A x \in Conns \ {c} : Carried(x)' = Carried(x)
    BY <1>8, DispatchCarries DEF b
  <2>5. ASSUME NEW i \in 1..Len(new)
        PROVE  /\ new[i] <= Len(sent) /\ sent[new[i]] = user[c]
               /\ \A j \in 1..(i - 1) : new[j] < new[i]
               /\ \A j \in 1..Len(broadcast') : new[i] < broadcast'[j].message
    <3>1. CASE i \in 1..Len(old)
      <4>1. /\ \A j \in 1..(i - 1) : old[j] < old[i]
            /\ \A j \in 1..Len(broadcast) : old[i] < broadcast[j].message
        BY <3>1 DEF Ordered, InOrder
      <4>2. \A j \in 1..Len(broadcast') : j + 1 \in 1..Len(broadcast)
        BY <1>2
      <4>3. \A j \in 1..(i - 1) : j \in 1..Len(old)
        BY <2>2, <3>1
      <4> HIDE DEF old, new
      <4>4. QED
        BY <1>2, <2>2, <2>3, <3>1, <4>1, <4>2, <4>3
    <3>2. CASE i = Len(old) + 1
      <4>1. \A j \in 1..(i - 1) : j \in 1..Len(old)
        BY <2>2, <3>2
      <4> HIDE DEF old, new
      <4>2. QED
        BY <1>5, <1>6, <2>1, <2>2, <2>3, <3>2, <4>1
    <3> HIDE DEF old, new
    <3>3. QED
      BY <2>2, <3>1, <3>2
  <2>6. CarriedWasSent'
    BY <1>1, <2>4, <2>5 DEF Ordered, CarriedWasSent
  <2>7. InOrder'
    <3>1. ASSUME NEW x \in Conns \ {c}, NEW i \in 1..Len(Carried(x))
          PROVE  \A j \in 1..Len(broadcast') : Carried(x)[i] < broadcast'[j].message
      <4>1. \A j \in 1..Len(broadcast) : Carried(x)[i] < broadcast[j].message
        BY DEF Ordered, InOrder
      <4>2. \A j \in 1..Len(broadcast') : j + 1 \in 1..Len(broadcast)
        BY <1>2
      <4>3. QED
        BY <1>2, <4>1, <4>2
    <3>2. ASSUME NEW x \in Conns \ {c}, NEW i \in 1..Len(Carried(x))
          PROVE  sent[Carried(x)[i]] = user[x] /\ \A j \in 1..(i - 1) : Carried(x)[j] < Carried(x)[i]
      BY DEF Ordered, InOrder
    <3>3. QED
      BY <1>1, <2>4, <2>5, <3>1, <3>2 DEF InOrder
  <2>8. QED
    BY <1>4, <2>6, <2>7 DEF Ordered
<1>9. QED
  BY <1>7, <1>8, DispatchStep DEF b

LEMMA OrderWritten ==
  ASSUME QueueTypes, Ordered, NEW c \in Conns, Write(c)
  PROVE  Ordered'
<1>1. /\ send[c] # <<>> /\ UNCHANGED <<broadcast, user, sent>>
      /\ delivered'[c] = Append(delivered[c], Head(send[c])) /\ send'[c] = Tail(send[c])
      /\ \A x \in Conns \ {c} : delivered'[x] = delivered[x] /\ send'[x] = send[x]
  BY DEF Write, hubVars, QueueTypes
<1>2. send[c] \in Seq(Message) /\ delivered[c] \in Seq(Message)
  BY DEF QueueTypes
<1>3. delivered'[c] \o send'[c] = delivered[c] \o send[c]
  BY <1>1, <1>2, Moved
<1>4. \A x \in Conns : Carried(x)' = Carried(x)
  BY <1>1, <1>3 DEF Carried
<1>5. QED
  BY <1>1, <1>4, OrderKept

LEMMA OrderDropped ==
  ASSUME QueueTypes, Ordered, NEW c \in Conns, WriterEnds(c)
  PROVE  Ordered'
<1>1. UNCHANGED <<broadcast, user, sent, delivered>>
  BY DEF WriterEnds, hubVars
<1>2. CASE UNCHANGED send
  <2>1. \A x \in Conns : Carried(x)' = Carried(x)
    BY <1>1, <1>2 DEF Carried
  <2>2. QED
    BY <1>1, <2>1, OrderKept
<1>3. CASE send[c] # <<>> /\ send' = [send EXCEPT ![c] = Tail(@)]
  <2> DEFINE old == Carried(c)
             new == Carried(c)'
             d == Len(delivered[c])
  <2>1. /\ Len(old) \in Nat /\ Len(new) = Len(old) - 1 /\ d \in Nat
        /\ \A i \in 1..Len(new) : new[i] = IF i <= d THEN old[i] ELSE old[i + 1]
    <3>1. d \in Nat
      BY LenProperties DEF QueueTypes
    <3>2. QED
      BY <1>1, <1>3, <3>1, CarriedTypes, EndCarries
  <2>2. \A i \in 1..Len(old) :
          /\ old[i] <= Len(sent) /\ sent[old[i]] = user[c]
          /\ \A j \in 1..(i - 1) : old[j] < old[i]
          /\ \A j \in 1..Len(broadcast) : old[i] < broadcast[j].message
    BY DEF Ordered, CarriedWasSent, InOrder
  <2>3. \A x \in Conns \ {c} : Carried(x)' = Carried(x)
    BY <1>1, <1>3, EndCarries
  <2>4. ASSUME NEW i \in 1..Len(new)
        PROVE  /\ new[i] <= Len(sent) /\ sent[new[i]] = user[c]
               /\ \A j \in 1..(i - 1) : new[j] < new[i]
               /\ \A j \in 1..Len(broadcast) : new[i] < broadcast[j].message
    <3> HIDE DEF old, new, d
    <3> DEFINE at(k) == IF k <= d THEN k ELSE k + 1
    <3>1. at(i) \in 1..Len(old) /\ new[i] = old[at(i)]
      BY <2>1
    <3>2. \A j \in 1..(i - 1) : at(j) \in 1..(at(i) - 1) /\ new[j] = old[at(j)]
      BY <2>1
    <3> HIDE DEF at
    <3>3. QED
      BY <2>2, <3>1, <3>2
  <2>5. CarriedWasSent' /\ InOrder'
    BY <1>1, <2>3, <2>4 DEF Ordered, CarriedWasSent, InOrder
  <2>6. Waiting'
    BY <1>1 DEF Ordered, Waiting
  <2>7. QED
    BY <2>5, <2>6 DEF Ordered
<1>4. QED
  BY <1>2, <1>3 DEF WriterEnds

LEMMA OrderStep == QueueTypes /\ Wired /\ Ordered /\ [Next]_vars => Ordered'
<1> SUFFICES ASSUME QueueTypes, Wired, Ordered, [Next]_vars PROVE Ordered'
  OBVIOUS
<1>1. ASSUME NEW c \in Conns,
             Register(c) \/ Unregister(c) \/ Upgrade(c) \/ StartPumps(c)
               \/ ReaderLeaves(c) \/ ReaderCloses(c)
      PROVE  Ordered'
  <2>1. UNCHANGED <<broadcast, user, sent, delivered, send>>
    BY <1>1 DEF Register, Unregister, Upgrade, StartPumps, ReaderLeaves, ReaderCloses,
                hubVars
  <2>2. QED
    BY <2>1, OrderKept DEF Carried
<1>2. CASE UNCHANGED vars
  <2>1. UNCHANGED <<broadcast, user, sent, delivered, send>>
    BY <1>2 DEF vars, hubVars, connVars
  <2>2. QED
    BY <2>1, OrderKept DEF Carried
<1>3. QED
  BY <1>1, <1>2, OrderDispatched, OrderSent, OrderWritten, OrderDropped DEF Next

LEMMA OrderInit == Init => Inv /\ QueueTypes /\ Ordered
<1> SUFFICES ASSUME Init PROVE Inv /\ QueueTypes /\ Ordered
  OBVIOUS
<1>1. Inv
  BY ConstantsAssumption DEF Init, Inv, Typed, Wired, OpenIffInMap, Registered
<1>2. QueueTypes
  BY ConstantsAssumption, EmptySeq DEF Init, QueueTypes, TypeOK
<1>3. \A c \in Conns : Len(Carried(c)) = 0
  <2>1. \A c \in Conns : Carried(c) = <<>> \o <<>>
    BY DEF Init, Carried
  <2>2. <<>> \o <<>> = <<>>
    BY EmptySeq, ConcatEmptySeq
  <2>3. QED
    BY <2>1, <2>2, EmptySeq
<1>4. Ordered
  BY <1>3, EmptySeq DEF Init, Ordered, Waiting, CarriedWasSent, InOrder
<1>5. QED
  BY <1>1, <1>2, <1>4

\* A connection carries the notifications of its own user only, in the order
\* they were sent, however connections come, are replaced and break.
THEOREM DeliveredInOrder == Spec => []InOrder
<1>1. Inv /\ QueueTypes /\ Ordered => InOrder /\ Wired
  BY DEF Inv, Ordered
<1>2. QED
  BY <1>1, OrderInit, InvStep, QueueTypesStep, OrderStep, PTL DEF Spec

-----------------------------------------------------------------------------
(* The hub is an Inbox *)

\* What one connection carries no other does, whatever user it is of.
Apart ==
    \A c, d \in Conns : c # d =>
        \A i \in 1..Len(Carried(c)), j \in 1..Len(Carried(d)) :
            Carried(c)[i] # Carried(d)[j]

\* A notification that is dispatched comes after all that any connection carries.
LEMMA ApartDispatched ==
  ASSUME QueueTypes, InOrder, Apart, Dispatch
  PROVE  Apart'
<1>1. CASE UNCHANGED send
  <2>1. \A x \in Conns : Carried(x)' = Carried(x)
    BY <1>1, DispatchStep DEF Carried
  <2>2. QED
    BY <2>1 DEF Apart
<1>2. ASSUME NEW c \in Conns,
             send' = [send EXCEPT ![c] = Append(@, Head(broadcast).message)]
      PROVE  Apart'
  <2> DEFINE m == Head(broadcast).message
  <2>1. /\ \A x \in Conns \ {c} : Carried(x)' = Carried(x)
        /\ Len(Carried(c)) \in Nat
        /\ Len(Carried(c)') = Len(Carried(c)) + 1
        /\ \A i \in 1..Len(Carried(c)) : Carried(c)'[i] = Carried(c)[i]
        /\ Carried(c)'[Len(Carried(c)) + 1] = m
    BY <1>2, DispatchCarries, CarriedTypes
  <2>2. broadcast # <<>> /\ broadcast \in Seq(Notification) /\ m \in Nat
    BY DispatchStep DEF QueueTypes, Message
  <2>3. Head(broadcast) = broadcast[1] /\ Len(broadcast) \in Nat \ {0}
    BY <2>2, HeadTailProperties, EmptySeq
  <2> HIDE DEF m
  <2>4. \A x \in Conns : \A i \in 1..Len(Carried(x)) : Carried(x)[i] \in Nat /\ Carried(x)[i] < m
    BY <2>3, CarriedTypes DEF InOrder, Message, m
  <2>5. \A i \in 1..Len(Carried(c)') :
          \/ i \in 1..Len(Carried(c)) /\ Carried(c)'[i] = Carried(c)[i]
          \/ Carried(c)'[i] = m
    BY <2>1
  <2>6. ASSUME NEW d \in Conns \ {c},
               NEW i \in 1..Len(Carried(c)'), NEW j \in 1..Len(Carried(d))
        PROVE  Carried(c)'[i] # Carried(d)[j]
    BY <2>2, <2>4, <2>5 DEF Apart
  <2>7. QED
    BY <2>1, <2>6 DEF Apart
<1>3. QED
  BY <1>1, <1>2, DispatchStep

LEMMA ApartStep ==
  ASSUME QueueTypes, InOrder, Apart, [Next]_vars
  PROVE  Apart'
<1>1. CASE Dispatch
  BY <1>1, ApartDispatched
<1>2. ASSUME NEW c \in Conns, Write(c)
      PROVE  Apart'
  <2>1. /\ send[c] # <<>>
        /\ delivered'[c] = Append(delivered[c], Head(send[c])) /\ send'[c] = Tail(send[c])
        /\ \A x \in Conns \ {c} : delivered'[x] = delivered[x] /\ send'[x] = send[x]
        /\ send[c] \in Seq(Message) /\ delivered[c] \in Seq(Message)
    BY <1>2 DEF Write, QueueTypes
  <2>2. delivered'[c] \o send'[c] = delivered[c] \o send[c]
    BY <2>1, Moved
  <2>3. \A x \in Conns : Carried(x)' = Carried(x)
    BY <2>1, <2>2 DEF Carried
  <2>4. QED
    BY <2>3 DEF Apart
<1>3. ASSUME NEW c \in Conns, send[c] # <<>>, UNCHANGED delivered,
             send' = [send EXCEPT ![c] = Tail(@)]
      PROVE  Apart'
  <2>1. /\ \A x \in Conns \ {c} : Carried(x)' = Carried(x)
        /\ Len(Carried(c)) \in Nat
        /\ Len(Carried(c)') = Len(Carried(c)) - 1
        /\ \A i \in 1..Len(Carried(c)') :
             Carried(c)'[i] \in {Carried(c)[i], Carried(c)[i + 1]}
    BY <1>3, EndCarries, CarriedTypes
  <2>2. \A i \in 1..Len(Carried(c)') : \E k \in 1..Len(Carried(c)) :
          Carried(c)'[i] = Carried(c)[k]
    BY <2>1
  <2>3. QED
    BY <2>1, <2>2 DEF Apart
<1>4. CASE UNCHANGED <<delivered, send>>
  <2>1. \A x \in Conns : Carried(x)' = Carried(x)
    BY <1>4 DEF Carried
  <2>2. QED
    BY <2>1 DEF Apart
<1>5. QED
  BY <1>1, <1>2, <1>3, <1>4
     DEF Next, SendToUser, Register, Unregister, Upgrade, StartPumps, WriterEnds,
         ReaderLeaves, ReaderCloses, vars, hubVars, connVars

\* The two parts of a queue made of two.
LEMMA Joined ==
  ASSUME NEW d \in Seq(Message), NEW s \in Seq(Message)
  PROVE  /\ Len(d) \in Nat
         /\ \A i \in 1..Len(d) : i \in 1..Len(d \o s) /\ d[i] = (d \o s)[i]
         /\ s # <<>> => /\ Len(d) + 1 \in 1..Len(d \o s)
                       /\ Head(s) = (d \o s)[Len(d) + 1]
<1>1. Len(s) \in Nat /\ Len(d) \in Nat
  BY LenProperties
<1>2. /\ Len(d \o s) = Len(d) + Len(s)
      /\ \A i \in 1..Len(d) + Len(s) :
           (d \o s)[i] = IF i <= Len(d) THEN d[i] ELSE s[i - Len(d)]
  BY ConcatProperties
<1>3. s # <<>> => Len(s) \in Nat \ {0} /\ Head(s) = s[1]
  BY EmptySeq, HeadTailProperties
<1>4. \A i \in 1..Len(d) : i \in 1..Len(d \o s) /\ d[i] = (d \o s)[i]
  BY <1>1, <1>2
<1>5. ASSUME s # <<>>
      PROVE  Len(d) + 1 \in 1..Len(d \o s) /\ Head(s) = (d \o s)[Len(d) + 1]
  <2>1. /\ Len(d) + 1 \in 1..Len(d) + Len(s)
        /\ ~(Len(d) + 1 <= Len(d)) /\ (Len(d) + 1) - Len(d) = 1
    BY <1>1, <1>3, <1>5
  <2>2. QED
    BY <1>2, <1>3, <1>5, <2>1
<1>6. QED
  BY <1>1, <1>4, <1>5

\* What was written is carried, and so is what is written next.
LEMMA WrittenIsCarried ==
  ASSUME QueueTypes, NEW c \in Conns
  PROVE  /\ Len(delivered[c]) \in Nat
         /\ \A i \in 1..Len(delivered[c]) :
              i \in 1..Len(Carried(c)) /\ delivered[c][i] = Carried(c)[i]
         /\ send[c] # <<>> =>
              /\ Len(delivered[c]) + 1 \in 1..Len(Carried(c))
              /\ Head(send[c]) = Carried(c)[Len(delivered[c]) + 1]
<1>1. send[c] \in Seq(Message) /\ delivered[c] \in Seq(Message)
  BY DEF QueueTypes
<1>2. QED
  BY <1>1, Joined, Zenon DEF Carried

LEMMA InboxStep ==
  ASSUME QueueTypes, Ordered, Apart, [Next]_vars
  PROVE  [Inboxes!Next]_(Inboxes!vars)
<1>1. ASSUME NEW u \in Users, SendToUser(u)
      PROVE  Inboxes!Next
  BY <1>1 DEF SendToUser, connVars, Inboxes!Next, Inboxes!Send
<1>2. ASSUME NEW c \in Conns, Write(c)
      PROVE  Inboxes!Next
  <2> DEFINE n == Head(send[c])
             k == Len(delivered[c]) + 1
  <2>1. /\ send[c] # <<>>
        /\ delivered' = [delivered EXCEPT ![c] = Append(@, n)]
        /\ UNCHANGED <<user, sent>>
    BY <1>2 DEF Write, hubVars
  <2>2. k \in 1..Len(Carried(c)) /\ n = Carried(c)[k] /\ Len(delivered[c]) \in Nat
    BY <2>1, WrittenIsCarried
  <2>3. n \in 1..Len(sent) /\ Len(sent) \in Nat
    BY <2>2, CarriedTypes, LenProperties
       DEF Ordered, CarriedWasSent, Message, QueueTypes, TypeOK
  <2>4. n \in DOMAIN sent
    BY <2>3, LenProperties DEF QueueTypes, TypeOK
  <2>5. sent[n] = user[c]
    BY <2>2 DEF Ordered, InOrder
  <2>6. \A d \in Conns : DOMAIN delivered[d] = 1..Len(delivered[d])
    BY LenProperties DEF QueueTypes
  <2>7. ASSUME NEW m \in Inboxes!Heard(c) PROVE m < n
    <3>1. PICK i \in 1..Len(delivered[c]) : m = delivered[c][i]
      BY <2>6, <2>7 DEF Inboxes!Heard
    <3>2. m = Carried(c)[i] /\ i \in 1..(k - 1)
      BY <2>2, <3>1, WrittenIsCarried
    <3>3. QED
      BY <2>2, <3>2 DEF Ordered, InOrder
  <2>8. ASSUME NEW d \in Conns \ {c}, n \in Inboxes!Heard(d) PROVE FALSE
    <3>1. PICK i \in 1..Len(delivered[d]) : n = delivered[d][i]
      BY <2>6, <2>8 DEF Inboxes!Heard
    <3>2. i \in 1..Len(Carried(d)) /\ n = Carried(d)[i]
      BY <3>1, WrittenIsCarried
    <3>3. QED
      BY <2>2, <3>2 DEF Apart
  <2> HIDE DEF n, k
  <2>9. Inboxes!Deliver(c, n)
    BY <2>1, <2>5, <2>7, <2>8 DEF Inboxes!Deliver
  <2>10. QED
    BY <2>4, <2>9 DEF Inboxes!Next
<1>3. CASE UNCHANGED <<user, sent, delivered>>
  BY <1>3 DEF Inboxes!vars
<1>4. QED
  BY <1>1, <1>2, <1>3
     DEF Next, Dispatch, Register, Unregister, Upgrade, StartPumps, WriterEnds,
         ReaderLeaves, ReaderCloses, vars, hubVars, connVars

\* The hub promises what Inbox says, for any number of users and connections and
\* any capacity of the channels: in particular nothing is heard twice when a
\* connection takes the place of another.
THEOREM InboxRefinement == Spec => ImplementsInbox
<1>1. Init => Inboxes!Init
  BY DEF Init, Inboxes!Init
<1>2. Init => Apart
  <2> SUFFICES ASSUME Init PROVE Apart
    OBVIOUS
  <2>1. \A c \in Conns : Carried(c) = <<>> \o <<>>
    BY DEF Init, Carried
  <2>2. <<>> \o <<>> = <<>> /\ Len(<<>>) = 0
    BY EmptySeq, ConcatEmptySeq
  <2>3. QED
    BY <2>1, <2>2 DEF Apart
<1>3. Inv /\ QueueTypes /\ Ordered => Wired /\ InOrder
  BY DEF Inv, Ordered
<1>4. QED
  BY <1>1, <1>2, <1>3, OrderInit, InvStep, QueueTypesStep, OrderStep, ApartStep,
     InboxStep, PTL DEF Spec, ImplementsInbox, Inboxes!Spec

=============================================================================
