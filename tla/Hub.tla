-------------------------------- MODULE Hub --------------------------------
(***************************************************************************)
(* The notification hub, internal/notification/hub.go and handler.go: one  *)
(* goroutine (Run) owns the map of connected users and serves three        *)
(* channels; each WebSocket connection has a handler that registers it and *)
(* then starts a write pump and a read pump.                               *)
(*                                                                         *)
(* register and unregister are unbuffered: a send on them and its          *)
(* reception by Run are one step, possible only while Run is at its        *)
(* select.  broadcast and the channel Send of a client are queues with a   *)
(* capacity.  evicting is the client Run is trying to send to unregister   *)
(* from inside its own loop (line 95), where it no longer is at its        *)
(* select.                                                                 *)
(*                                                                         *)
(* Definitions marked Fault are variants with a plausible bug, kept to     *)
(* show that the properties notice it.                                     *)
(***************************************************************************)
EXTENDS Naturals, Sequences

CONSTANTS
    Conns,         \* WebSocket connections, each with its Client
    Users,
    NoConn,
    SendCap,       \* capacity of Client.Send, 256
    BroadcastCap,  \* capacity of Hub.broadcast, 256
    MaxMessages    \* bound: notifications sent in a behaviour

ASSUME ConstantsAssumption ==
    /\ NoConn \notin Conns
    /\ Users # {}
    /\ SendCap \in Nat \ {0}
    /\ BroadcastCap \in Nat \ {0}
    /\ MaxMessages \in Nat

VARIABLES
    clients,    \* Hub.clients: the connection of each user
    broadcast,  \* Hub.broadcast: pairs of a user and a notification
    evicting,   \* the client Run is handing to unregister, or NoConn
    user,       \* the user of each connection
    handler,    \* "none", "upgraded", "registered", "returned"
    writer,     \* write pump: "off", "running", "done"
    reader,     \* read pump: "off", "reading", "leaving", "closing", "done"
    open,       \* the network connection is open at this end
    closed,     \* Client.Send is closed
    send,       \* the contents of Client.Send
    delivered,  \* what the write pump has written to the connection
    sent        \* the user of each notification sent, in order; a notification is
                \* named by its place in it

hubVars == <<clients, broadcast, evicting>>
connVars == <<user, handler, writer, reader, open, closed, send, delivered>>
vars == <<hubVars, connVars, sent>>

Init ==
    /\ clients = [u \in Users |-> NoConn]
    /\ broadcast = <<>>
    /\ evicting = NoConn
    /\ user \in [Conns -> Users]
    /\ handler = [c \in Conns |-> "none"]
    /\ writer = [c \in Conns |-> "off"]
    /\ reader = [c \in Conns |-> "off"]
    /\ open = [c \in Conns |-> FALSE]
    /\ closed = [c \in Conns |-> FALSE]
    /\ send = [c \in Conns |-> <<>>]
    /\ delivered = [c \in Conns |-> <<>>]
    /\ sent = <<>>

AtSelect == evicting = NoConn

-----------------------------------------------------------------------------
(* Run *)

\* Fault: the old channel is closed, the old connection is not.
RegisterClosesChannel(c) ==
    /\ AtSelect
    /\ handler[c] = "upgraded"
    /\ closed' = [x \in Conns |-> closed[x] \/ x = clients[user[c]]]
    /\ clients' = [clients EXCEPT ![user[c]] = c]
    /\ handler' = [handler EXCEPT ![c] = "registered"]
    /\ UNCHANGED <<broadcast, evicting, user, writer, reader, open, send,
                   delivered, sent>>

\* Fault: the new connection is given what waits in the channel of the old one.
RegisterHandsOn(c) ==
    /\ AtSelect
    /\ handler[c] = "upgraded"
    /\ LET old == clients[user[c]] IN
       /\ closed' = [x \in Conns |-> closed[x] \/ x = old]
       /\ send' = [send EXCEPT ![c] = IF old = NoConn THEN @ ELSE send[old]]
    /\ clients' = [clients EXCEPT ![user[c]] = c]
    /\ handler' = [handler EXCEPT ![c] = "registered"]
    /\ UNCHANGED <<broadcast, evicting, user, writer, reader, open, delivered, sent>>

\* The new connection of a user takes the place of the old one, whose channel
\* and connection are closed.
Register(c) ==
    /\ AtSelect
    /\ handler[c] = "upgraded"
    /\ LET old == clients[user[c]] IN
       /\ closed' = [x \in Conns |-> closed[x] \/ x = old]
       /\ open' = [x \in Conns |-> open[x] /\ x # old]
    /\ clients' = [clients EXCEPT ![user[c]] = c]
    /\ handler' = [handler EXCEPT ![c] = "registered"]
    /\ UNCHANGED <<broadcast, evicting, user, writer, reader, send, delivered, sent>>

\* Fault: whatever connection the user has is removed.
UnregisterUser(c) ==
    /\ AtSelect
    /\ reader[c] = "leaving"
    /\ clients' = [clients EXCEPT ![user[c]] = NoConn]
    /\ closed' = [closed EXCEPT ![c] = TRUE]
    /\ reader' = [reader EXCEPT ![c] = "closing"]
    /\ UNCHANGED <<broadcast, evicting, user, handler, writer, open, send, delivered,
                   sent>>

\* A read pump that leaves: its client is removed, unless another connection
\* has taken its place.
Unregister(c) ==
    /\ AtSelect
    /\ reader[c] = "leaving"
    /\ IF clients[user[c]] = c
       THEN /\ closed' = [closed EXCEPT ![c] = TRUE]
            /\ clients' = [clients EXCEPT ![user[c]] = NoConn]
       ELSE UNCHANGED <<closed, clients>>
    /\ reader' = [reader EXCEPT ![c] = "closing"]
    /\ UNCHANGED <<broadcast, evicting, user, handler, writer, open, send, delivered,
                   sent>>

\* Fault: one notification more than the channel holds.
DispatchOneMore ==
    /\ AtSelect
    /\ broadcast # <<>>
    /\ broadcast' = Tail(broadcast)
    /\ LET c == clients[Head(broadcast).user] IN
       /\ c # NoConn
       /\ Len(send[c]) <= SendCap
       /\ send' = [send EXCEPT ![c] = Append(@, Head(broadcast).message)]
    /\ UNCHANGED <<clients, evicting, user, handler, writer, reader, open, closed,
                   delivered, sent>>

\* A notification is put in the channel of its user, dropped when the user is
\* not connected.  When the channel is full Run sends the client to
\* unregister, which only Run receives from.
Dispatch ==
    /\ AtSelect
    /\ broadcast # <<>>
    /\ broadcast' = Tail(broadcast)
    /\ LET c == clients[Head(broadcast).user] IN
       \/ /\ c = NoConn
          /\ UNCHANGED <<send, evicting>>
       \/ /\ c # NoConn
          /\ Len(send[c]) < SendCap
          /\ send' = [send EXCEPT ![c] = Append(@, Head(broadcast).message)]
          /\ UNCHANGED evicting
       \/ /\ c # NoConn
          /\ Len(send[c]) >= SendCap
          /\ evicting' = c
          /\ UNCHANGED send
    /\ UNCHANGED <<clients, user, handler, writer, reader, open, closed, delivered, sent>>

-----------------------------------------------------------------------------
(* The rest of the program *)

\* SendToUser, which waits while broadcast is full.
SendToUser(u) ==
    /\ Len(sent) < MaxMessages
    /\ Len(broadcast) < BroadcastCap
    /\ sent' = Append(sent, u)
    /\ broadcast' = Append(broadcast, [user |-> u, message |-> Len(sent')])
    /\ UNCHANGED <<clients, evicting, connVars>>

\* WebSocketHandler upgrades the connection; next it registers the client.
Upgrade(c) ==
    /\ handler[c] = "none"
    /\ handler' = [handler EXCEPT ![c] = "upgraded"]
    /\ open' = [open EXCEPT ![c] = TRUE]
    /\ UNCHANGED <<hubVars, user, writer, reader, closed, send, delivered, sent>>

StartPumps(c) ==
    /\ handler[c] = "registered"
    /\ handler' = [handler EXCEPT ![c] = "returned"]
    /\ writer' = [writer EXCEPT ![c] = "running"]
    /\ reader' = [reader EXCEPT ![c] = "reading"]
    /\ UNCHANGED <<hubVars, user, open, closed, send, delivered, sent>>

\* The write pump writes the next notification; it drains a closed channel.
Write(c) ==
    /\ writer[c] = "running"
    /\ open[c]
    /\ send[c] # <<>>
    /\ delivered' = [delivered EXCEPT ![c] = Append(@, Head(send[c]))]
    /\ send' = [send EXCEPT ![c] = Tail(@)]
    /\ UNCHANGED <<hubVars, user, handler, writer, reader, open, closed, sent>>

\* The write pump ends: a write fails, taking its notification along, or the
\* channel is closed and empty.  A write may fail at any time, and must on a
\* connection that is closed.  The pump closes the connection.
WriterEnds(c) ==
    /\ writer[c] = "running"
    /\ \/ send[c] # <<>> /\ send' = [send EXCEPT ![c] = Tail(@)]
       \/ send[c] = <<>> /\ closed[c] /\ UNCHANGED send
    /\ writer' = [writer EXCEPT ![c] = "done"]
    /\ open' = [open EXCEPT ![c] = FALSE]
    /\ UNCHANGED <<hubVars, user, handler, reader, closed, delivered, sent>>

\* Fault: the read pump returns without unregistering.
ReaderReturns(c) ==
    /\ reader[c] = "reading"
    /\ reader' = [reader EXCEPT ![c] = "done"]
    /\ open' = [open EXCEPT ![c] = FALSE]
    /\ UNCHANGED <<hubVars, user, handler, writer, closed, send, delivered, sent>>

\* ReadMessage fails: the peer has gone, or the connection is closed here.
ReaderLeaves(c) ==
    /\ reader[c] = "reading"
    /\ reader' = [reader EXCEPT ![c] = "leaving"]
    /\ UNCHANGED <<hubVars, user, handler, writer, open, closed, send, delivered, sent>>

\* Only then it closes the connection; meanwhile the write pump goes on.
ReaderCloses(c) ==
    /\ reader[c] = "closing"
    /\ reader' = [reader EXCEPT ![c] = "done"]
    /\ open' = [open EXCEPT ![c] = FALSE]
    /\ UNCHANGED <<hubVars, user, handler, writer, closed, send, delivered, sent>>

Next ==
    \/ Dispatch
    \/ \E u \in Users : SendToUser(u)
    \/ \E c \in Conns :
         \/ Register(c) \/ Unregister(c)
         \/ Upgrade(c) \/ StartPumps(c)
         \/ Write(c) \/ WriterEnds(c)
         \/ ReaderLeaves(c) \/ ReaderCloses(c)

Spec == Init /\ [][Next]_vars

\* Goroutines go on: Run serves what is ready at its select, handlers start
\* their pumps, a pump whose connection is closed at this end notices, and the
\* write pump ends when its channel is closed and empty.
\* Nothing makes the peer read, so no write has to succeed.
FairSpec ==
    /\ Spec
    /\ WF_vars(Dispatch)
    /\ \A c \in Conns :
         /\ WF_vars(Register(c))
         /\ WF_vars(Unregister(c))
         /\ WF_vars(StartPumps(c))
         /\ WF_vars((~open[c] \/ (closed[c] /\ send[c] = <<>>)) /\ WriterEnds(c))
         /\ WF_vars(~open[c] /\ ReaderLeaves(c))
         /\ WF_vars(ReaderCloses(c))

-----------------------------------------------------------------------------
(* Properties *)

TypeOK ==
    /\ clients \in [Users -> Conns \cup {NoConn}]
    /\ evicting \in Conns \cup {NoConn}
    /\ user \in [Conns -> Users]
    /\ handler \in [Conns -> {"none", "upgraded", "registered", "returned"}]
    /\ writer \in [Conns -> {"off", "running", "done"}]
    /\ reader \in [Conns -> {"off", "reading", "leaving", "closing", "done"}]
    /\ open \in [Conns -> BOOLEAN]
    /\ closed \in [Conns -> BOOLEAN]
    /\ sent \in Seq(Users) /\ Len(sent) <= MaxMessages
    /\ Len(broadcast) <= BroadcastCap
    /\ \A c \in Conns : Len(send[c]) <= SendCap

Registered(c) == handler[c] \in {"registered", "returned"}

\* A client is in the map exactly from its registration until its channel is
\* closed.  So Run never closes a closed channel nor sends on one (both panic
\* in Go and would take the gateway down), and a client that is not in the map
\* any more has a closed channel, without which its write pump would wait for
\* ever.
OpenIffInMap ==
    \A c \in Conns : clients[user[c]] = c <=> Registered(c) /\ ~closed[c]

\* A connection carries notifications of its own user only, in the order they
\* were sent and none twice, and none overtakes one that waits in broadcast.
Carried(c) == delivered[c] \o send[c]

InOrder ==
    \A c \in Conns : \A i \in 1..Len(Carried(c)) :
        LET n == Carried(c)[i] IN
        /\ sent[n] = user[c]
        /\ \A j \in 1..(i - 1) : Carried(c)[j] < n
        /\ \A j \in 1..Len(broadcast) : n < broadcast[j].message

\* However connections come, are replaced and leave, and whatever is lost with
\* them, the hub is an Inbox: also a user with two connections, one of them still
\* draining its channel, hears no notification twice.
Inboxes == INSTANCE Inbox

ImplementsInbox == Inboxes!Spec

\* Unless Run is lost in line 95 (FullBufferDisconnects), a connection that was
\* replaced or whose peer left is wound up: both its pumps end.
ClosedIsWoundUp ==
    \A c \in Conns :
        closed[c] ~> (writer[c] = "done" /\ reader[c] = "done") \/ ~AtSelect

\* And a connection closed at this end leaves the map, so that its user is again
\* reported as not connected.
BrokenLeavesMap ==
    \A c \in Conns :
        (Registered(c) /\ ~open[c]) ~> clients[user[c]] # c \/ ~AtSelect

-----------------------------------------------------------------------------
(* What a comment says and the code does not do *)

\* hub.go: "Client's buffer is full, disconnect them".
FullBufferDisconnects ==
    \A c \in Conns : evicting = c ~> clients[user[c]] # c

=============================================================================
