--------------------------- MODULE Notifications ---------------------------
(***************************************************************************)
(* notifications.service.ts: a listener stores the notification and then   *)
(* pushes it to the sockets of its user, who joined a room of the same     *)
(* process (notifications.gateway.ts). A client learns of notifications by *)
(* the list and by the push; the model's client joins first and then loads *)
(* the list, whose page holds all there is.                                *)
(***************************************************************************)
EXTENDS EventsBus

CONSTANT Clients  \* bound: the users who have a client

ASSUME ClientsAssumption == Clients \subseteq Users

VARIABLES
  notification,  \* rows of the Notification table
  client         \* client[u] : u's socket and what it has been shown

notificationVars == <<notification, client>>

Notification(d) == [by |-> d.by, event |-> d.event, to |-> d.to, read |-> FALSE]

Notifications == [by : Requests, event : Events, to : Users, read : BOOLEAN]

ClientRecords ==
  [step : {"offline", "joined", "listed"}, shown : SUBSET (Requests \X Events \X Users)]

Offline == [step |-> "offline", shown |-> {}]

Of(u) == {n \in notification : n.to = u}

\* What tells two notifications apart when their read flag does not.
Key(n) == <<n.by, n.event, n.to>>

NotificationsInit ==
  /\ notification = {}
  /\ client = [u \in Clients |-> Offline]

\* Faulty variant: a listener that stores and does not push.
CreateSilently(d) ==
  /\ d.step = "send"
  /\ notification' = notification \cup {Notification(d)}
  /\ bus' = bus \ {d}
  /\ UNCHANGED client

\* The row, after the summary was read for it.
Create(d) ==
  /\ d.step = "send"
  /\ notification' = notification \cup {Notification(d)}
  /\ bus' = (bus \ {d}) \cup {[d EXCEPT !.step = "push"]}
  /\ UNCHANGED client

\* A create that throws is caught and logged.
CreateFails(d) ==
  /\ d.step = "send"
  /\ bus' = bus \ {d}
  /\ UNCHANGED <<notification, client>>

\* To every socket in the user's room; nobody keeps it for later.
Push(d) ==
  /\ d.step = "push"
  /\ client' = [u \in Clients |->
                  IF u = d.to /\ client[u].step # "offline"
                  THEN [client[u] EXCEPT !.shown = @ \cup {Key(d)}] ELSE client[u]]
  /\ bus' = bus \ {d}
  /\ UNCHANGED notification

\* handleConnection: the token is verified, then the socket joins its room.
Join(u) ==
  /\ client[u].step = "offline"
  /\ client' = [client EXCEPT ![u].step = "joined"]
  /\ UNCHANGED <<notification, bus>>

\* GET /notifications.
List(u) ==
  /\ client[u].step = "joined"
  /\ client' = [client EXCEPT ![u] = [step |-> "listed", shown |-> @.shown \cup {Key(n) : n \in Of(u)}]]
  /\ UNCHANGED <<notification, bus>>

Disconnect(u) ==
  /\ client[u].step # "offline"
  /\ client' = [client EXCEPT ![u] = Offline]
  /\ UNCHANGED <<notification, bus>>

Read(rows) ==
  notification' = (notification \ rows) \cup {[n EXCEPT !.read = TRUE] : n \in rows}

\* PATCH /notifications/:id/read: updateMany by id and user, so of somebody else's
\* row nothing changes, and a row that is read stays so.
MarkRead(u, n) ==
  /\ Read({n} \cap Of(u))
  /\ UNCHANGED <<client, bus>>

\* PATCH /notifications/read-all: also rows the client has not been shown.
MarkAllRead(u) ==
  /\ client[u].step = "listed"
  /\ Read({n \in Of(u) : ~ n.read})
  /\ UNCHANGED <<client, bus>>

NotificationsNext ==
  \/ \E d \in bus : Create(d) \/ CreateFails(d) \/ Push(d)
  \/ \E u \in Clients : Join(u) \/ List(u) \/ Disconnect(u) \/ MarkAllRead(u)
  \/ \E u \in Clients, n \in notification : MarkRead(u, n)

\* A process that ends: its deliveries and its sockets.
LoseDeliveries ==
  /\ bus' = {}
  /\ client' = [u \in Clients |-> Offline]
  /\ UNCHANGED notification

-----------------------------------------------------------------------------
(* Properties.                                                             *)

NotificationsTypeOK ==
  /\ bus \subseteq Deliveries
  /\ notification \subseteq Notifications
  /\ client \in [Clients -> ClientRecords]

\* A client that has joined and then listed has been shown every stored notification
\* of its user, whether it was stored before the list or between any two steps of
\* the connection, but for those whose push is still to come.
NothingMissed ==
  \A u \in Clients : client[u].step = "listed" =>
    \A n \in Of(u) : Key(n) \in client[u].shown \/ \E d \in bus : Key(d) = Key(n)
=============================================================================
