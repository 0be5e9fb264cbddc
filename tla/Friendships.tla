---------------------------- MODULE Friendships ----------------------------
(***************************************************************************)
(* request, accept, block and remove of friendships.service.ts. Each is a  *)
(* read followed by one or two writes outside any transaction, so every    *)
(* statement is an action of its own and other requests run in between.    *)
(* The write names the row by the id that was read.                        *)
(***************************************************************************)
EXTENDS Naturals, EventsBus

CONSTANT MaxIds  \* bound: the ids friendships are given, from 1 upwards

ASSUME IdsAssumption == MaxIds \in Nat \ {0}

VARIABLES
  friendship,  \* friendship[i] : row i, Unused before it exists and Deleted after
  request      \* request[r] : the call r, where it stands and what it has read

Ids == 1 .. MaxIds

friendshipVars == <<friendship, request>>

Statuses == {"PENDING", "ACCEPTED", "BLOCKED"}

FriendshipRows == [requester : Users, addressee : Users, status : Statuses]

Pending(u, v) == [requester |-> u, addressee |-> v, status |-> "PENDING"]

Marked(i, status) == [friendship[i] EXCEPT !.status = status]

Unused  == [status |-> "unused"]
Deleted == [status |-> "deleted"]

Existing == {i \in Ids : friendship[i] \notin {Unused, Deleted}}

\* "elsewhere" is a call of another module, which ends with an event about its user.
Calls == {"request", "accept", "block", "remove", "elsewhere"}

Idle == [step |-> "idle"]

RequestRecords == [call : Calls, user : Users, other : Users, id : Ids,
                   step : {"find", "create", "update", "delete", "emit", "done", "refused", "lost"},
                   before : SUBSET Requests]

Ended(r) == request[r].step \in {"done", "refused", "lost"}

\* "other" is the other user, or "id" the friendship, the call names. "before"
\* holds the requests that had ended when it came, kept for the properties.
Open(call, user, other, id) ==
  [call |-> call, user |-> user, other |-> other, id |-> id,
   step |-> IF call = "elsewhere" THEN "emit" ELSE "find",
   before |-> {r \in Requests : Ended(r)}]

At(r, call, step) == request[r].step = step /\ request[r].call = call

Goto(r, step) == request' = [request EXCEPT ![r].step = step]

FriendshipsInit ==
  /\ friendship = [i \in Ids |-> Unused]
  /\ request = [r \in Requests |-> Idle]

\* Faulty variant: the direction of the call only.
BetweenDirected(u, v) ==
  {i \in Existing : friendship[i].requester = u /\ friendship[i].addressee = v}

\* findBetween: a row of the pair in either direction, the first the database comes upon.
Between(u, v) ==
  {i \in Existing : {friendship[i].requester, friendship[i].addressee} = {u, v}}

\* The id the next row is given.
NextId(i) == friendship[i] = Unused /\ \A j \in Ids : j < i => friendship[j] # Unused

\* @@unique([requesterId, addresseeId]) is the unique key of one direction only.
Taken(u, v) == \E i \in Existing : friendship[i].requester = u /\ friendship[i].addressee = v

\* Faulty variant: without the check of the status.
MayAcceptAny(i, u) == friendship[i].addressee = u

\* Faulty variant: either party accepts.
MayAcceptEither(i, u) ==
  u \in {friendship[i].requester, friendship[i].addressee} /\ friendship[i].status = "PENDING"

MayAccept(i, u) == friendship[i].addressee = u /\ friendship[i].status = "PENDING"

\* Faulty variant: an update that makes do without the row.
UpdatableAlways(i) == TRUE

\* An update of a row that is gone throws.
Updatable(i) == i \in Existing

-----------------------------------------------------------------------------

\* POST /friendships, /:id/accept, /block/:userId and DELETE /:id. Only block lets
\* a user name themselves.
Receive(r) ==
  \E call \in Calls, user \in Users, other \in Users, id \in Ids :
    /\ request[r] = Idle
    /\ call = "request" => user # other
    /\ call \notin {"accept", "remove"} => id = 1
    /\ call \in {"accept", "remove"} => friendship[id] # Unused
    /\ call \notin {"request", "block"} => other = user
    /\ request' = [request EXCEPT ![r] = Open(call, user, other, id)]
    /\ UNCHANGED <<friendship, bus>>

FindNone(r) ==
  /\ At(r, "request", "find")
  /\ Goto(r, IF Between(request[r].user, request[r].other) = {} THEN "create" ELSE "refused")
  /\ UNCHANGED <<friendship, bus>>

\* The addressee's call loads the row, and with it the user to be told.
FindToAccept(r) ==
  /\ At(r, "accept", "find")
  /\ LET i == request[r].id
     IN  IF i \in Existing /\ MayAccept(i, request[r].user)
         THEN request' = [request EXCEPT ![r] =
                            [@ EXCEPT !.other = friendship[i].requester, !.step = "update"]]
         ELSE Goto(r, "refused")
  /\ UNCHANGED <<friendship, bus>>

FindToBlock(r) ==
  /\ At(r, "block", "find")
  /\ LET between == Between(request[r].user, request[r].other)
     IN  IF between = {}
         THEN Goto(r, "create")
         ELSE \E i \in between :
                request' = [request EXCEPT ![r] = [@ EXCEPT !.id = i, !.step = "update"]]
  /\ UNCHANGED <<friendship, bus>>

FindToRemove(r) ==
  /\ At(r, "remove", "find")
  /\ LET i == request[r].id
     IN  Goto(r, IF /\ i \in Existing
                    /\ request[r].user \in {friendship[i].requester, friendship[i].addressee}
                 THEN "delete" ELSE "refused")
  /\ UNCHANGED <<friendship, bus>>

\* Also block() creates a PENDING row first, with the blocking user for its requester.
CreateRow(r) ==
  /\ request[r].step = "create"
  /\ LET u == request[r].user  v == request[r].other
     IN  IF Taken(u, v)
         THEN Goto(r, "refused") /\ UNCHANGED friendship
         ELSE \E i \in Ids :
                /\ NextId(i)
                /\ friendship' = [friendship EXCEPT ![i] = Pending(u, v)]
                /\ request' = [request EXCEPT ![r] = [@ EXCEPT !.id = i,
                      !.step = IF request[r].call = "block" THEN "update" ELSE "emit"]]
  /\ UNCHANGED bus

\* updateStatus by id alone, whatever the row says by now.
UpdateStatus(r) ==
  /\ request[r].step = "update"
  /\ LET i == request[r].id
     IN  IF Updatable(i)
         THEN /\ friendship' = [friendship EXCEPT ![i] = Marked(i,
                                  IF request[r].call = "block" THEN "BLOCKED" ELSE "ACCEPTED")]
              /\ Goto(r, IF request[r].call = "block" THEN "done" ELSE "emit")
         ELSE Goto(r, "refused") /\ UNCHANGED friendship
  /\ UNCHANGED bus

DeleteRow(r) ==
  /\ request[r].step = "delete"
  /\ LET i == request[r].id
     IN  IF Updatable(i)
         THEN friendship' = [friendship EXCEPT ![i] = Deleted] /\ Goto(r, "done")
         ELSE Goto(r, "refused") /\ UNCHANGED friendship
  /\ UNCHANGED bus

EventOf(call) == CASE call = "request"   -> "FriendRequestSent"
                   [] call = "accept"    -> "FriendRequestAccepted"
                   [] call = "elsewhere" -> "OwnEvent"

\* FriendRequestSent tells the addressee, FriendRequestAccepted the requester.
EmitEvent(r) ==
  /\ request[r].step = "emit"
  /\ Emit(r, EventOf(request[r].call), request[r].other)
  /\ Goto(r, "done")
  /\ UNCHANGED friendship

Handle(r) ==
  \/ FindNone(r) \/ FindToAccept(r) \/ FindToBlock(r) \/ FindToRemove(r)
  \/ CreateRow(r) \/ UpdateStatus(r) \/ DeleteRow(r) \/ EmitEvent(r)

FriendshipsNext == \E r \in Requests : Receive(r) \/ Handle(r)

\* A process that ends takes its requests with it; what they wrote stays.
LoseRequests ==
  /\ request' = [r \in Requests |-> IF request[r] = Idle \/ Ended(r) THEN request[r]
                                    ELSE [request[r] EXCEPT !.step = "lost"]]
  /\ UNCHANGED friendship

-----------------------------------------------------------------------------
(* Properties.                                                             *)

FriendshipsTypeOK ==
  /\ friendship \in [Ids -> FriendshipRows \cup {Unused, Deleted}]
  /\ request \in [Requests -> RequestRecords \cup {Idle}]

Overlapped(r, s) == r \notin request[s].before /\ s \notin request[r].before

\* Who shows as a friend has agreed to it: the addressee has called accept, and the
\* requester has sent a request, or was blocking the addressee: the row a block creates can be
\* accepted until it is marked, which a process that ends may leave undone.
FriendsAgreed ==
  \A i \in Existing : friendship[i].status = "ACCEPTED" =>
    \E r, s \in Requests :
      /\ r # s /\ request[r] # Idle /\ request[s] # Idle
      /\ request[r].call = "accept" /\ request[r].id = i
      /\ request[r].user = friendship[i].addressee
      /\ request[s].id = i /\ request[s].user = friendship[i].requester
      /\ \/ request[s].call = "request"
         \/ request[s].call = "block" /\ (Overlapped(r, s) \/ request[s].step = "lost")

\* A pair is stored in both directions only by calls that overlapped: one that comes
\* when the other has answered finds the row.
PairStoredOnce ==
  \A i, j \in Existing :
    (i # j /\ friendship[j].requester = friendship[i].addressee
           /\ friendship[j].addressee = friendship[i].requester)
      => \E r, s \in Requests :
           /\ r # s /\ request[r] # Idle /\ request[s] # Idle /\ Overlapped(r, s)
           /\ {request[r].call, request[s].call} \subseteq {"request", "block"}
           /\ request[r].user = friendship[i].requester /\ request[s].user = friendship[j].requester

\* A block that has answered is undone by none but an accept that was under way by
\* then: later calls of either party leave the row blocked or remove it.
BlockStands ==
  \A r \in Requests :
    (request[r] # Idle /\ request[r].call = "block" /\ request[r].step = "done")
      => LET i == request[r].id
         IN  \/ i \notin Existing
             \/ friendship[i].status = "BLOCKED"
             \/ \E s \in Requests : /\ request[s] # Idle /\ request[s].call = "accept"
                                    /\ request[s].id = i /\ Overlapped(r, s)
=============================================================================
