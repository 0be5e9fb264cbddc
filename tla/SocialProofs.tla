---------------------------- MODULE SocialProofs ----------------------------
(***************************************************************************)
(* What blocks, requests and acceptances that overlap leave in the table,  *)
(* and what a client is shown, for any users, clients, calls and ids, in a *)
(* process that may end at any time.                                       *)
(***************************************************************************)
EXTENDS Social, TLAPS

Over == {"done", "refused", "lost"}

Steps == {"find", "create", "update", "delete", "emit"} \cup Over

Made(r, calls) == request[r] # Idle /\ request[r].call \in calls

-----------------------------------------------------------------------------
(* The table of calls, and what a statement does to it.                    *)

\* A call that is made is a record of what it has read.
LEMMA MadeType ==
  ASSUME FriendshipsTypeOK, NEW r \in Requests, request[r] # Idle
  PROVE  request[r] \in RequestRecords
BY DEF FriendshipsTypeOK

\* Who is at a statement has been made, and nobody is at two.
LEMMA StepType ==
  ASSUME FriendshipsTypeOK, NEW r \in Requests, request[r].step \in Steps
  PROVE  /\ request[r] # Idle
         /\ request[r] \in RequestRecords
<1>1. Idle.step \notin Steps
  BY DEF Idle, Steps, Over
<1> QED
  BY <1>1, MadeType

\* Rows, unused and deleted ones are not to be confused.
LEMMA ExistingType ==
  ASSUME FriendshipsTypeOK, NEW i \in Ids
  PROVE  /\ Unused \notin FriendshipRows /\ Deleted \notin FriendshipRows /\ Unused # Deleted
         /\ i \in Existing <=> friendship[i] \in FriendshipRows
<1>1. Unused \notin FriendshipRows /\ Deleted \notin FriendshipRows
  BY DEF Unused, Deleted, FriendshipRows
<1>2. Unused.status # Deleted.status
  BY DEF Unused, Deleted
<1> QED
  BY <1>1, <1>2 DEF FriendshipsTypeOK, Existing

\* r runs a statement: the others stay, and so does who called r and with what.
Runs(r) ==
  /\ request[r] # Idle /\ request[r] \in RequestRecords /\ ~ Ended(r)
  /\ request'[r] # Idle /\ request'[r] \in RequestRecords
  /\ request'[r].call = request[r].call /\ request'[r].user = request[r].user
  /\ request'[r].before = request[r].before
  /\ \A s \in Requests : s # r => request'[s] = request[s]
  /\ request' \in [Requests -> RequestRecords \cup {Idle}]

\* What it has read, and where it goes.
RunsTo(r, id, other, step) ==
  /\ Runs(r)
  /\ request'[r].id = id /\ request'[r].other = other /\ request'[r].step = step

\* A step alone that changes, and any other change of a record.
LEMMA StepRuns ==
  ASSUME FriendshipsTypeOK, NEW r \in Requests, request[r].step \in Steps \ Over,
         NEW step \in Steps,
         request' = [request EXCEPT ![r] = [request[r] EXCEPT !.step = step]]
  PROVE  RunsTo(r, request[r].id, request[r].other, step)
<1>1. request[r] # Idle /\ request[r] \in RequestRecords /\ ~ Ended(r)
  BY StepType DEF Ended, Over
<1>2. request'[r] = [request[r] EXCEPT !.step = step]
  BY DEF FriendshipsTypeOK
<1>3. request'[r] \in RequestRecords
  BY <1>1, <1>2 DEF RequestRecords, Steps, Over
<1>4. /\ request'[r].call = request[r].call /\ request'[r].user = request[r].user
      /\ request'[r].before = request[r].before
      /\ request'[r].id = request[r].id /\ request'[r].other = request[r].other /\ request'[r].step = step
  BY <1>1, <1>2 DEF RequestRecords
<1>5. request'[r] # Idle
  BY <1>4 DEF Idle, Steps, Over
<1>6. \A s \in Requests : s # r => request'[s] = request[s]
  BY DEF FriendshipsTypeOK
<1>7. request' \in [Requests -> RequestRecords \cup {Idle}]
  BY <1>2, <1>3, <1>6 DEF FriendshipsTypeOK
<1> QED
  BY <1>1, <1>3, <1>4, <1>5, <1>6, <1>7 DEF Runs, RunsTo

LEMMA RecordRuns ==
  ASSUME FriendshipsTypeOK, NEW r \in Requests, request[r].step \in Steps \ Over,
         NEW id \in Ids, NEW other \in Users, NEW step \in Steps,
         \E record : request' = [request EXCEPT ![r] = record],
         request'[r] \in RequestRecords,
         request'[r].call = request[r].call, request'[r].user = request[r].user,
         request'[r].before = request[r].before,
         request'[r].id = id, request'[r].other = other, request'[r].step = step
  PROVE  RunsTo(r, id, other, step)
<1>1. request[r] # Idle /\ request[r] \in RequestRecords /\ ~ Ended(r)
  BY StepType DEF Ended, Over
<1>2. request'[r] # Idle
  BY DEF Idle, Steps, Over
<1>3. \A s \in Requests : s # r => request'[s] = request[s]
  BY DEF FriendshipsTypeOK
<1>4. request' \in [Requests -> RequestRecords \cup {Idle}]
  BY DEF FriendshipsTypeOK
<1> QED
  BY <1>1, <1>2, <1>3, <1>4 DEF Runs, RunsTo

LEMMA GotoRuns ==
  ASSUME FriendshipsTypeOK, NEW r \in Requests, request[r].step \in Steps \ Over,
         NEW step \in Steps, Goto(r, step)
  PROVE  RunsTo(r, request[r].id, request[r].other, step)
<1>1. request' = [request EXCEPT ![r] = [request[r] EXCEPT !.step = step]]
  BY DEF Goto
<1> QED
  BY <1>1, StepRuns

-----------------------------------------------------------------------------
(* The statements, one by one.                                             *)

\* What a call that fails, or finds that it may not, leaves behind.
Refuses(r) ==
  RunsTo(r, request[r].id, request[r].other, "refused") /\ UNCHANGED <<friendship, bus>>

LEMMA FindNoneRuns ==
  ASSUME FriendshipsTypeOK, NEW r \in Requests, FindNone(r)
  PROVE  \/ Refuses(r) /\ request[r].step = "find"
         \/ /\ RunsTo(r, request[r].id, request[r].other, "create")
            /\ Between(request[r].user, request[r].other) = {}
            /\ At(r, "request", "find") /\ UNCHANGED <<friendship, bus>>
BY GotoRuns DEF FindNone, At, Steps, Over, Refuses

LEMMA FindToAcceptRuns ==
  ASSUME FriendshipsTypeOK, NEW r \in Requests, FindToAccept(r)
  PROVE  \/ Refuses(r) /\ request[r].step = "find"
         \/ /\ request[r].id \in Existing
            /\ RunsTo(r, request[r].id, friendship[request[r].id].requester, "update")
            /\ MayAccept(request[r].id, request[r].user)
            /\ At(r, "accept", "find") /\ UNCHANGED <<friendship, bus>>
<1> DEFINE i == request[r].id
<1>1. request[r].step \in Steps \ Over /\ At(r, "accept", "find") /\ UNCHANGED <<friendship, bus>>
  BY DEF FindToAccept, At, Steps, Over
<1>4. request[r] \in RequestRecords
  BY <1>1, StepType
<1>2. CASE i \in Existing /\ MayAccept(i, request[r].user)
  <2>1. request' = [request EXCEPT ![r] =
                      [request[r] EXCEPT !.other = friendship[i].requester, !.step = "update"]]
    BY <1>2 DEF FindToAccept
  <2>2. friendship[i].requester \in Users /\ i \in Ids
    BY <1>2, ExistingType DEF Existing, FriendshipRows
  <2>3. request'[r] = [request[r] EXCEPT !.other = friendship[i].requester, !.step = "update"]
    BY <2>1 DEF FriendshipsTypeOK
  <2>4. request'[r] \in RequestRecords
    BY <1>4, <2>2, <2>3 DEF RequestRecords
  <2>5. /\ request'[r].call = request[r].call /\ request'[r].user = request[r].user
        /\ request'[r].before = request[r].before
        /\ request'[r].id = i /\ request'[r].other = friendship[i].requester /\ request'[r].step = "update"
    BY <1>4, <2>2, <2>3 DEF RequestRecords
  <2>6. RunsTo(r, i, friendship[i].requester, "update")
    <3>1. \E record : request' = [request EXCEPT ![r] = record]
      BY <2>1
    <3>2. "update" \in Steps /\ request[r].other \in Users /\ request[r].id \in Ids
      BY <1>4 DEF Steps, RequestRecords
    <3> QED
      BY <1>1, <2>2, <2>4, <2>5, <3>1, <3>2, RecordRuns
  <2> QED
    BY <1>1, <1>2, <2>6
<1>3. CASE ~ (i \in Existing /\ MayAccept(i, request[r].user))
  <2>1. Goto(r, "refused")
    BY <1>3 DEF FindToAccept
  <2> QED
    BY <1>1, <2>1, GotoRuns DEF Refuses, Steps, Over, At
<1> QED
  BY <1>2, <1>3

LEMMA FindToBlockRuns ==
  ASSUME FriendshipsTypeOK, NEW r \in Requests, FindToBlock(r)
  PROVE  \/ /\ RunsTo(r, request[r].id, request[r].other, "create")
            /\ Between(request[r].user, request[r].other) = {}
            /\ At(r, "block", "find") /\ UNCHANGED <<friendship, bus>>
         \/ /\ RunsTo(r, request'[r].id, request[r].other, "update")
            /\ request'[r].id \in Between(request[r].user, request[r].other)
            /\ At(r, "block", "find") /\ UNCHANGED <<friendship, bus>>
<1> DEFINE between == Between(request[r].user, request[r].other)
<1>1. request[r].step \in Steps \ Over /\ At(r, "block", "find") /\ UNCHANGED <<friendship, bus>>
  BY DEF FindToBlock, At, Steps, Over
<1>4. request[r] \in RequestRecords
  BY <1>1, StepType
<1>2. CASE between = {}
  BY <1>1, <1>2, GotoRuns DEF FindToBlock, Steps
<1>3. CASE between # {}
  <2>1. PICK i \in between : request' = [request EXCEPT ![r] = [request[r] EXCEPT !.id = i, !.step = "update"]]
    BY <1>3 DEF FindToBlock
  <2>2. i \in Ids
    BY DEF Between, Existing
  <2>3. request'[r] = [request[r] EXCEPT !.id = i, !.step = "update"]
    BY <2>1 DEF FriendshipsTypeOK
  <2>4. request'[r] \in RequestRecords
    BY <1>4, <2>2, <2>3 DEF RequestRecords
  <2>5. /\ request'[r].call = request[r].call /\ request'[r].user = request[r].user
        /\ request'[r].before = request[r].before
        /\ request'[r].id = i /\ request'[r].other = request[r].other /\ request'[r].step = "update"
    BY <1>4, <2>2, <2>3 DEF RequestRecords
  <2>6. RunsTo(r, i, request[r].other, "update")
    <3>1. \E record : request' = [request EXCEPT ![r] = record]
      BY <2>1
    <3>2. "update" \in Steps /\ request[r].other \in Users /\ request[r].id \in Ids
      BY <1>4 DEF Steps, RequestRecords
    <3> QED
      BY <1>1, <2>2, <2>4, <2>5, <3>1, <3>2, RecordRuns
  <2> QED
    BY <1>1, <2>6 DEF RunsTo
<1> QED
  BY <1>2, <1>3

LEMMA FindToRemoveRuns ==
  ASSUME FriendshipsTypeOK, NEW r \in Requests, FindToRemove(r)
  PROVE  \/ Refuses(r) /\ request[r].step = "find"
         \/ /\ RunsTo(r, request[r].id, request[r].other, "delete")
            /\ At(r, "remove", "find") /\ UNCHANGED <<friendship, bus>>
BY GotoRuns DEF FindToRemove, At, Steps, Over, Refuses

LEMMA CreateRowRuns ==
  ASSUME FriendshipsTypeOK, NEW r \in Requests, CreateRow(r)
  PROVE  \/ Refuses(r) /\ request[r].step = "create"
         \/ /\ ~ Taken(request[r].user, request[r].other) /\ request[r].step = "create"
            /\ request'[r].id \in Ids /\ friendship[request'[r].id] = Unused
            /\ friendship' = [friendship EXCEPT ![request'[r].id] =
                                Pending(request[r].user, request[r].other)]
            /\ RunsTo(r, request'[r].id, request[r].other,
                      IF request[r].call = "block" THEN "update" ELSE "emit")
            /\ UNCHANGED bus
<1>1. request[r].step \in Steps \ Over /\ request[r].step = "create" /\ UNCHANGED bus
  BY DEF CreateRow, Steps, Over
<1>4. request[r] \in RequestRecords
  BY <1>1, StepType
<1>2. CASE Taken(request[r].user, request[r].other)
  BY <1>1, <1>2, GotoRuns DEF CreateRow, Refuses, Steps, Over
<1>3. CASE ~ Taken(request[r].user, request[r].other)
  <2> DEFINE step == IF request[r].call = "block" THEN "update" ELSE "emit"
  <2>1. PICK i \in Ids :
          /\ NextId(i)
          /\ friendship' = [friendship EXCEPT ![i] = Pending(request[r].user, request[r].other)]
          /\ request' = [request EXCEPT ![r] = [request[r] EXCEPT !.id = i, !.step = step]]
    BY <1>3 DEF CreateRow
  <2>2. step \in Steps
    BY DEF Steps
  <2>3. request'[r] = [request[r] EXCEPT !.id = i, !.step = step]
    BY <2>1 DEF FriendshipsTypeOK
  <2>4. request'[r] \in RequestRecords
    BY <1>4, <2>2, <2>3 DEF RequestRecords, Steps, Over
  <2>5. /\ request'[r].call = request[r].call /\ request'[r].user = request[r].user
        /\ request'[r].before = request[r].before
        /\ request'[r].id = i /\ request'[r].other = request[r].other /\ request'[r].step = step
    BY <1>4, <2>2, <2>3 DEF RequestRecords
  <2>6. RunsTo(r, i, request[r].other, step)
    <3>1. \E record : request' = [request EXCEPT ![r] = record]
      BY <2>1
    <3>2. step \in Steps /\ request[r].other \in Users /\ request[r].id \in Ids
      BY <1>4 DEF Steps, RequestRecords
    <3> QED
      BY <1>1, <2>2, <2>4, <2>5, <3>1, <3>2, RecordRuns
  <2>7. friendship[i] = Unused
    BY <2>1 DEF NextId
  <2> QED
    BY <1>1, <1>3, <2>1, <2>5, <2>6, <2>7
<1> QED
  BY <1>2, <1>3

LEMMA UpdateStatusRuns ==
  ASSUME FriendshipsTypeOK, NEW r \in Requests, UpdateStatus(r)
  PROVE  \/ Refuses(r) /\ request[r].step = "update" /\ request[r].id \notin Existing
         \/ /\ request[r].step = "update" /\ request[r].id \in Existing
            /\ friendship' = [friendship EXCEPT ![request[r].id] =
                 Marked(request[r].id, IF request[r].call = "block" THEN "BLOCKED" ELSE "ACCEPTED")]
            /\ RunsTo(r, request[r].id, request[r].other,
                      IF request[r].call = "block" THEN "done" ELSE "emit")
            /\ UNCHANGED bus
<1>1. request[r].step \in Steps \ Over /\ request[r].step = "update" /\ UNCHANGED bus
  BY DEF UpdateStatus, Steps, Over
<1>2. CASE Updatable(request[r].id)
  BY <1>1, <1>2, GotoRuns DEF UpdateStatus, Updatable, Steps, Over
<1>3. CASE ~ Updatable(request[r].id)
  BY <1>1, <1>3, GotoRuns DEF UpdateStatus, Updatable, Refuses, Steps, Over
<1> QED
  BY <1>2, <1>3

LEMMA DeleteRowRuns ==
  ASSUME FriendshipsTypeOK, NEW r \in Requests, DeleteRow(r)
  PROVE  \/ Refuses(r) /\ request[r].step = "delete"
         \/ /\ request[r].step = "delete" /\ request[r].id \in Existing
            /\ friendship' = [friendship EXCEPT ![request[r].id] = Deleted]
            /\ RunsTo(r, request[r].id, request[r].other, "done")
            /\ UNCHANGED bus
<1>1. request[r].step \in Steps \ Over /\ request[r].step = "delete" /\ UNCHANGED bus
  BY DEF DeleteRow, Steps, Over
<1>2. CASE Updatable(request[r].id)
  BY <1>1, <1>2, GotoRuns DEF DeleteRow, Updatable, Steps, Over
<1>3. CASE ~ Updatable(request[r].id)
  BY <1>1, <1>3, GotoRuns DEF DeleteRow, Refuses, Steps, Over
<1> QED
  BY <1>2, <1>3

LEMMA EmitEventRuns ==
  ASSUME FriendshipsTypeOK, NEW r \in Requests, EmitEvent(r)
  PROVE  /\ request[r].step = "emit"
         /\ Emit(r, EventOf(request[r].call), request[r].other)
         /\ RunsTo(r, request[r].id, request[r].other, "done")
         /\ UNCHANGED friendship
BY GotoRuns DEF EmitEvent, Steps, Over

-----------------------------------------------------------------------------
(* What a step does.                                                       *)

Finds(r) ==
  /\ request[r].step = "find" /\ UNCHANGED <<friendship, bus>>
  /\ \/ /\ request[r].call \in {"request", "block"}
        /\ RunsTo(r, request[r].id, request[r].other, "create")
        /\ Between(request[r].user, request[r].other) = {}
     \/ /\ request[r].call = "accept" /\ request[r].id \in Existing
        /\ MayAccept(request[r].id, request[r].user)
        /\ RunsTo(r, request[r].id, friendship[request[r].id].requester, "update")
     \/ /\ request[r].call = "block"
        /\ request'[r].id \in Between(request[r].user, request[r].other)
        /\ RunsTo(r, request'[r].id, request[r].other, "update")
     \/ /\ request[r].call = "remove"
        /\ RunsTo(r, request[r].id, request[r].other, "delete")

Creates(r) ==
  /\ request[r].step = "create" /\ ~ Taken(request[r].user, request[r].other)
  /\ request'[r].id \in Ids /\ friendship[request'[r].id] = Unused
  /\ friendship' = [friendship EXCEPT ![request'[r].id] =
                      Pending(request[r].user, request[r].other)]
  /\ RunsTo(r, request'[r].id, request[r].other,
            IF request[r].call = "block" THEN "update" ELSE "emit")
  /\ UNCHANGED bus

Marks(r) ==
  /\ request[r].step = "update" /\ request[r].id \in Existing
  /\ friendship' = [friendship EXCEPT ![request[r].id] =
       Marked(request[r].id, IF request[r].call = "block" THEN "BLOCKED" ELSE "ACCEPTED")]
  /\ RunsTo(r, request[r].id, request[r].other,
            IF request[r].call = "block" THEN "done" ELSE "emit")
  /\ UNCHANGED bus

Deletes(r) ==
  /\ request[r].step = "delete" /\ request[r].id \in Existing
  /\ friendship' = [friendship EXCEPT ![request[r].id] = Deleted]
  /\ RunsTo(r, request[r].id, request[r].other, "done")
  /\ UNCHANGED bus

Emits(r) ==
  /\ request[r].step = "emit"
  /\ Emit(r, EventOf(request[r].call), request[r].other)
  /\ RunsTo(r, request[r].id, request[r].other, "done")
  /\ UNCHANGED friendship

\* Every statement is one of these.
LEMMA HandleMoves ==
  ASSUME FriendshipsTypeOK, NEW r \in Requests, Handle(r)
  PROVE  /\ \/ /\ Refuses(r) /\ request[r].step \in {"find", "create", "update", "delete"}
               /\ request[r].step = "update" => request[r].id \notin Existing
            \/ Finds(r) \/ Creates(r) \/ Marks(r) \/ Deletes(r) \/ Emits(r)
         /\ Runs(r)
<1>1. CASE FindNone(r)
  <2>1. \/ /\ Refuses(r) /\ request[r].step \in {"find", "create", "update", "delete"}
           /\ request[r].step = "update" => request[r].id \notin Existing
        \/ Finds(r)
    BY <1>1, FindNoneRuns DEF Finds, At
  <2> QED
    BY <2>1 DEF Refuses, Finds, RunsTo
<1>2. CASE FindToAccept(r)
  <2>1. \/ /\ Refuses(r) /\ request[r].step \in {"find", "create", "update", "delete"}
           /\ request[r].step = "update" => request[r].id \notin Existing
        \/ Finds(r)
    BY <1>2, FindToAcceptRuns DEF Finds, At
  <2> QED
    BY <2>1 DEF Refuses, Finds, RunsTo
<1>3. CASE FindToBlock(r)
  <2>1. Finds(r)
    BY <1>3, FindToBlockRuns DEF Finds, At
  <2> QED
    BY <2>1 DEF Finds, RunsTo
<1>4. CASE FindToRemove(r)
  <2>1. \/ /\ Refuses(r) /\ request[r].step \in {"find", "create", "update", "delete"}
           /\ request[r].step = "update" => request[r].id \notin Existing
        \/ Finds(r)
    BY <1>4, FindToRemoveRuns DEF Finds, At
  <2> QED
    BY <2>1 DEF Refuses, Finds, RunsTo
<1>5. CASE CreateRow(r)
  <2>1. \/ /\ Refuses(r) /\ request[r].step \in {"find", "create", "update", "delete"}
           /\ request[r].step = "update" => request[r].id \notin Existing
        \/ Creates(r)
    BY <1>5, CreateRowRuns DEF Creates
  <2> QED
    BY <2>1 DEF Refuses, Creates, RunsTo
<1>6. CASE UpdateStatus(r)
  <2>1. \/ /\ Refuses(r) /\ request[r].step \in {"find", "create", "update", "delete"}
           /\ request[r].step = "update" => request[r].id \notin Existing
        \/ Marks(r)
    BY <1>6, UpdateStatusRuns DEF Marks
  <2> QED
    BY <2>1 DEF Refuses, Marks, RunsTo
<1>7. CASE DeleteRow(r)
  <2>1. \/ /\ Refuses(r) /\ request[r].step \in {"find", "create", "update", "delete"}
           /\ request[r].step = "update" => request[r].id \notin Existing
        \/ Deletes(r)
    BY <1>7, DeleteRowRuns DEF Deletes
  <2> QED
    BY <2>1 DEF Refuses, Deletes, RunsTo
<1>8. CASE EmitEvent(r)
  <2>1. Emits(r)
    BY <1>8, EmitEventRuns DEF Emits
  <2> QED
    BY <2>1 DEF Emits, RunsTo
<1> QED
  BY <1>1, <1>2, <1>3, <1>4, <1>5, <1>6, <1>7, <1>8 DEF Handle

\* A call that comes names a row there has been, or the other user.
LEMMA ReceiveRuns ==
  ASSUME FriendshipsTypeOK, NEW r \in Requests, Receive(r)
  PROVE  /\ request[r] = Idle /\ request'[r] # Idle /\ request'[r] \in RequestRecords
         /\ request'[r].step = IF request'[r].call = "elsewhere" THEN "emit" ELSE "find"
         /\ request'[r].before = {s \in Requests : Ended(s)}
         /\ \A s \in Requests : s # r => request'[s] = request[s]
         /\ request' \in [Requests -> RequestRecords \cup {Idle}]
         /\ UNCHANGED <<friendship, bus>>
<1>1. PICK call \in Calls, user \in Users, other \in Users, id \in Ids :
        /\ request[r] = Idle
        /\ call = "request" => user # other
        /\ call \notin {"accept", "remove"} => id = 1
        /\ call \in {"accept", "remove"} => friendship[id] # Unused
        /\ call \notin {"request", "block"} => other = user
        /\ request' = [request EXCEPT ![r] = Open(call, user, other, id)]
        /\ UNCHANGED <<friendship, bus>>
  BY DEF Receive
<1>2. request'[r] = Open(call, user, other, id)
  BY <1>1 DEF FriendshipsTypeOK
<1>3. request'[r] \in RequestRecords
  BY <1>2 DEF Open, RequestRecords
<1>4. /\ request'[r].step = IF request'[r].call = "elsewhere" THEN "emit" ELSE "find"
      /\ request'[r].before = {s \in Requests : Ended(s)}
  BY <1>2 DEF Open
<1>5. request'[r] # Idle
  BY <1>4 DEF Idle
<1>6. \A s \in Requests : s # r => request'[s] = request[s]
  BY <1>1 DEF FriendshipsTypeOK
<1>7. request' \in [Requests -> RequestRecords \cup {Idle}]
  BY <1>1, <1>2, <1>3 DEF FriendshipsTypeOK
<1> QED
  BY <1>1, <1>3, <1>4, <1>5, <1>6, <1>7

\* What the end of the process leaves of a call.
LEMMA LoseRuns ==
  ASSUME FriendshipsTypeOK, LoseRequests, NEW s \in Requests
  PROVE  /\ request[s] = Idle \/ Ended(s) => request'[s] = request[s]
         /\ (request[s] # Idle /\ ~ Ended(s)) =>
              /\ request'[s] \in RequestRecords /\ request'[s] # Idle
              /\ request'[s].step = "lost" /\ request'[s].id = request[s].id
              /\ request'[s].call = request[s].call /\ request'[s].user = request[s].user
              /\ request'[s].other = request[s].other /\ request'[s].before = request[s].before
<1>1. CASE request[s] = Idle \/ Ended(s)
  BY <1>1 DEF LoseRequests
<1>2. CASE request[s] # Idle /\ ~ Ended(s)
  <2>1. request'[s] = [request[s] EXCEPT !.step = "lost"]
    BY <1>2 DEF LoseRequests
  <2>2. request[s] \in RequestRecords
    BY <1>2, MadeType
  <2>3. /\ request'[s] \in RequestRecords
        /\ request'[s].step = "lost" /\ request'[s].id = request[s].id
        /\ request'[s].call = request[s].call /\ request'[s].user = request[s].user
        /\ request'[s].other = request[s].other /\ request'[s].before = request[s].before
    BY <2>1, <2>2 DEF RequestRecords
  <2>4. request'[s] # Idle
    BY <2>3 DEF Idle
  <2> QED
    BY <1>2, <2>3, <2>4
<1> QED
  BY <1>1, <1>2

\* Who may step.
LEMMA NextSplit ==
  ASSUME [Next]_vars
  PROVE  \/ \E r \in Requests : Receive(r) /\ UNCHANGED <<notification, client>>
         \/ \E r \in Requests : Handle(r) /\ UNCHANGED <<notification, client>>
         \/ NotificationsNext /\ UNCHANGED <<friendship, request>>
         \/ LoseRequests /\ LoseDeliveries
         \/ UNCHANGED <<friendship, request, bus, notification, client>>
BY DEF Next, FriendshipsNext, Crash, vars, friendshipVars, notificationVars

\* What a call was made with stays, and a call that has ended is never taken up again.
LEMMA MadeStays ==
  ASSUME FriendshipsTypeOK, [Next]_vars, NEW s \in Requests, request[s] # Idle
  PROVE  /\ request'[s] # Idle
         /\ request'[s].call = request[s].call /\ request'[s].user = request[s].user
         /\ request'[s].before = request[s].before
         /\ Ended(s) => request'[s] = request[s] /\ Ended(s)'
<1>1. ASSUME NEW r \in Requests, Receive(r)
      PROVE  request'[s] = request[s]
  BY <1>1, ReceiveRuns
<1>2. ASSUME NEW r \in Requests, Handle(r)
      PROVE  /\ request'[s] # Idle
             /\ request'[s].call = request[s].call /\ request'[s].user = request[s].user
             /\ request'[s].before = request[s].before
             /\ Ended(s) => request'[s] = request[s] /\ Ended(s)'
  <2>1. Runs(r)
    BY <1>2, HandleMoves
  <2> QED
    BY <2>1 DEF Runs, Ended
<1>3. CASE LoseRequests
  BY <1>3, LoseRuns DEF Ended
<1>4. CASE request' = request
  BY <1>4 DEF Ended
<1> QED
  BY <1>1, <1>2, <1>3, <1>4, NextSplit DEF Ended

-----------------------------------------------------------------------------
(* The table of friendships.                                               *)

\* A row a statement creates or marks is a row.
LEMMA RowType ==
  ASSUME FriendshipsTypeOK, NEW i \in Existing, NEW u \in Users, NEW v \in Users,
         NEW status \in Statuses
  PROVE  /\ Marked(i, status) \in FriendshipRows /\ Marked(i, status).status = status
         /\ Marked(i, status).requester = friendship[i].requester
         /\ Marked(i, status).addressee = friendship[i].addressee
<1>1. friendship[i] \in FriendshipRows
  BY ExistingType DEF Existing
<1> QED
  BY <1>1 DEF Marked, FriendshipRows

LEMMA PendingType ==
  ASSUME NEW u \in Users, NEW v \in Users
  PROVE  /\ Pending(u, v) \in FriendshipRows /\ Pending(u, v).status = "PENDING"
         /\ Pending(u, v).requester = u /\ Pending(u, v).addressee = v
BY DEF Pending, FriendshipRows, Statuses

\* A row that is there stays as it is, is marked, or is deleted.
LEMMA RowChange ==
  ASSUME FriendshipsTypeOK, NEW r \in Requests, Handle(r), NEW i \in Existing
  PROVE  \/ friendship'[i] = friendship[i]
         \/ /\ Marks(r) /\ request[r].id = i
            /\ friendship'[i] = Marked(i, IF request[r].call = "block" THEN "BLOCKED" ELSE "ACCEPTED")
         \/ Deletes(r) /\ request[r].id = i /\ friendship'[i] = Deleted
<1>0. i \in Ids /\ friendship[i] # Unused
  BY DEF Existing
<1>1. CASE Creates(r)
  BY <1>0, <1>1 DEF Creates, FriendshipsTypeOK
<1>2. CASE Marks(r)
  BY <1>0, <1>2 DEF Marks, FriendshipsTypeOK
<1>3. CASE Deletes(r)
  BY <1>0, <1>3 DEF Deletes, FriendshipsTypeOK
<1>4. CASE UNCHANGED friendship
  BY <1>4
<1> QED
  BY <1>1, <1>2, <1>3, <1>4, HandleMoves DEF Refuses, Finds, Emits

\* What is not there stays away, or is created.
LEMMA NewRow ==
  ASSUME FriendshipsTypeOK, NEW r \in Requests, Handle(r), NEW i \in Ids, i \notin Existing
  PROVE  \/ friendship'[i] = friendship[i]
         \/ /\ Creates(r) /\ request'[r].id = i /\ friendship[i] = Unused
            /\ friendship'[i] = Pending(request[r].user, request[r].other)
<1>1. CASE Creates(r)
  BY <1>1 DEF Creates, FriendshipsTypeOK
<1>2. CASE Marks(r)
  BY <1>2 DEF Marks, FriendshipsTypeOK
<1>3. CASE Deletes(r)
  BY <1>3 DEF Deletes, FriendshipsTypeOK
<1>4. CASE UNCHANGED friendship
  BY <1>4
<1> QED
  BY <1>1, <1>2, <1>3, <1>4, HandleMoves DEF Refuses, Finds, Emits

\* The table stays a table, and a row that was there never becomes unused.
LEMMA FriendshipTableType ==
  ASSUME FriendshipsTypeOK, NEW r \in Requests, Handle(r)
  PROVE  friendship' \in [Ids -> FriendshipRows \cup {Unused, Deleted}]
<1>1. request[r].user \in Users /\ request[r].other \in Users
  BY HandleMoves DEF Runs, RequestRecords
<1>2. \A i \in Existing : friendship'[i] \in FriendshipRows \cup {Unused, Deleted}
  <2> SUFFICES ASSUME NEW i \in Existing
               PROVE  friendship'[i] \in FriendshipRows \cup {Unused, Deleted}
    OBVIOUS
  <2>1. "BLOCKED" \in Statuses /\ "ACCEPTED" \in Statuses
    BY DEF Statuses
  <2>2. friendship[i] \in FriendshipRows
    BY ExistingType DEF Existing
  <2> QED
    BY <1>1, <2>1, <2>2, RowChange, RowType
<1>3. \A i \in Ids \ Existing : friendship'[i] \in FriendshipRows \cup {Unused, Deleted}
  <2> SUFFICES ASSUME NEW i \in Ids, i \notin Existing
               PROVE  friendship'[i] \in FriendshipRows \cup {Unused, Deleted}
    OBVIOUS
  <2>1. friendship[i] \in {Unused, Deleted}
    BY DEF Existing
  <2> QED
    BY <1>1, <2>1, NewRow, PendingType
<1>4. friendship' = [i \in Ids |-> friendship'[i]]
  BY HandleMoves DEF Refuses, Finds, Creates, Marks, Deletes, Emits, FriendshipsTypeOK
<1> QED
  BY <1>2, <1>3, <1>4

\* A row that stays in the table keeps its parties, and is never pending again; its id is
\* given to no other.
LEMMA RowStays ==
  ASSUME FriendshipsTypeOK, [Next]_vars, NEW i \in Ids, friendship[i] # Unused
  PROVE  /\ friendship'[i] # Unused
         /\ i \in Existing' => /\ i \in Existing
                               /\ friendship'[i].requester = friendship[i].requester
                               /\ friendship'[i].addressee = friendship[i].addressee
                               /\ friendship'[i].status = "PENDING" => friendship[i].status = "PENDING"
<1>1. CASE UNCHANGED friendship
  BY <1>1 DEF Existing
<1>2. ASSUME NEW r \in Requests, Handle(r)
      PROVE  /\ friendship'[i] # Unused
             /\ i \in Existing' => /\ i \in Existing
                                   /\ friendship'[i].requester = friendship[i].requester
                                   /\ friendship'[i].addressee = friendship[i].addressee
                                   /\ friendship'[i].status = "PENDING"
                                        => friendship[i].status = "PENDING"
  <2>1. CASE i \in Existing
    <3>1. friendship'[i] \in FriendshipRows \/ friendship'[i] = Deleted
      <4>1. friendship[i] \in FriendshipRows /\ request[r].user \in Users
        BY <1>2, <2>1, ExistingType, HandleMoves DEF Runs, RequestRecords
      <4>2. "BLOCKED" \in Statuses /\ "ACCEPTED" \in Statuses
        BY DEF Statuses
      <4> QED
        BY <1>2, <2>1, <4>1, <4>2, RowChange, RowType
    <3>2. friendship'[i] # Unused
      BY <3>1, ExistingType
    <3>3. CASE Marks(r) /\ request[r].id = i
               /\ friendship'[i] = Marked(i, IF request[r].call = "block" THEN "BLOCKED" ELSE "ACCEPTED")
      <4>1. request[r].user \in Users
        BY <1>2, HandleMoves DEF Runs, RequestRecords
      <4>2. "BLOCKED" \in Statuses /\ "ACCEPTED" \in Statuses
        BY DEF Statuses
      <4> QED
        BY <2>1, <3>2, <3>3, <4>1, <4>2, RowType
    <3>4. CASE friendship'[i] = friendship[i]
      BY <2>1, <3>2, <3>4
    <3>5. CASE friendship'[i] = Deleted
      BY <3>2, <3>5 DEF Existing
    <3> QED
      BY <1>2, <2>1, <3>3, <3>4, <3>5, RowChange
  <2>2. CASE i \notin Existing
    <3>1. friendship'[i] = friendship[i] /\ friendship[i] = Deleted
      BY <1>2, <2>2, NewRow DEF Existing
    <3> QED
      BY <3>1, ExistingType DEF Existing
  <2> QED
    BY <2>1, <2>2
<1> QED
  BY <1>1, <1>2, NextSplit DEF Receive, LoseRequests

\* A row that comes to be is created.
LEMMA RowCreated ==
  ASSUME FriendshipsTypeOK, [Next]_vars, NEW i \in Ids, i \in Existing', i \notin Existing
  PROVE  \E r \in Requests : /\ Handle(r) /\ Creates(r) /\ request'[r].id = i
                             /\ friendship'[i] = Pending(request[r].user, request[r].other)
<1>1. ~ (UNCHANGED friendship)
  BY DEF Existing
<1>2. PICK r \in Requests : Handle(r)
  BY <1>1, NextSplit DEF Receive, LoseRequests
<1>3. friendship'[i] # friendship[i]
  BY DEF Existing
<1> QED
  BY <1>2, <1>3, NewRow


-----------------------------------------------------------------------------
(* Calls and types.                                                        *)

\* The statements a call passes, and what it knows of those that had ended when it came.
CallInv ==
  \A r \in Requests : request[r] # Idle =>
    /\ \A s \in request[r].before : request[s] # Idle /\ Ended(s)
    /\ request[r].call = "request"   => request[r].step \in {"find", "create", "emit"} \cup Over
    /\ request[r].call = "accept"    => request[r].step \in {"find", "update", "emit"} \cup Over
    /\ request[r].call = "block"     => request[r].step \in {"find", "create", "update"} \cup Over
    /\ request[r].call = "remove"    => request[r].step \in {"find", "delete"} \cup Over
    /\ request[r].call = "elsewhere" => request[r].step \in {"emit"} \cup Over

\* What r's step says of its call.
CallSteps(r) ==
  /\ request[r].call = "request"   => request[r].step \in {"find", "create", "emit"} \cup Over
  /\ request[r].call = "accept"    => request[r].step \in {"find", "update", "emit"} \cup Over
  /\ request[r].call = "block"     => request[r].step \in {"find", "create", "update"} \cup Over
  /\ request[r].call = "remove"    => request[r].step \in {"find", "delete"} \cup Over
  /\ request[r].call = "elsewhere" => request[r].step \in {"emit"} \cup Over

\* The statement a call is at names it, but for creation and marking, which have two.
LEMMA CallsAt ==
  ASSUME FriendshipsTypeOK, CallInv, NEW r \in Requests, request[r].step \in Steps
  PROVE  /\ request[r].step = "create" => request[r].call \in {"request", "block"}
         /\ request[r].step = "update" => request[r].call \in {"accept", "block"}
         /\ request[r].step = "delete" => request[r].call = "remove"
         /\ request[r].step = "emit"   => request[r].call \in {"request", "accept", "elsewhere"}
<1>1. request[r] # Idle /\ request[r].call \in Calls
  BY StepType DEF RequestRecords
<1> QED
  BY <1>1 DEF CallInv, Calls, Over

\* A statement takes a call to the next of its own.
LEMMA CallStep ==
  ASSUME FriendshipsTypeOK, CallInv, [Next]_vars
  PROVE  CallInv'
<1> SUFFICES ASSUME NEW r \in Requests, request'[r] # Idle
             PROVE  CallSteps(r)' /\ \A s \in request'[r].before : request'[s] # Idle /\ Ended(s)'
  BY DEF CallInv, CallSteps
<1>1. ASSUME NEW s \in Requests, request[s] # Idle, Ended(s)
      PROVE  request'[s] # Idle /\ Ended(s)'
  BY <1>1, MadeStays
<1>2. CASE request[r] = Idle
  <2>1. Receive(r)
    <3>1. ASSUME NEW q \in Requests, Receive(q), q # r PROVE FALSE
      BY <1>2, <3>1, ReceiveRuns
    <3>2. ASSUME NEW q \in Requests, Handle(q) PROVE FALSE
      BY <1>2, <3>2, HandleMoves DEF Runs
    <3>3. CASE LoseRequests
      BY <1>2, <3>3, LoseRuns
    <3> QED
      BY <1>2, <3>1, <3>2, <3>3, NextSplit
  <2>2. /\ request'[r].step = IF request'[r].call = "elsewhere" THEN "emit" ELSE "find"
        /\ request'[r].before = {s \in Requests : Ended(s)}
    BY <2>1, ReceiveRuns
  <2>3. \A s \in Requests : Ended(s) => request[s] # Idle
    BY StepType DEF Ended, Steps, Over
  <2> QED
    BY <1>1, <2>2, <2>3 DEF CallSteps
<1>3. CASE request[r] # Idle
  <2>1. request[r] \in RequestRecords /\ request'[r].before = request[r].before
    BY <1>3, MadeType, MadeStays
  <2>2. \A s \in request'[r].before : request'[s] # Idle /\ Ended(s)'
    BY <1>1, <1>3, <2>1 DEF CallInv, RequestRecords
  <2>3. CallSteps(r)
    BY <1>3 DEF CallInv, CallSteps
  <2>4. ASSUME NEW q \in Requests, Handle(q) PROVE CallSteps(r)'
    <3>1. CASE q # r
      BY <2>3, <2>4, <3>1, HandleMoves DEF Runs, CallSteps
    <3>2. CASE q = r
      <4>1. request[r].step \in Steps
        BY <2>1 DEF RequestRecords, Steps, Over
      <4>2. CASE Refuses(r)
        BY <1>3, <4>1, <4>2, CallsAt DEF Refuses, RunsTo, Runs, CallSteps, Over
      <4>3. CASE Finds(r)
        BY <4>3 DEF Finds, RunsTo, Runs, CallSteps, Over
      <4>4. CASE Creates(r)
        BY <4>1, <4>4, CallsAt DEF Creates, RunsTo, Runs, CallSteps, Over
      <4>5. CASE Marks(r)
        BY <4>1, <4>5, CallsAt DEF Marks, RunsTo, Runs, CallSteps, Over
      <4>6. CASE Deletes(r)
        BY <4>6 DEF Deletes, RunsTo, Runs, CallSteps, Over
      <4>7. CASE Emits(r)
        <5>1. RunsTo(r, request[r].id, request[r].other, "done")
          BY <4>7 DEF Emits
        <5> QED
          BY <5>1 DEF RunsTo, CallSteps, Over
      <4> QED
        BY <2>4, <3>2, <4>2, <4>3, <4>4, <4>5, <4>6, <4>7, HandleMoves
    <3> QED
      BY <3>1, <3>2
  <2>5. ASSUME NEW q \in Requests, Receive(q) PROVE CallSteps(r)'
    BY <1>3, <2>3, <2>5, ReceiveRuns DEF CallSteps
  <2>6. ASSUME LoseRequests PROVE CallSteps(r)'
    BY <1>3, <2>3, <2>6, LoseRuns DEF CallSteps, Over
  <2>7. ASSUME UNCHANGED <<friendship, request>> PROVE CallSteps(r)'
    BY <2>3, <2>7 DEF CallSteps
  <2> QED
    BY <2>2, <2>4, <2>5, <2>6, <2>7, NextSplit
<1> QED
  BY <1>2, <1>3

\* Who is to be told of a friendship is a user, and the events are those of the bus.
LEMMA EmitType ==
  ASSUME FriendshipsTypeOK, CallInv, NEW r \in Requests, Emits(r), bus \subseteq Deliveries
  PROVE  /\ [by |-> r, event |-> EventOf(request[r].call), to |-> request[r].other, step |-> "send"]
              \in Deliveries
         /\ bus' \subseteq Deliveries
<1>1. request[r].step = "emit"
  BY DEF Emits
<1>2. request[r].call \in {"request", "accept", "elsewhere"} /\ request[r].other \in Users
  BY <1>1, CallsAt, StepType DEF Steps, RequestRecords
<1>3. EventOf(request[r].call) \in Events
  BY <1>2 DEF EventOf, Events
<1>4. [by |-> r, event |-> EventOf(request[r].call), to |-> request[r].other, step |-> "send"]
        \in Deliveries
  BY <1>2, <1>3 DEF Deliveries
<1>5. Emit(r, EventOf(request[r].call), request[r].other)
  BY DEF Emits
<1> QED
  BY <1>4, <1>5 DEF Emit

\* What is stored of a delivery.
LEMMA NotificationType ==
  ASSUME NEW d \in Deliveries
  PROVE  /\ Notification(d) \in Notifications
         /\ Notification(d).by = d.by /\ Notification(d).event = d.event
         /\ Notification(d).to = d.to /\ Key(Notification(d)) = Key(d)
BY DEF Deliveries, Notification, Notifications, Key

\* What is left of a delivery whose notification is stored.
LEMMA PushType ==
  ASSUME NEW d \in Deliveries
  PROVE  /\ [d EXCEPT !.step = "push"] \in Deliveries
         /\ [d EXCEPT !.step = "push"].by = d.by /\ [d EXCEPT !.step = "push"].to = d.to
         /\ [d EXCEPT !.step = "push"].step = "push" /\ Key([d EXCEPT !.step = "push"]) = Key(d)
BY DEF Deliveries, Key

\* Reading changes nothing that tells a notification from another.
LEMMA ReadType ==
  ASSUME NEW n \in Notifications
  PROVE  /\ [n EXCEPT !.read = TRUE] \in Notifications
         /\ [n EXCEPT !.read = TRUE].by = n.by /\ [n EXCEPT !.read = TRUE].to = n.to
         /\ Key([n EXCEPT !.read = TRUE]) = Key(n)
BY DEF Notifications, Key

\* Keys are what a client is shown.
LEMMA KeyType ==
  /\ \A n \in Notifications : Key(n) \in Requests \X Events \X Users
  /\ \A d \in Deliveries : Key(d) \in Requests \X Events \X Users
BY DEF Notifications, Deliveries, Key


\* What reading leaves of the table.
LEMMA ReadRows ==
  ASSUME NotificationsTypeOK, NEW rows \in SUBSET notification, Read(rows)
  PROVE  /\ notification' \subseteq Notifications
         /\ \A n \in notification' : \E m \in notification :
              m.by = n.by /\ m.to = n.to /\ Key(m) = Key(n)
<1>1. ASSUME NEW n \in notification'
      PROVE  /\ n \in Notifications
             /\ \E m \in notification : m.by = n.by /\ m.to = n.to /\ Key(m) = Key(n)
  <2>1. CASE n \in notification
    BY <2>1 DEF NotificationsTypeOK
  <2>2. CASE n \notin notification
    <3>1. PICK m \in rows : n = [m EXCEPT !.read = TRUE]
      BY <2>2 DEF Read
    <3>2. m \in notification /\ m \in Notifications
      BY DEF NotificationsTypeOK
    <3> QED
      BY <3>1, <3>2, ReadType
  <2> QED
    BY <2>1, <2>2
<1> QED
  BY <1>1

\* The steps that mark what is stored as read.
LEMMA MarkRows ==
  ASSUME NEW u \in Clients, MarkAllRead(u) \/ \E n \in notification : MarkRead(u, n)
  PROVE  (\E rows \in SUBSET notification : Read(rows)) /\ UNCHANGED <<client, bus>>
BY DEF MarkAllRead, MarkRead, Of

\* A client that lists is shown what is stored for its user.
LEMMA ListShows ==
  ASSUME NotificationsTypeOK, NEW u \in Clients, List(u)
  PROVE  /\ client'[u].step = "listed"
         /\ client'[u].shown = client[u].shown \cup {Key(n) : n \in Of(u)}
         /\ client'[u] \in ClientRecords
<1>1. client'[u] = [step |-> "listed", shown |-> client[u].shown \cup {Key(n) : n \in Of(u)}]
  BY DEF List, NotificationsTypeOK
<1>2. client[u].shown \subseteq Requests \X Events \X Users
  BY DEF NotificationsTypeOK, ClientRecords
<1>3. \A n \in Of(u) : Key(n) \in Requests \X Events \X Users
  BY KeyType DEF Of, NotificationsTypeOK
<1>4. {Key(n) : n \in Of(u)} \subseteq Requests \X Events \X Users
  BY <1>3
<1> QED
  BY <1>1, <1>2, <1>4 DEF ClientRecords

\* A push shows the notification to its user's client, if there is one.
LEMMA PushShows ==
  ASSUME NotificationsTypeOK, NEW d \in bus, Push(d), NEW u \in Clients
  PROVE  /\ client'[u].step = client[u].step /\ client'[u] \in ClientRecords
         /\ client[u].shown \subseteq client'[u].shown
         /\ (u = d.to /\ client[u].step # "offline") => Key(d) \in client'[u].shown
<1>1. client[u] \in ClientRecords
  BY DEF NotificationsTypeOK
<1>2. CASE u = d.to /\ client[u].step # "offline"
  <2>1. client'[u] = [client[u] EXCEPT !.shown = @ \cup {Key(d)}]
    BY <1>2 DEF Push
  <2>2. Key(d) \in Requests \X Events \X Users
    BY KeyType DEF NotificationsTypeOK
  <2> QED
    BY <1>1, <1>2, <2>1, <2>2 DEF ClientRecords
<1>3. CASE ~ (u = d.to /\ client[u].step # "offline")
  <2>1. client'[u] = client[u]
    BY <1>3 DEF Push
  <2> QED
    BY <1>1, <1>3, <2>1
<1> QED
  BY <1>2, <1>3

\* The notifications, deliveries and clients keep their types.
LEMMA NotificationsStep ==
  ASSUME NotificationsTypeOK, NotificationsNext
  PROVE  NotificationsTypeOK'
<1>1. ASSUME NEW d \in bus, Create(d)
      PROVE  NotificationsTypeOK'
  <2>1. d \in Deliveries
    BY DEF NotificationsTypeOK
  <2> QED
    BY <1>1, <2>1, NotificationType, PushType DEF Create, NotificationsTypeOK
<1>2. ASSUME NEW d \in bus, CreateFails(d)
      PROVE  NotificationsTypeOK'
  BY <1>2 DEF CreateFails, NotificationsTypeOK
<1>3. ASSUME NEW d \in bus, Push(d)
      PROVE  NotificationsTypeOK'
  <2>1. \A u \in Clients : client'[u] \in ClientRecords
    BY <1>3, PushShows
  <2>2. client' = [u \in Clients |-> client'[u]]
    BY <1>3 DEF Push
  <2>3. bus' = bus \ {d} /\ notification' = notification
    BY <1>3 DEF Push
  <2> QED
    BY <2>1, <2>2, <2>3 DEF NotificationsTypeOK
<1>4. ASSUME NEW u \in Clients, Join(u)
      PROVE  NotificationsTypeOK'
  <2>1. client[u] \in ClientRecords
    BY DEF NotificationsTypeOK
  <2>2. client' = [client EXCEPT ![u] = [client[u] EXCEPT !.step = "joined"]]
    BY <1>4 DEF Join
  <2>3. [client[u] EXCEPT !.step = "joined"] \in ClientRecords
    BY <2>1 DEF ClientRecords
  <2> QED
    BY <1>4, <2>2, <2>3 DEF Join, NotificationsTypeOK
<1>5. ASSUME NEW u \in Clients, List(u)
      PROVE  NotificationsTypeOK'
  <2>1. client'[u] \in ClientRecords
    BY <1>5, ListShows
  <2>2. \E record : client' = [client EXCEPT ![u] = record]
    BY <1>5 DEF List
  <2>3. bus' = bus /\ notification' = notification
    BY <1>5 DEF List
  <2> QED
    BY <2>1, <2>2, <2>3 DEF NotificationsTypeOK
<1>6. ASSUME NEW u \in Clients, Disconnect(u)
      PROVE  NotificationsTypeOK'
  <2>1. Offline \in ClientRecords
    BY DEF Offline, ClientRecords
  <2> QED
    BY <1>6, <2>1 DEF Disconnect, NotificationsTypeOK
<1>7. ASSUME NEW u \in Clients, MarkAllRead(u) \/ \E n \in notification : MarkRead(u, n)
      PROVE  NotificationsTypeOK'
  BY <1>7, MarkRows, ReadRows DEF NotificationsTypeOK
<1> QED
  BY <1>1, <1>2, <1>3, <1>4, <1>5, <1>6, <1>7 DEF NotificationsNext

\* Friendships, calls, notifications and clients keep their types.
LEMMA TypeStep ==
  ASSUME TypeOK, CallInv, [Next]_vars
  PROVE  TypeOK'
<1> USE DEF TypeOK
<1>1. ASSUME NEW r \in Requests, Receive(r), UNCHANGED <<notification, client>>
      PROVE  TypeOK'
  BY <1>1, ReceiveRuns DEF FriendshipsTypeOK, NotificationsTypeOK
<1>2. ASSUME NEW r \in Requests, Handle(r), UNCHANGED <<notification, client>>
      PROVE  TypeOK'
  <2>1. request' \in [Requests -> RequestRecords \cup {Idle}]
    BY <1>2, HandleMoves DEF Runs
  <2>2. bus' \subseteq Deliveries
    <3>1. CASE Emits(r)
      BY <3>1, EmitType DEF NotificationsTypeOK
    <3>2. CASE UNCHANGED bus
      BY <3>2 DEF NotificationsTypeOK
    <3> QED
      BY <1>2, <3>1, <3>2, HandleMoves DEF Refuses, Finds, Creates, Marks, Deletes
  <2> QED
    BY <1>2, <2>1, <2>2, FriendshipTableType DEF FriendshipsTypeOK, NotificationsTypeOK
<1>3. CASE NotificationsNext /\ UNCHANGED <<friendship, request>>
  BY <1>3, NotificationsStep DEF FriendshipsTypeOK
<1>4. CASE LoseRequests /\ LoseDeliveries
  <2>1. \A s \in Requests : request'[s] \in RequestRecords \cup {Idle}
    BY <1>4, LoseRuns DEF FriendshipsTypeOK
  <2>2. request' = [s \in Requests |-> request'[s]]
    BY <1>4 DEF LoseRequests
  <2>3. Offline \in ClientRecords
    BY DEF Offline, ClientRecords
  <2> QED
    BY <1>4, <2>1, <2>2, <2>3 DEF LoseRequests, LoseDeliveries, FriendshipsTypeOK, NotificationsTypeOK
<1>5. CASE UNCHANGED <<friendship, request, bus, notification, client>>
  BY <1>5 DEF FriendshipsTypeOK, NotificationsTypeOK
<1> QED
  BY <1>1, <1>2, <1>3, <1>4, <1>5, NextSplit

\* Before the first call the tables are empty.
LEMMA SocialInit ==
  ASSUME Init
  PROVE  TypeOK /\ CallInv
<1>1. Idle \in RequestRecords \cup {Idle}
  OBVIOUS
<1>2. Offline \in ClientRecords
  BY DEF Offline, ClientRecords
<1> QED
  BY <1>1, <1>2 DEF Init, FriendshipsInit, NotificationsInit, TypeOK, FriendshipsTypeOK,
                    NotificationsTypeOK, CallInv

\* The rows, the calls, the notifications, the deliveries and the clients are of their types:
\* in particular an event is emitted by none but the calls that have one.
THEOREM SocialTypeCorrect == Spec => []TypeOK
<1>1. (TypeOK /\ CallInv) /\ [Next]_vars => (TypeOK /\ CallInv)'
  BY TypeStep, CallStep DEF TypeOK
<1> QED
  BY <1>1, SocialInit, PTL DEF Spec

-----------------------------------------------------------------------------
(* A block that has answered.                                              *)

BlockDone(r) == Made(r, {"block"}) /\ request[r].step = "done"

\* The row of a block that is done is never pending again, so an accept that came later does
\* not get past its read, and one that marked the row overlapped the block.
BlockInv ==
  \A r \in Requests : BlockDone(r) =>
    /\ friendship[request[r].id] # Unused
    /\ request[r].id \in Existing => friendship[request[r].id].status # "PENDING"
    /\ \A s \in Requests :
         (At(s, "accept", "update") /\ request[s].id = request[r].id) => r \notin request[s].before

\* Two calls that were under way at the same time were so forever.
LEMMA OverlappedStays ==
  ASSUME FriendshipsTypeOK, [Next]_vars, NEW r \in Requests, NEW s \in Requests,
         request[r] # Idle, request[s] # Idle, Overlapped(r, s)
  PROVE  Overlapped(r, s)'
BY MadeStays DEF Overlapped

\* A call that has not ended is before no other.
LEMMA NotBefore ==
  ASSUME CallInv, NEW r \in Requests, NEW s \in Requests, request[r] # Idle, ~ Ended(s)
  PROVE  s \notin request[r].before
BY DEF CallInv

\* A call that comes to be at its update: an accept has found its row pending, a block some row.
LEMMA UpdateReached ==
  ASSUME TypeOK, CallInv, [Next]_vars, NEW s \in Requests,
         At(s, "accept", "update")', ~ At(s, "accept", "update")
  PROVE  /\ Handle(s) /\ Finds(s) /\ request[s].call = "accept" /\ UNCHANGED friendship
         /\ request'[s].id = request[s].id /\ request[s].id \in Existing
         /\ MayAccept(request[s].id, request[s].user)
<1> USE DEF TypeOK
<1>1. request'[s] # request[s] /\ request'[s].step = "update" /\ request'[s].call = "accept"
  BY DEF At
<1>2. ASSUME NEW q \in Requests, Receive(q) PROVE FALSE
  BY <1>1, <1>2, ReceiveRuns
<1>3. CASE LoseRequests
  BY <1>1, <1>3, LoseRuns
<1>4. CASE Handle(s)
  <2>1. request[s].call = "accept" /\ request[s] # Idle
    BY <1>1, <1>4, HandleMoves DEF Runs
  <2>2. Finds(s)
    <3>1. CASE Creates(s)
      BY <1>1, <2>1, <3>1 DEF Creates, RunsTo
    <3>2. CASE Marks(s)
      BY <1>1, <2>1, <3>2 DEF Marks, RunsTo
    <3>3. CASE Deletes(s) \/ Refuses(s)
      BY <1>1, <3>3 DEF Deletes, Refuses, RunsTo
    <3>4. CASE Emits(s)
      <4>1. request'[s].step = "done"
        BY <3>4 DEF Emits, RunsTo
      <4> QED
        BY <1>1, <4>1
    <3> QED
      BY <1>4, <3>1, <3>2, <3>3, <3>4, HandleMoves
  <2> QED
    BY <1>1, <1>4, <2>1, <2>2 DEF Finds, RunsTo
<1>5. ASSUME NEW q \in Requests, Handle(q), q # s PROVE FALSE
  BY <1>1, <1>5, HandleMoves DEF Runs
<1>6. CASE request' = request
  BY <1>1, <1>6
<1> QED
  BY <1>2, <1>3, <1>4, <1>5, <1>6, NextSplit

\* A block is done when it has marked its row.
LEMMA BlockReached ==
  ASSUME TypeOK, CallInv, [Next]_vars, NEW r \in Requests, BlockDone(r)', ~ BlockDone(r)
  PROVE  /\ Handle(r) /\ Marks(r) /\ request[r].call = "block"
         /\ request'[r].id = request[r].id
         /\ request[r].id \in Existing' /\ friendship'[request[r].id].status = "BLOCKED"
         /\ \A s \in Requests : s # r => request'[s] = request[s]
<1> USE DEF TypeOK
<1>1. request'[r] # request[r] /\ request'[r].step = "done" /\ request'[r].call = "block"
  BY DEF BlockDone, Made
<1>2. ASSUME NEW q \in Requests, Receive(q) PROVE FALSE
  BY <1>1, <1>2, ReceiveRuns
<1>3. CASE LoseRequests
  BY <1>1, <1>3, LoseRuns
<1>4. CASE Handle(r)
  <2>1. request[r].call = "block" /\ request[r] # Idle /\ request[r].user \in Users
    BY <1>1, <1>4, HandleMoves DEF Runs, RequestRecords
  <2>2. Marks(r)
    <3>1. CASE Creates(r)
      BY <1>1, <2>1, <3>1 DEF Creates, RunsTo
    <3>2. CASE Finds(r)
      BY <1>1, <2>1, <3>2 DEF Finds, RunsTo
    <3>3. CASE Refuses(r)
      BY <1>1, <3>3 DEF Refuses, RunsTo
    <3>4. CASE Emits(r) \/ Deletes(r)
      <4>1. request[r].step \in {"emit", "delete"}
        BY <3>4 DEF Emits, Deletes
      <4> QED
        BY <2>1, <4>1, CallsAt DEF Steps
    <3> QED
      BY <1>4, <3>1, <3>2, <3>3, <3>4, HandleMoves
  <2>3. /\ friendship'[request[r].id] = Marked(request[r].id, "BLOCKED")
        /\ request[r].id \in Existing /\ request[r].id \in Ids
    BY <2>1, <2>2 DEF Marks, Existing, FriendshipsTypeOK
  <2>4. /\ Marked(request[r].id, "BLOCKED") \in FriendshipRows
        /\ Marked(request[r].id, "BLOCKED").status = "BLOCKED"
    BY <2>1, <2>3, RowType DEF Statuses
  <2>5. request[r].id \in Existing'
    BY <2>3, <2>4, ExistingType DEF Existing
  <2> QED
    BY <1>4, <2>1, <2>2, <2>3, <2>4, <2>5 DEF Marks, RunsTo, Runs
<1>5. ASSUME NEW q \in Requests, Handle(q), q # r PROVE FALSE
  BY <1>1, <1>5, HandleMoves DEF Runs
<1>6. CASE request' = request
  BY <1>1, <1>6
<1> QED
  BY <1>2, <1>3, <1>4, <1>5, <1>6, NextSplit

LEMMA BlockStep ==
  ASSUME TypeOK, CallInv, BlockInv, [Next]_vars
  PROVE  BlockInv'
<1> USE DEF TypeOK
<1> SUFFICES ASSUME NEW r \in Requests, BlockDone(r)'
             PROVE  /\ friendship'[request'[r].id] # Unused
                    /\ request'[r].id \in Existing' => friendship'[request'[r].id].status # "PENDING"
                    /\ \A s \in Requests :
                         (At(s, "accept", "update")' /\ request'[s].id = request'[r].id)
                           => r \notin request'[s].before
  BY DEF BlockInv
<1>1. CASE BlockDone(r)
  <2>1. request'[r] = request[r] /\ request[r].id \in Ids
    BY <1>1, MadeStays, MadeType DEF BlockDone, Made, Ended, RequestRecords
  <2>2. /\ friendship'[request[r].id] # Unused
        /\ request[r].id \in Existing' => friendship'[request[r].id].status # "PENDING"
    BY <1>1, <2>1, RowStays DEF BlockInv
  <2>3. ASSUME NEW s \in Requests, At(s, "accept", "update")', request'[s].id = request[r].id
        PROVE  r \notin request'[s].before
    <3>1. CASE At(s, "accept", "update")
      <4>1. request[s] # Idle
        BY <3>1, StepType DEF At, Steps
      <4>2. request'[s].id = request[s].id /\ request'[s].before = request[s].before
        <5>1. ASSUME NEW q \in Requests, Handle(q) PROVE request'[s] = request[s]
          <6>1. CASE q # s
            BY <5>1, <6>1, HandleMoves DEF Runs
          <6>2. CASE q = s
            <7>1. request[s].step = "update" /\ request'[s].step = "update" /\ request[s].call = "accept"
              BY <2>3, <3>1 DEF At
            <7>2. request'[s].step # "update"
              BY <5>1, <6>2, <7>1, HandleMoves
                 DEF Refuses, Finds, Creates, Marks, Deletes, Emits, RunsTo
            <7> QED
              BY <7>1, <7>2
          <6> QED
            BY <6>1, <6>2
        <5>2. ASSUME NEW q \in Requests, Receive(q) PROVE request'[s] = request[s]
          BY <4>1, <5>2, ReceiveRuns
        <5>3. CASE LoseRequests
          BY <2>3, <5>3, LoseRuns DEF At
        <5>4. CASE request' = request
          BY <5>4
        <5> QED
          BY <5>1, <5>2, <5>3, <5>4, NextSplit
      <4> QED
        BY <1>1, <2>3, <3>1, <4>2 DEF BlockInv
    <3>2. CASE ~ At(s, "accept", "update")
      <4>1. /\ request[s].id \in Existing /\ request[s].id = request[r].id
            /\ friendship[request[s].id].status = "PENDING"
        BY <2>3, <3>2, UpdateReached DEF MayAccept
      <4> QED
        BY <1>1, <4>1 DEF BlockInv
    <3> QED
      BY <3>1, <3>2
  <2> QED
    BY <2>1, <2>2, <2>3
<1>2. CASE ~ BlockDone(r)
  <2>1. /\ Handle(r) /\ request'[r].id = request[r].id
        /\ request[r].id \in Existing' /\ friendship'[request[r].id].status = "BLOCKED"
        /\ \A s \in Requests : s # r => request'[s] = request[s]
        /\ request[r].call = "block"
    BY <1>2, BlockReached
  <2>2. friendship'[request[r].id] # Unused
    BY <2>1 DEF Existing
  <2>3. ~ Ended(r) /\ request'[r].call = "block"
    BY <2>1, HandleMoves DEF Runs
  <2>4. ASSUME NEW s \in Requests, At(s, "accept", "update")'
        PROVE  r \notin request'[s].before
    <3>1. s # r
      BY <2>3, <2>4 DEF At
    <3>2. request'[s] = request[s]
      BY <2>1, <3>1
    <3>3. request[s] # Idle
      BY <2>4, <3>2, StepType DEF At, Steps
    <3> QED
      BY <2>3, <3>2, <3>3, NotBefore
  <2> QED
    BY <2>1, <2>2, <2>4
<1> QED
  BY <1>1, <1>2

\* The steps of a call that has read or created its row.
Late == {"update", "delete", "emit"} \cup Over

\* Which row a call names stays once it has read or created it, and so do its parties.
LEMMA LateStays ==
  ASSUME TypeOK, CallInv, [Next]_vars, NEW r \in Requests, request[r] # Idle
  PROVE  /\ request[r].step \in Late => request'[r].step \in Late
         /\ request[r].step \in Late \/ request[r].call = "accept" => request'[r].id = request[r].id
         /\ request[r].call # "accept" => request'[r].other = request[r].other
<1> USE DEF TypeOK, Late, Over
<1>1. request[r] \in RequestRecords
  BY MadeType
<1>2. ASSUME NEW q \in Requests, Receive(q) PROVE request'[r] = request[r]
  BY <1>2, ReceiveRuns
<1>3. ASSUME NEW q \in Requests, Handle(q), q # r PROVE request'[r] = request[r]
  BY <1>3, HandleMoves DEF Runs
<1>4. CASE Handle(r)
  <2>1. request[r].step \in Steps
    BY <1>1 DEF RequestRecords, Steps
  <2>2. CASE Refuses(r)
    BY <2>2 DEF Refuses, RunsTo
  <2>3. CASE Finds(r)
    BY <2>3 DEF Finds, RunsTo
  <2>4. CASE Creates(r)
    <3>1. request[r].call \in {"request", "block"}
      BY <2>1, <2>4, CallsAt DEF Creates
    <3> QED
      BY <2>4, <3>1 DEF Creates, RunsTo
  <2>5. CASE Marks(r)
    BY <2>5 DEF Marks, RunsTo
  <2>6. CASE Deletes(r)
    BY <2>6 DEF Deletes, RunsTo
  <2>7. CASE Emits(r)
    <3>1. RunsTo(r, request[r].id, request[r].other, "done")
      BY <2>7 DEF Emits
    <3> QED
      BY <3>1 DEF RunsTo
  <2> QED
    BY <1>4, <2>2, <2>3, <2>4, <2>5, <2>6, <2>7, HandleMoves
<1>5. CASE LoseRequests
  BY <1>5, LoseRuns
<1> QED
  BY <1>2, <1>3, <1>4, <1>5, NextSplit

\* r, which has answered, has blocked, and no call that came later has undone it.
Stands(r) ==
  \/ request[r].id \notin Existing
  \/ friendship[request[r].id].status = "BLOCKED"
  \/ \E s \in Requests : /\ request[s] # Idle /\ request[s].call = "accept"
                         /\ request[s].id = request[r].id /\ Overlapped(r, s)

LEMMA StandsStep ==
  ASSUME TypeOK, CallInv, BlockInv, BlockStands, [Next]_vars
  PROVE  BlockStands'
<1> USE DEF TypeOK
<1> SUFFICES ASSUME NEW r \in Requests, BlockDone(r)'
             PROVE  Stands(r)'
  BY DEF BlockStands, Stands, BlockDone, Made
<1>1. CASE ~ BlockDone(r)
  BY <1>1, BlockReached DEF Stands
<1>2. CASE BlockDone(r)
  <2> DEFINE i == request[r].id
  <2>1. /\ request'[r] = request[r] /\ i \in Ids /\ request[r] # Idle /\ Stands(r)
        /\ request'[r] # Idle
    BY <1>2, MadeStays, MadeType DEF BlockDone, Made, Ended, RequestRecords, BlockStands, Stands
  <2>2. CASE i \notin Existing'
    BY <2>1, <2>2 DEF Stands
  <2>3. CASE \E s \in Requests : /\ request[s] # Idle /\ request[s].call = "accept"
                                 /\ request[s].id = i /\ Overlapped(r, s)
    <3>1. PICK s \in Requests : /\ request[s] # Idle /\ request[s].call = "accept"
                                /\ request[s].id = i /\ Overlapped(r, s)
      BY <2>3
    <3>2. /\ request'[s] # Idle /\ request'[s].call = "accept"
          /\ request'[s].id = i /\ Overlapped(r, s)'
      BY <2>1, <3>1, MadeStays, LateStays, OverlappedStays
    <3> QED
      BY <2>1, <3>2 DEF Stands
  <2>4. CASE i \in Existing' /\ friendship[i].status = "BLOCKED" /\ friendship'[i] = friendship[i]
    BY <2>1, <2>4 DEF Stands
  <2>5. CASE i \in Existing' /\ friendship'[i] # friendship[i]
    <3>1. i \in Existing
      BY <1>2, <2>1, <2>5, RowStays DEF BlockInv
    <3>2. PICK q \in Requests : Handle(q)
      BY <2>5, NextSplit DEF Receive, LoseRequests
    <3>3. /\ Marks(q) /\ request[q].id = i
          /\ friendship'[i] = Marked(i, IF request[q].call = "block" THEN "BLOCKED" ELSE "ACCEPTED")
      <4>1. friendship'[i] # Deleted
        BY <2>5 DEF Existing
      <4> QED
        BY <2>5, <3>1, <3>2, <4>1, RowChange
    <3>4. /\ request[q].user \in Users /\ request[q] # Idle /\ ~ Ended(q)
          /\ request[q].call \in {"accept", "block"} /\ request[q].step = "update"
      <4>1. request[q].step = "update"
        BY <3>3 DEF Marks
      <4> QED
        BY <3>2, <4>1, HandleMoves, CallsAt DEF Runs, RequestRecords, Steps
    <3>5. CASE request[q].call = "block"
      <4>1. Marked(i, "BLOCKED").status = "BLOCKED"
        BY <3>1, <3>4, RowType DEF Statuses
      <4> QED
        BY <2>1, <3>3, <3>5, <4>1 DEF Stands
    <3>6. CASE request[q].call = "accept"
      <4>1. r \notin request[q].before
        BY <1>2, <3>3, <3>4, <3>6 DEF BlockInv, At
      <4>2. q \notin request[r].before
        BY <2>1, <3>4, NotBefore
      <4>3. Overlapped(r, q)'
        BY <2>1, <3>4, <4>1, <4>2, MadeStays DEF Overlapped
      <4>4. request'[q] # Idle /\ request'[q].call = "accept" /\ request'[q].id = i
        BY <3>3, <3>4, <3>6, MadeStays, LateStays
      <4> QED
        BY <2>1, <4>3, <4>4 DEF Stands
    <3> QED
      BY <3>4, <3>5, <3>6
  <2> QED
    BY <2>1, <2>2, <2>3, <2>4, <2>5 DEF Stands, Existing
<1> QED
  BY <1>1, <1>2

-----------------------------------------------------------------------------
(* Who has created a row.                                                  *)

\* r has created row i, or blocks it in the direction it was created in.
Creator(r, i) ==
  /\ Made(r, {"request", "block"}) /\ request[r].id = i
  /\ request[r].user = friendship[i].requester /\ request[r].other = friendship[i].addressee
  /\ request[r].step \in Late

Opposite(i, j) ==
  /\ friendship[j].requester = friendship[i].addressee
  /\ friendship[j].addressee = friendship[i].requester

\* Who is to create a row has found none, so one there is now is of a call that overlapped.
PairInv ==
  /\ \A i \in Existing : \E r \in Requests : Creator(r, i)
  /\ \A s \in Requests : request[s].step = "create" =>
       \A i \in Between(request[s].user, request[s].other) :
         \E r \in Requests : Creator(r, i) /\ r \notin request[s].before
  /\ \A i, j \in Existing :
       (/\ friendship[i].requester = friendship[j].requester
        /\ friendship[i].addressee = friendship[j].addressee) => i = j
  /\ \A i, j \in Existing : (i # j /\ Opposite(i, j)) =>
       \E r, s \in Requests : Creator(r, i) /\ Creator(s, j) /\ Overlapped(r, s)

LEMMA CreatorStays ==
  ASSUME TypeOK, CallInv, [Next]_vars, NEW i \in Existing, i \in Existing',
         NEW r \in Requests, Creator(r, i)
  PROVE  Creator(r, i)'
<1>1. /\ friendship'[i].requester = friendship[i].requester
      /\ friendship'[i].addressee = friendship[i].addressee
  BY RowStays DEF TypeOK, Existing
<1>2. /\ request'[r] # Idle /\ request'[r].call = request[r].call
      /\ request'[r].user = request[r].user
  BY MadeStays DEF TypeOK, Creator, Made
<1>3. request'[r].id = request[r].id /\ request'[r].other = request[r].other /\ request'[r].step \in Late
  BY LateStays DEF Creator, Made
<1> QED
  BY <1>1, <1>2, <1>3 DEF Creator, Made

\* A row that comes to be has a creator, that of no other row of this direction.
LEMMA CreatorNew ==
  ASSUME TypeOK, CallInv, [Next]_vars, NEW i \in Ids, i \in Existing', i \notin Existing
  PROVE  \E r \in Requests :
           /\ request[r] # Idle /\ ~ Ended(r) /\ request[r].step = "create"
           /\ Creator(r, i)' /\ ~ Taken(request[r].user, request[r].other)
           /\ request[r].user \in Users /\ request[r].other \in Users
           /\ friendship'[i].requester = request[r].user
           /\ friendship'[i].addressee = request[r].other
           /\ friendship'[i].status = "PENDING"
           /\ request'[r].call = "block" => request'[r].step = "update"
           /\ \A j \in Ids : j # i => friendship'[j] = friendship[j]
<1>1. PICK r \in Requests : /\ Handle(r) /\ Creates(r) /\ request'[r].id = i
                            /\ friendship'[i] = Pending(request[r].user, request[r].other)
  BY RowCreated DEF TypeOK
<1>2. /\ request[r] # Idle /\ ~ Ended(r) /\ request[r].step = "create"
      /\ ~ Taken(request[r].user, request[r].other)
      /\ request[r].user \in Users /\ request[r].other \in Users
  BY <1>1 DEF Creates, RunsTo, Runs, RequestRecords
<1>3. /\ friendship'[i].requester = request[r].user /\ friendship'[i].addressee = request[r].other
      /\ friendship'[i].status = "PENDING"
  BY <1>1, <1>2, PendingType
<1>4. request[r].call \in {"request", "block"}
  BY <1>2, CallsAt DEF TypeOK, Steps
<1>5. /\ request'[r] # Idle /\ request'[r].call = request[r].call
      /\ request'[r].user = request[r].user /\ request'[r].other = request[r].other
      /\ request'[r].step = IF request[r].call = "block" THEN "update" ELSE "emit"
  BY <1>1 DEF Creates, RunsTo, Runs
<1>6. Creator(r, i)'
  BY <1>1, <1>3, <1>4, <1>5 DEF Creator, Made, Late
<1>7. \A j \in Ids : j # i => friendship'[j] = friendship[j]
  BY <1>1 DEF Creates, TypeOK, FriendshipsTypeOK
<1> QED
  BY <1>2, <1>3, <1>5, <1>6, <1>7

\* A call that comes to be at its creation has found no row of the pair.
LEMMA CreateReached ==
  ASSUME TypeOK, CallInv, [Next]_vars, NEW s \in Requests,
         request'[s].step = "create", request[s].step # "create"
  PROVE  Between(request[s].user, request[s].other)' = {}
<1> USE DEF TypeOK
<1>1. ASSUME NEW q \in Requests, Receive(q) PROVE FALSE
  BY <1>1, ReceiveRuns
<1>2. ASSUME NEW q \in Requests, Handle(q), q # s PROVE FALSE
  BY <1>2, HandleMoves DEF Runs
<1>3. CASE LoseRequests
  BY <1>3, LoseRuns
<1>4. CASE Handle(s)
  <2>1. Finds(s)
    <3>1. CASE Refuses(s) \/ Creates(s) \/ Marks(s) \/ Deletes(s)
      BY <3>1 DEF Refuses, Creates, Marks, Deletes, RunsTo
    <3>2. CASE Emits(s)
      <4>1. RunsTo(s, request[s].id, request[s].other, "done")
        BY <3>2 DEF Emits
      <4> QED
        BY <4>1 DEF RunsTo
    <3> QED
      BY <1>4, <3>1, <3>2, HandleMoves
  <2>2. /\ Between(request[s].user, request[s].other) = {} /\ friendship' = friendship
        /\ request'[s].user = request[s].user /\ request'[s].other = request[s].other
    BY <2>1 DEF Finds, RunsTo, Runs
  <2>3. Between(request[s].user, request[s].other)' = Between(request[s].user, request[s].other)
    BY <2>2 DEF Between, Existing
  <2> QED
    BY <2>2, <2>3
<1>5. CASE request' = request
  BY <1>5
<1> QED
  BY <1>1, <1>2, <1>3, <1>4, <1>5, NextSplit

\* A row that is new and one of the opposite direction are of calls that overlapped.
LEMMA OppositeNew ==
  ASSUME TypeOK, CallInv, PairInv, [Next]_vars, NEW i \in Ids, NEW j \in Existing,
         i \in Existing', i \notin Existing, j \in Existing', Opposite(i, j)'
  PROVE  \E r, s \in Requests : Creator(r, i)' /\ Creator(s, j)' /\ Overlapped(r, s)'
<1>1. PICK r \in Requests :
        /\ request[r] # Idle /\ ~ Ended(r) /\ request[r].step = "create" /\ Creator(r, i)'
        /\ friendship'[i].requester = request[r].user
        /\ friendship'[i].addressee = request[r].other
  BY CreatorNew
<1>2. j \in Between(request[r].user, request[r].other)
  <2>1. /\ friendship'[j].requester = friendship[j].requester
        /\ friendship'[j].addressee = friendship[j].addressee
    BY RowStays DEF TypeOK, Existing
  <2> QED
    BY <1>1, <2>1 DEF Opposite, Between
<1>3. PICK s \in Requests : Creator(s, j) /\ s \notin request[r].before
  BY <1>1, <1>2 DEF PairInv
<1>4. request[s] # Idle /\ r \notin request[s].before
  BY <1>1, <1>3, NotBefore DEF Creator, Made
<1>5. Overlapped(r, s)'
  BY <1>1, <1>3, <1>4, OverlappedStays DEF TypeOK, Overlapped
<1>6. Creator(s, j)'
  BY <1>3, CreatorStays
<1> QED
  BY <1>1, <1>5, <1>6

LEMMA PairStep ==
  ASSUME TypeOK, CallInv, PairInv, [Next]_vars
  PROVE  PairInv'
<1>1. ASSUME NEW i \in Existing'
      PROVE  \E r \in Requests : Creator(r, i)'
  <2>1. i \in Ids
    BY DEF Existing
  <2>2. CASE i \in Existing
    BY <2>2, CreatorStays DEF PairInv
  <2>3. CASE i \notin Existing
    BY <2>1, <2>3, CreatorNew
  <2> QED
    BY <2>2, <2>3
<1>2. ASSUME NEW s \in Requests, request'[s].step = "create",
             NEW i \in Between(request[s].user, request[s].other)'
      PROVE  \E r \in Requests : Creator(r, i)' /\ r \notin request'[s].before
  <2>1. request[s].step = "create"
    BY <1>2, CreateReached
  <2>2. request[s] # Idle /\ request[s].call # "accept"
    BY <2>1, StepType, CallsAt DEF TypeOK, Steps
  <2>3. /\ request'[s].user = request[s].user /\ request'[s].other = request[s].other
        /\ request'[s].before = request[s].before
    BY <2>2, MadeStays, LateStays DEF TypeOK
  <2>4. i \in Ids /\ i \in Existing'
    BY DEF Between, Existing
  <2>5. CASE i \in Existing
    <3>1. /\ friendship'[i].requester = friendship[i].requester
          /\ friendship'[i].addressee = friendship[i].addressee
      BY <2>4, <2>5, RowStays DEF TypeOK, Existing
    <3>2. i \in Between(request[s].user, request[s].other)
      BY <2>3, <2>5, <3>1 DEF Between
    <3>3. PICK r \in Requests : Creator(r, i) /\ r \notin request[s].before
      BY <2>1, <3>2 DEF PairInv
    <3> QED
      BY <2>3, <2>4, <2>5, <3>3, CreatorStays
  <2>6. CASE i \notin Existing
    <3>1. PICK r \in Requests : ~ Ended(r) /\ Creator(r, i)'
      BY <2>4, <2>6, CreatorNew
    <3> QED
      BY <2>2, <2>3, <3>1, NotBefore
  <2> QED
    BY <2>5, <2>6
<1>3. ASSUME NEW i \in Existing', NEW j \in Existing, i \notin Existing, j \in Existing'
      PROVE  ~ (/\ friendship'[i].requester = friendship'[j].requester
                /\ friendship'[i].addressee = friendship'[j].addressee)
  <2>1. i \in Ids /\ j \in Ids /\ friendship[j] # Unused
    BY DEF Existing
  <2>2. PICK r \in Requests : /\ ~ Taken(request[r].user, request[r].other)
                              /\ friendship'[i].requester = request[r].user
                              /\ friendship'[i].addressee = request[r].other
    BY <1>3, <2>1, CreatorNew
  <2>3. /\ friendship'[j].requester = friendship[j].requester
        /\ friendship'[j].addressee = friendship[j].addressee
    BY <1>3, <2>1, RowStays DEF TypeOK
  <2> QED
    BY <2>2, <2>3 DEF Taken
<1>4. ASSUME NEW i \in Existing', NEW j \in Existing', i \notin Existing, i # j
      PROVE  j \in Existing
  <2>1. i \in Ids /\ j \in Ids
    BY DEF Existing
  <2>2. friendship'[j] = friendship[j]
    BY <1>4, <2>1, CreatorNew
  <2> QED
    BY <2>1, <2>2 DEF Existing
<1>5. ASSUME NEW i \in Existing', NEW j \in Existing',
             friendship'[i].requester = friendship'[j].requester,
             friendship'[i].addressee = friendship'[j].addressee
      PROVE  i = j
  <2>1. CASE i \in Existing /\ j \in Existing
    <3>1. /\ friendship'[i].requester = friendship[i].requester
          /\ friendship'[i].addressee = friendship[i].addressee
          /\ friendship'[j].requester = friendship[j].requester
          /\ friendship'[j].addressee = friendship[j].addressee
      BY <2>1, RowStays DEF TypeOK, Existing
    <3> QED
      BY <1>5, <2>1, <3>1 DEF PairInv
  <2> QED
    BY <1>3, <1>4, <1>5, <2>1
<1>6. ASSUME NEW i \in Existing', NEW j \in Existing', i # j, Opposite(i, j)'
      PROVE  \E r, s \in Requests : Creator(r, i)' /\ Creator(s, j)' /\ Overlapped(r, s)'
  <2>1. i \in Ids /\ j \in Ids
    BY DEF Existing
  <2>2. CASE i \in Existing /\ j \in Existing
    <3>1. /\ friendship'[i].requester = friendship[i].requester
          /\ friendship'[i].addressee = friendship[i].addressee
          /\ friendship'[j].requester = friendship[j].requester
          /\ friendship'[j].addressee = friendship[j].addressee
      BY <2>2, RowStays DEF TypeOK, Existing
    <3>2. PICK r \in Requests, s \in Requests : Creator(r, i) /\ Creator(s, j) /\ Overlapped(r, s)
      BY <1>6, <2>2, <3>1 DEF PairInv, Opposite
    <3>3. Creator(r, i)' /\ Creator(s, j)'
      BY <2>2, <3>2, CreatorStays
    <3>4. Overlapped(r, s)'
      BY <3>2, OverlappedStays DEF TypeOK, Creator, Made
    <3> QED
      BY <3>3, <3>4
  <2>3. CASE i \notin Existing
    BY <1>4, <1>6, <2>1, <2>3, OppositeNew
  <2>4. CASE j \notin Existing
    <3>1. i \in Existing /\ Opposite(j, i)'
      BY <1>4, <1>6, <2>4 DEF Opposite
    <3>2. PICK r \in Requests, s \in Requests : Creator(r, j)' /\ Creator(s, i)' /\ Overlapped(r, s)'
      BY <2>1, <2>4, <3>1, OppositeNew
    <3> QED
      BY <3>2 DEF Overlapped
  <2> QED
    BY <2>2, <2>3, <2>4
<1> QED
  BY <1>1, <1>2, <1>5, <1>6 DEF PairInv

-----------------------------------------------------------------------------
(* Who has agreed to a friendship.                                         *)

\* What the acceptance by r rests on: the requester asked, or is blocking and did not answer
\* before r came.
Asked(i, r) ==
  \E s \in Requests :
    /\ s # r /\ request[s] # Idle /\ request[s].step \in Late
    /\ request[s].id = i /\ request[s].user = friendship[i].requester
    /\ \/ request[s].call = "request"
       \/ request[s].call = "block" /\ (Overlapped(r, s) \/ request[s].step = "lost")

\* A row that is pending has been asked for, or is about to be blocked; an accept has found it
\* so, and what it found still goes for the row that is accepted.
AgreeInv ==
  /\ \A i \in Existing : friendship[i].status = "PENDING" =>
       \E s \in Requests : /\ Creator(s, i)
                           /\ request[s].call = "block" => request[s].step \in {"update", "lost"}
  /\ \A r \in Requests : At(r, "accept", "update") =>
       /\ friendship[request[r].id] # Unused
       /\ request[r].id \in Existing =>
            request[r].user = friendship[request[r].id].addressee /\ Asked(request[r].id, r)
  /\ \A i \in Existing : friendship[i].status = "ACCEPTED" =>
       \E r \in Requests : /\ Made(r, {"accept"}) /\ request[r].id = i
                           /\ request[r].user = friendship[i].addressee /\ Asked(i, r)

LEMMA AskedStays ==
  ASSUME TypeOK, CallInv, [Next]_vars, NEW i \in Existing, i \in Existing',
         NEW r \in Requests, request[r] # Idle, Asked(i, r)
  PROVE  Asked(i, r)'
<1>1. PICK s \in Requests :
        /\ s # r /\ request[s] # Idle /\ request[s].step \in Late
        /\ request[s].id = i /\ request[s].user = friendship[i].requester
        /\ \/ request[s].call = "request"
           \/ request[s].call = "block" /\ (Overlapped(r, s) \/ request[s].step = "lost")
  BY DEF Asked
<1>2. friendship'[i].requester = friendship[i].requester
  BY RowStays DEF TypeOK, Existing
<1>3. /\ request'[s] # Idle /\ request'[s].step \in Late /\ request'[s].id = i
      /\ request'[s].user = request[s].user /\ request'[s].call = request[s].call
  BY <1>1, MadeStays, LateStays DEF TypeOK
<1>4. Overlapped(r, s) => Overlapped(r, s)'
  BY <1>1, OverlappedStays DEF TypeOK
<1>5. request[s].step = "lost" => request'[s].step = "lost"
  BY <1>1, MadeStays DEF TypeOK, Ended
<1> QED
  BY <1>1, <1>2, <1>3, <1>4, <1>5 DEF Asked

\* Who finds a row pending finds it asked for.
LEMMA AskedFound ==
  ASSUME TypeOK, CallInv, AgreeInv, NEW i \in Existing, friendship[i].status = "PENDING",
         NEW r \in Requests, request[r] # Idle, ~ Ended(r), request[r].call = "accept"
  PROVE  Asked(i, r)
<1>1. PICK s \in Requests : /\ Creator(s, i)
                            /\ request[s].call = "block" => request[s].step \in {"update", "lost"}
  BY DEF AgreeInv
<1>2. s # r /\ request[s] # Idle /\ request[s].call \in {"request", "block"}
  BY <1>1 DEF Creator, Made
<1>3. request[s].step = "update" => Overlapped(r, s)
  BY <1>2, NotBefore DEF Ended, Overlapped
<1> QED
  BY <1>1, <1>2, <1>3 DEF Creator, Made, Asked

\* A block that has created a row and not marked it does so next, unless it is lost.
LEMMA BlockWaits ==
  ASSUME TypeOK, CallInv, [Next]_vars, NEW i \in Existing, i \in Existing',
         friendship'[i].status = "PENDING", NEW s \in Requests, request[s] # Idle,
         request[s].call = "block", request[s].id = i, request[s].step \in {"update", "lost"}
  PROVE  request'[s].step \in {"update", "lost"}
<1> USE DEF TypeOK
<1>1. ASSUME NEW q \in Requests, Receive(q) PROVE request'[s] = request[s]
  BY <1>1, ReceiveRuns
<1>2. ASSUME NEW q \in Requests, Handle(q), q # s PROVE request'[s] = request[s]
  BY <1>2, HandleMoves DEF Runs
<1>3. ASSUME Handle(s) PROVE FALSE
  <2>1. request[s].step = "update" /\ request[s].user \in Users
    BY <1>3, HandleMoves DEF Runs, Ended, RequestRecords
  <2>2. Marks(s)
    <3>1. ~ Finds(s) /\ ~ Creates(s) /\ ~ Deletes(s)
      BY <2>1 DEF Finds, Creates, Deletes
    <3>2. ~ Emits(s)
      BY <2>1 DEF Emits
    <3> QED
      BY <1>3, <2>1, <3>1, <3>2, HandleMoves
  <2>3. friendship'[i] = Marked(i, "BLOCKED")
    BY <2>2 DEF Marks, FriendshipsTypeOK, Existing
  <2>4. Marked(i, "BLOCKED").status = "BLOCKED"
    BY <2>1, RowType DEF Statuses
  <2> QED
    BY <2>3, <2>4
<1>4. CASE LoseRequests
  BY <1>4, LoseRuns DEF Ended
<1>5. CASE request' = request
  BY <1>5
<1> QED
  BY <1>1, <1>2, <1>3, <1>4, <1>5, NextSplit

LEMMA AgreeStep ==
  ASSUME TypeOK, CallInv, PairInv, AgreeInv, [Next]_vars
  PROVE  AgreeInv'
<1>1. ASSUME NEW i \in Existing', friendship'[i].status = "PENDING"
      PROVE  \E s \in Requests :
               /\ Creator(s, i)'
               /\ request'[s].call = "block" => request'[s].step \in {"update", "lost"}
  <2>0. i \in Ids
    BY DEF Existing
  <2>1. CASE i \in Existing
    <3>1. friendship[i].status = "PENDING"
      BY <1>1, <2>1, RowStays DEF TypeOK, Existing
    <3>2. PICK s \in Requests : /\ Creator(s, i)
                                /\ request[s].call = "block" => request[s].step \in {"update", "lost"}
      BY <2>1, <3>1 DEF AgreeInv
    <3>3. request[s] # Idle /\ request[s].id = i /\ request'[s].call = request[s].call
      BY <3>2, MadeStays DEF TypeOK, Creator, Made
    <3> QED
      BY <1>1, <2>1, <3>2, <3>3, CreatorStays, BlockWaits
  <2>2. CASE i \notin Existing
    BY <2>0, <2>2, CreatorNew
  <2> QED
    BY <2>1, <2>2
<1>2. ASSUME NEW r \in Requests, At(r, "accept", "update")', NEW i \in Ids, request'[r].id = i
      PROVE  /\ friendship'[i] # Unused
             /\ i \in Existing' => request'[r].user = friendship'[i].addressee /\ Asked(i, r)'
  <2>1. /\ request[r] # Idle /\ request[r].id = i /\ request'[r].user = request[r].user
        /\ friendship[i] # Unused
        /\ i \in Existing => request[r].user = friendship[i].addressee /\ Asked(i, r)
    <3>1. CASE At(r, "accept", "update")
      <4>1. request[r] # Idle /\ request[r].call = "accept"
        BY <3>1, StepType DEF TypeOK, At, Steps
      <4>2. request'[r].id = request[r].id /\ request'[r].user = request[r].user
        BY <4>1, MadeStays, LateStays DEF TypeOK
      <4> QED
        BY <1>2, <3>1, <4>1, <4>2 DEF AgreeInv
    <3>2. CASE ~ At(r, "accept", "update")
      <4>1. /\ Handle(r) /\ request[r].call = "accept" /\ request'[r].id = request[r].id
            /\ request[r].id \in Existing /\ MayAccept(request[r].id, request[r].user)
        BY <1>2, <3>2, UpdateReached
      <4>2. request[r] # Idle /\ ~ Ended(r) /\ request'[r].user = request[r].user
        BY <4>1, HandleMoves DEF TypeOK, Runs
      <4>3. Asked(i, r)
        BY <1>2, <4>1, <4>2, AskedFound DEF MayAccept
      <4> QED
        BY <1>2, <4>1, <4>2, <4>3 DEF MayAccept, Existing
    <3> QED
      BY <3>1, <3>2
  <2>2. ASSUME i \in Existing'
        PROVE  /\ i \in Existing
               /\ friendship'[i].addressee = friendship[i].addressee
    BY <2>1, <2>2, RowStays DEF TypeOK
  <2>3. friendship'[i] # Unused
    BY <2>1, RowStays DEF TypeOK
  <2> QED
    BY <2>1, <2>2, <2>3, AskedStays
<1>3. ASSUME NEW i \in Existing', friendship'[i].status = "ACCEPTED"
      PROVE  \E r \in Requests : /\ Made(r, {"accept"})' /\ request'[r].id = i
                                 /\ request'[r].user = friendship'[i].addressee /\ Asked(i, r)'
  <2>1. i \in Ids /\ i \in Existing
    <3>1. i \in Ids
      BY DEF Existing
    <3> QED
      BY <1>3, <3>1, CreatorNew
  <2>2. \E r \in Requests : /\ Made(r, {"accept"}) /\ request[r].id = i
                            /\ request[r].user = friendship[i].addressee /\ Asked(i, r)
    <3>1. CASE friendship'[i] = friendship[i]
      BY <1>3, <2>1, <3>1 DEF AgreeInv
    <3>2. CASE friendship'[i] # friendship[i]
      <4>1. PICK q \in Requests : Handle(q)
        BY <3>2, NextSplit DEF Receive, LoseRequests
      <4>2. friendship'[i] # Deleted
        BY DEF Existing
      <4>3. /\ Marks(q) /\ request[q].id = i
            /\ friendship'[i] = Marked(i, IF request[q].call = "block" THEN "BLOCKED" ELSE "ACCEPTED")
        BY <2>1, <3>2, <4>1, <4>2, RowChange DEF TypeOK
      <4>4. request[q].step = "update" /\ request[q].user \in Users /\ request[q] # Idle
        BY <4>1, <4>3, HandleMoves DEF TypeOK, Marks, Runs, RequestRecords
      <4>5. request[q].call # "block"
        <5>1. Marked(i, "BLOCKED").status = "BLOCKED"
          BY <2>1, <4>4, RowType DEF TypeOK, Statuses
        <5> QED
          BY <1>3, <4>3, <5>1
      <4>6. request[q].call = "accept"
        BY <4>4, <4>5, CallsAt DEF TypeOK, Steps
      <4> QED
        BY <2>1, <4>3, <4>4, <4>6 DEF AgreeInv, At, Made
    <3> QED
      BY <3>1, <3>2
  <2>3. PICK r \in Requests : /\ Made(r, {"accept"}) /\ request[r].id = i
                             /\ request[r].user = friendship[i].addressee /\ Asked(i, r)
    BY <2>2
  <2>4. friendship'[i].addressee = friendship[i].addressee
    BY <1>3, <2>1, RowStays DEF TypeOK, Existing
  <2>5. request[r] # Idle /\ request[r].call = "accept"
    BY <2>3 DEF Made
  <2>6. Made(r, {"accept"})' /\ request'[r].id = i /\ request'[r].user = request[r].user
    BY <2>3, <2>5, MadeStays, LateStays DEF TypeOK, Made
  <2>7. Asked(i, r)'
    BY <1>3, <2>1, <2>3, <2>5, AskedStays
  <2> QED
    BY <2>3, <2>4, <2>6, <2>7
<1>4. \A r \in Requests : At(r, "accept", "update")' => request'[r].id \in Ids
  <2> SUFFICES ASSUME NEW r \in Requests, At(r, "accept", "update")'
               PROVE  request'[r].id \in Ids
    OBVIOUS
  <2>1. request'[r] \in RequestRecords \cup {Idle}
    BY TypeStep DEF TypeOK, FriendshipsTypeOK
  <2>2. request'[r] # Idle
    BY DEF At, Idle
  <2> QED
    BY <2>1, <2>2 DEF RequestRecords
<1> QED
  BY <1>1, <1>2, <1>3, <1>4 DEF AgreeInv

-----------------------------------------------------------------------------
(* What a client is shown.                                                 *)

\* A call emits once, so what is at work has not been stored, unless it is only to be pushed.
DeliveryInv ==
  /\ \A d \in bus : request[d.by].step = "done"
  /\ \A n \in notification : request[n.by].step = "done"
  /\ \A d, e \in bus : d.by = e.by => d = e
  /\ \A d \in bus, n \in notification : d.by = n.by => d.step = "push"

\* A call that is done stays so.
LEMMA DoneStays ==
  ASSUME TypeOK, [Next]_vars, NEW r \in Requests, request[r].step = "done"
  PROVE  request'[r].step = "done"
<1>1. request[r] # Idle
  BY StepType DEF TypeOK, Steps, Over
<1> QED
  BY <1>1, MadeStays DEF TypeOK, Ended

LEMMA DeliveryStep ==
  ASSUME TypeOK, CallInv, DeliveryInv, [Next]_vars
  PROVE  DeliveryInv'
<1>0. /\ \A d \in bus : d \in Deliveries /\ d.by \in Requests
      /\ \A n \in notification : n \in Notifications /\ n.by \in Requests
  BY DEF TypeOK, NotificationsTypeOK, Deliveries, Notifications
<1>a. /\ \A d \in bus : request'[d.by].step = "done"
      /\ \A n \in notification : request'[n.by].step = "done"
  BY <1>0, DoneStays DEF DeliveryInv
<1>1. ASSUME NEW r \in Requests, Emits(r), UNCHANGED notification
      PROVE  DeliveryInv'
  <2> DEFINE sent == [by |-> r, event |-> EventOf(request[r].call), to |-> request[r].other,
                      step |-> "send"]
  <2>1. bus' = bus \cup {sent} /\ sent.by = r
    BY <1>1 DEF Emits, Emit
  <2>2. request[r].step = "emit" /\ request'[r].step = "done"
    BY <1>1 DEF Emits, RunsTo
  <2>3. (\A d \in bus : d.by # r) /\ (\A n \in notification : n.by # r)
    BY <2>2 DEF DeliveryInv
  <2> HIDE DEF sent
  <2> QED
    BY <1>1, <1>a, <2>1, <2>2, <2>3 DEF DeliveryInv
<1>2. ASSUME NEW d \in bus, Create(d)
      PROVE  DeliveryInv'
  <2> DEFINE push == [d EXCEPT !.step = "push"]  n == Notification(d)
  <2>1. push.by = d.by /\ push.step = "push" /\ n.by = d.by
    BY <1>0, PushType, NotificationType
  <2>2. bus' = (bus \ {d}) \cup {push} /\ notification' = notification \cup {n} /\ d.step = "send"
    BY <1>2 DEF Create
  <2> HIDE DEF push, n
  <2>3. (\A e \in bus \ {d} : e.by # d.by) /\ (\A m \in notification : m.by # d.by)
    BY <2>2 DEF DeliveryInv
  <2> QED
    BY <1>a, <2>1, <2>2, <2>3 DEF DeliveryInv
<1>3. ASSUME bus' \subseteq bus, notification' \subseteq notification
      PROVE  DeliveryInv'
  BY <1>3, <1>a DEF DeliveryInv
<1>4. ASSUME bus' = bus, NEW rows \in SUBSET notification, Read(rows)
      PROVE  DeliveryInv'
  <2>1. \A n \in notification' : \E m \in notification : m.by = n.by
    BY <1>4, ReadRows DEF TypeOK
  <2> QED
    BY <1>4, <1>a, <2>1 DEF DeliveryInv
<1>5. ASSUME NotificationsNext
      PROVE  DeliveryInv'
  <2>1. ASSUME NEW d \in bus, CreateFails(d) \/ Push(d) PROVE DeliveryInv'
    BY <1>3, <2>1 DEF CreateFails, Push
  <2>2. ASSUME NEW u \in Clients, Join(u) \/ List(u) \/ Disconnect(u) PROVE DeliveryInv'
    <3>1. bus' = bus /\ notification' = notification
      BY <2>2 DEF Join, List, Disconnect
    <3> QED
      BY <1>3, <3>1
  <2>3. ASSUME NEW u \in Clients, MarkAllRead(u) \/ \E n \in notification : MarkRead(u, n)
        PROVE  DeliveryInv'
    BY <1>4, <2>3, MarkRows
  <2> QED
    BY <1>2, <1>5, <2>1, <2>2, <2>3 DEF NotificationsNext
<1>6. ASSUME NEW r \in Requests, Handle(r), UNCHANGED notification
      PROVE  DeliveryInv'
  <2>1. CASE UNCHANGED bus
    BY <1>3, <1>6, <2>1
  <2> QED
    BY <1>1, <1>6, <2>1, HandleMoves DEF TypeOK, Refuses, Finds, Creates, Marks, Deletes
<1>7. ASSUME LoseDeliveries
      PROVE  DeliveryInv'
  BY <1>3, <1>7 DEF LoseDeliveries
<1>8. ASSUME UNCHANGED <<bus, notification>>
      PROVE  DeliveryInv'
  BY <1>3, <1>8
<1> QED
  BY <1>5, <1>6, <1>7, <1>8, NextSplit DEF Receive

\* Pushes are never given up, so a client that has listed misses nothing.
LEMMA MissedStep ==
  ASSUME TypeOK, CallInv, DeliveryInv, NothingMissed, [Next]_vars
  PROVE  NothingMissed'
<1> SUFFICES ASSUME NEW u \in Clients, client'[u].step = "listed",
                    NEW n \in notification', n.to = u
             PROVE  Key(n) \in client'[u].shown \/ \E d \in bus' : Key(d) = Key(n)
  BY DEF NothingMissed, Of
<1>0. /\ \A d \in bus : d \in Deliveries
      /\ \A m \in notification : m \in Notifications
      /\ client[u] \in ClientRecords
  BY DEF TypeOK, NotificationsTypeOK
<1>1. ASSUME client[u].step = "listed", NEW m \in notification, m.to = u
      PROVE  Key(m) \in client[u].shown \/ \E d \in bus : Key(d) = Key(m)
  BY <1>1 DEF NothingMissed, Of
<1>2. CASE client'[u] = client[u] /\ notification' = notification /\ bus \subseteq bus'
  BY <1>1, <1>2
<1>3. ASSUME NEW d \in bus, Create(d)
      PROVE  Key(n) \in client'[u].shown \/ \E e \in bus' : Key(e) = Key(n)
  <2> DEFINE push == [d EXCEPT !.step = "push"]
  <2>1. Key(push) = Key(d) /\ Key(Notification(d)) = Key(d)
    BY <1>0, PushType, NotificationType
  <2>2. /\ bus' = (bus \ {d}) \cup {push} /\ notification' = notification \cup {Notification(d)}
        /\ client' = client
    BY <1>3 DEF Create
  <2> HIDE DEF push
  <2> QED
    BY <1>1, <2>1, <2>2
<1>4. ASSUME NEW d \in bus, CreateFails(d)
      PROVE  Key(n) \in client'[u].shown \/ \E e \in bus' : Key(e) = Key(n)
  <2>1. d.step = "send" /\ bus' = bus \ {d} /\ notification' = notification /\ client' = client
    BY <1>4 DEF CreateFails
  <2>2. d.by # n.by
    BY <2>1 DEF DeliveryInv
  <2>3. Key(d) # Key(n)
    BY <2>2 DEF Key
  <2> QED
    BY <1>1, <2>1, <2>3
<1>5. ASSUME NEW d \in bus, Push(d)
      PROVE  Key(n) \in client'[u].shown \/ \E e \in bus' : Key(e) = Key(n)
  <2>1. /\ client'[u].step = client[u].step /\ client[u].shown \subseteq client'[u].shown
        /\ (u = d.to /\ client[u].step # "offline") => Key(d) \in client'[u].shown
    BY <1>5, PushShows DEF TypeOK
  <2>2. bus' = bus \ {d} /\ notification' = notification
    BY <1>5 DEF Push
  <2>3. Key(d) = Key(n) => d.to = u
    BY DEF Key
  <2> QED
    BY <1>1, <2>1, <2>2, <2>3
<1>6. ASSUME NEW v \in Clients, Join(v) \/ Disconnect(v)
      PROVE  Key(n) \in client'[u].shown \/ \E e \in bus' : Key(e) = Key(n)
  <2>1. bus' = bus /\ notification' = notification
    BY <1>6 DEF Join, Disconnect
  <2>2. client'[u] = client[u]
    <3>1. CASE Join(v)
      <4>1. client' = [client EXCEPT ![v] = [client[v] EXCEPT !.step = "joined"]]
        BY <3>1 DEF Join
      <4>2. client[v] \in ClientRecords
        BY DEF TypeOK, NotificationsTypeOK
      <4>3. [client[v] EXCEPT !.step = "joined"].step = "joined"
        BY <4>2 DEF ClientRecords
      <4> QED
        BY <4>1, <4>3 DEF TypeOK, NotificationsTypeOK
    <3>2. CASE Disconnect(v)
      BY <3>2 DEF Disconnect, Offline, TypeOK, NotificationsTypeOK
    <3> QED
      BY <1>6, <3>1, <3>2
  <2> QED
    BY <1>2, <2>1, <2>2
<1>7. ASSUME NEW v \in Clients, List(v)
      PROVE  Key(n) \in client'[u].shown \/ \E e \in bus' : Key(e) = Key(n)
  <2>1. bus' = bus /\ notification' = notification
    BY <1>7 DEF List
  <2>2. CASE v = u
    BY <1>7, <2>1, <2>2, ListShows DEF TypeOK, Of
  <2>3. CASE v # u
    <3>1. \E record : client' = [client EXCEPT ![v] = record]
      BY <1>7 DEF List
    <3>2. client'[u] = client[u]
      BY <2>3, <3>1 DEF TypeOK, NotificationsTypeOK
    <3> QED
      BY <1>2, <2>1, <3>2
  <2> QED
    BY <2>2, <2>3
<1>8. ASSUME NEW v \in Clients, MarkAllRead(v) \/ \E m \in notification : MarkRead(v, m)
      PROVE  Key(n) \in client'[u].shown \/ \E e \in bus' : Key(e) = Key(n)
  <2>1. (\E rows \in SUBSET notification : Read(rows)) /\ UNCHANGED <<client, bus>>
    BY <1>8, MarkRows
  <2>2. PICK m \in notification : m.to = n.to /\ Key(m) = Key(n)
    BY <2>1, ReadRows DEF TypeOK
  <2> QED
    BY <1>1, <2>1, <2>2
<1>9. CASE NotificationsNext
  BY <1>3, <1>4, <1>5, <1>6, <1>7, <1>8, <1>9 DEF NotificationsNext
<1>10. ASSUME NEW r \in Requests, Handle(r), UNCHANGED <<notification, client>>
       PROVE  Key(n) \in client'[u].shown \/ \E e \in bus' : Key(e) = Key(n)
  <2>1. bus \subseteq bus'
    BY <1>10, HandleMoves DEF TypeOK, Refuses, Finds, Creates, Marks, Deletes, Emits, Emit
  <2> QED
    BY <1>2, <1>10, <2>1
<1>11. CASE LoseDeliveries
  BY <1>11 DEF LoseDeliveries, Offline
<1> QED
  BY <1>2, <1>9, <1>10, <1>11, NextSplit DEF Receive

-----------------------------------------------------------------------------
(* The theorems.                                                           *)

IInv ==
  /\ TypeOK /\ CallInv /\ BlockInv /\ BlockStands /\ PairInv /\ AgreeInv
  /\ DeliveryInv /\ NothingMissed

LEMMA IInvInit == Init => IInv
<1> SUFFICES ASSUME Init PROVE IInv
  OBVIOUS
<1>1. TypeOK /\ CallInv
  BY SocialInit
<1>2. /\ \A r \in Requests : request[r] = Idle
      /\ bus = {} /\ notification = {}
      /\ \A u \in Clients : client[u] = Offline
  BY DEF Init, FriendshipsInit, NotificationsInit
<1>3. Existing = {}
  BY DEF Init, FriendshipsInit, Existing
<1>4. \A r \in Requests : request[r].step \notin Steps
  BY <1>2 DEF Idle, Steps, Over
<1>5. BlockInv /\ BlockStands
  BY <1>2 DEF BlockInv, BlockStands, BlockDone, Made
<1>6. PairInv /\ AgreeInv
  BY <1>3, <1>4 DEF PairInv, AgreeInv, At, Steps
<1>7. DeliveryInv /\ NothingMissed
  BY <1>2 DEF DeliveryInv, NothingMissed, Offline
<1> QED
  BY <1>1, <1>5, <1>6, <1>7 DEF IInv

LEMMA IInvStep == IInv /\ [Next]_vars => IInv'
<1> SUFFICES ASSUME IInv, [Next]_vars PROVE IInv'
  OBVIOUS
<1> QED
  BY TypeStep, CallStep, BlockStep, StandsStep, PairStep, AgreeStep, DeliveryStep, MissedStep
     DEF IInv, TypeOK

\* The inductive invariant: where calls stand, who has created a row, whom an acceptance rests
\* on, and what is still to be pushed.
THEOREM SocialInductive == Spec => []IInv
BY IInvInit, IInvStep, PTL DEF Spec

\* A block that has answered is undone by none but an acceptance that was under way when it
\* answered: one that comes later finds the row no longer pending.
THEOREM BlockHolds == Spec => []BlockStands
<1>1. IInv => BlockStands
  BY DEF IInv
<1> QED
  BY <1>1, SocialInductive, PTL

\* Friends have agreed: the addressee has called accept and the requester has asked, or was
\* blocking the addressee at that time or when the process ended.
THEOREM FriendsHaveAgreed == Spec => []FriendsAgreed
<1>1. IInv => FriendsAgreed
  <2> SUFFICES ASSUME AgreeInv PROVE FriendsAgreed
    BY DEF IInv
  <2> QED
    BY DEF AgreeInv, Asked, Made, FriendsAgreed
<1> QED
  BY <1>1, SocialInductive, PTL

\* A pair is stored in both directions only by calls that overlapped, each having found no row.
THEOREM PairStored == Spec => []PairStoredOnce
<1>1. IInv => PairStoredOnce
  <2> SUFFICES ASSUME PairInv, NEW i \in Existing, NEW j \in Existing, i # j, Opposite(i, j)
               PROVE  \E r, s \in Requests :
                        /\ r # s /\ request[r] # Idle /\ request[s] # Idle /\ Overlapped(r, s)
                        /\ {request[r].call, request[s].call} \subseteq {"request", "block"}
                        /\ request[r].user = friendship[i].requester
                        /\ request[s].user = friendship[j].requester
    BY DEF IInv, PairStoredOnce, Opposite
  <2>1. PICK r \in Requests, s \in Requests : Creator(r, i) /\ Creator(s, j) /\ Overlapped(r, s)
    BY DEF PairInv
  <2> QED
    BY <2>1 DEF Creator, Made
<1> QED
  BY <1>1, SocialInductive, PTL

\* Between the list and the push no stored notification is lost to a client that has both.
THEOREM NothingIsMissed == Spec => []NothingMissed
<1>1. IInv => NothingMissed
  BY DEF IInv
<1> QED
  BY <1>1, SocialInductive, PTL
=============================================================================
