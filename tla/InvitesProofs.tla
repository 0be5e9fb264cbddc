-------------------------- MODULE InvitesProofs --------------------------
(***************************************************************************)
(* What invites, cancellations and registrations that overlap leave in the *)
(* tables, for any inviters, addresses, numbers of calls and invites, days *)
(* and limit.                                                              *)
(***************************************************************************)
EXTENDS Invites, FiniteSetTheorems, TLAPS

Steps == {"findUser", "count", "supersede", "insert", "findInvite", "cancel",
          "createUser", "readToken", "claim", "commit"} \cup Over

-----------------------------------------------------------------------------
(* Types, and what a step does to the table of calls.                      *)

\* A row that is sent is a row, and nothing else is.
LEMMA SentType ==
  ASSUME TypeOK, NEW i \in Ids
  PROVE  i \in Sent <=> invite[i] \in InviteRows
<1>1. Unused \notin InviteRows
  BY DEF Unused, InviteRows
<1> QED
  BY <1>1 DEF TypeOK, Sent

\* No id stands for no token.
LEMMA NoTokenNoId == NoToken \notin Ids
BY DEF NoToken, Ids

\* A call that is made is a record of what it has read.
LEMMA MadeType ==
  ASSUME TypeOK, NEW r \in Requests, request[r] # Idle
  PROVE  request[r] \in RequestRecords
BY DEF TypeOK

\* A call at a statement has been made and has not ended.
LEMMA StepType ==
  ASSUME TypeOK, NEW r \in Requests, request[r].step \in Steps
  PROVE  /\ request[r] # Idle
         /\ request[r] \in RequestRecords
<1>1. Idle.step \notin Steps
  BY DEF Idle, Steps, Over
<1> QED
  BY <1>1, MadeType

\* r runs a statement and all other calls stay where they are; what r was called with
\* stays too.
Runs(r) ==
  /\ request[r] # Idle /\ request[r] \in RequestRecords /\ ~ Ended(r)
  /\ request'[r] # Idle /\ request'[r] \in RequestRecords
  /\ request'[r].call = request[r].call /\ request'[r].inviter = request[r].inviter
  /\ request'[r].email = request[r].email /\ request'[r].before = request[r].before
  /\ \A s \in Requests : s # r => request'[s] = request[s]

RunsTo(r, step) == Runs(r) /\ request'[r].id = request[r].id /\ request'[r].step = step

LEMMA GotoRuns ==
  ASSUME TypeOK, NEW r \in Requests, request[r].step \in Steps \ Over, NEW step \in Steps, Goto(r, step)
  PROVE  RunsTo(r, step)
<1>1. request[r] # Idle /\ request[r] \in RequestRecords
  BY StepType
<1>2. request' = [request EXCEPT ![r] = [request[r] EXCEPT !.step = step]]
  BY DEF Goto
<1>3. request'[r] = [request[r] EXCEPT !.step = step]
  BY <1>2 DEF TypeOK
<1>4. request'[r] \in RequestRecords
  BY <1>1, <1>3 DEF RequestRecords, Steps
<1>5. /\ request'[r].call = request[r].call /\ request'[r].inviter = request[r].inviter
      /\ request'[r].email = request[r].email /\ request'[r].before = request[r].before
      /\ request'[r].id = request[r].id /\ request'[r].step = step
  BY <1>1, <1>3 DEF RequestRecords
<1>6. request'[r] # Idle
  BY <1>5 DEF Idle, Steps, Over
<1>7. \A s \in Requests : s # r => request'[s] = request[s]
  BY <1>2 DEF TypeOK
<1>8. ~ Ended(r)
  BY DEF Ended
<1> QED
  BY <1>1, <1>4, <1>5, <1>6, <1>7, <1>8 DEF Runs, RunsTo

LEMMA InsertRuns ==
  ASSUME TypeOK, NEW r \in Requests, Insert(r)
  PROVE  \E i \in Ids :
           /\ invite[i] = Unused
           /\ invite' = [invite EXCEPT ![i] = Invite(request[r].inviter, request[r].email, today)]
           /\ Runs(r) /\ request'[r].id = i /\ request'[r].step = "done"
<1>1. request[r] # Idle /\ request[r] \in RequestRecords /\ ~ Ended(r)
  BY StepType DEF Insert, At, Steps, Ended, Over
<1>2. PICK i \in Ids :
        /\ invite[i] = Unused
        /\ invite' = [invite EXCEPT ![i] = Invite(request[r].inviter, request[r].email, today)]
        /\ request' = [request EXCEPT ![r] = [request[r] EXCEPT !.id = i, !.step = "done"]]
  BY DEF Insert
<1>3. request'[r] = [request[r] EXCEPT !.id = i, !.step = "done"]
  BY <1>2 DEF TypeOK
<1>4. request'[r] \in RequestRecords
  BY <1>1, <1>3 DEF RequestRecords, Over
<1>5. /\ request'[r].call = request[r].call /\ request'[r].inviter = request[r].inviter
      /\ request'[r].email = request[r].email /\ request'[r].before = request[r].before
      /\ request'[r].id = i /\ request'[r].step = "done"
  BY <1>1, <1>3 DEF RequestRecords
<1>6. request'[r] # Idle
  BY <1>5 DEF Idle
<1>7. \A s \in Requests : s # r => request'[s] = request[s]
  BY <1>2 DEF TypeOK
<1> QED
  BY <1>1, <1>2, <1>4, <1>5, <1>6, <1>7 DEF Runs

\* A call that comes is one of those the API has.
LEMMA ReceiveRuns ==
  ASSUME TypeOK, NEW r \in Requests, Receive(r)
  PROVE  /\ request[r] = Idle /\ request'[r] # Idle /\ request'[r] \in RequestRecords
         /\ request'[r].step = IF request'[r].call = "cancel" THEN "findInvite" ELSE "findUser"
         /\ request'[r].call = "create" => request'[r].id = NoToken
         /\ request'[r].call = "cancel" => request'[r].id \in Sent
         /\ request'[r].id \in Sent \cup {NoToken}
         /\ request'[r].before = {s \in Requests : Ended(s)}
         /\ \A s \in Requests : s # r => request'[s] = request[s]
         /\ UNCHANGED <<today, invite, account, lock>>
<1>1. PICK call \in Calls, u \in Inviters, e \in Emails, i \in Sent \cup {NoToken} :
        /\ call = "create" => i = NoToken
        /\ call = "cancel" => i \in Sent
        /\ request' = [request EXCEPT ![r] =
             [call |-> call, inviter |-> u, email |-> e, id |-> i,
              step |-> IF call = "cancel" THEN "findInvite" ELSE "findUser",
              before |-> {s \in Requests : Ended(s)}]]
  BY DEF Receive
<1>2. request'[r] = [call |-> call, inviter |-> u, email |-> e, id |-> i,
                     step |-> IF call = "cancel" THEN "findInvite" ELSE "findUser",
                     before |-> {s \in Requests : Ended(s)}]
  BY <1>1 DEF TypeOK
<1>3. i \in Ids \cup {NoToken}
  BY DEF Sent
<1>4. request'[r] \in RequestRecords
  BY <1>2, <1>3 DEF RequestRecords
<1>5. request'[r] # Idle
  BY <1>2 DEF Idle
<1>6. \A s \in Requests : s # r => request'[s] = request[s]
  BY <1>1 DEF TypeOK
<1>7. request[r] = Idle /\ UNCHANGED <<today, invite, account, lock>>
  BY DEF Receive
<1> QED
  BY <1>1, <1>2, <1>4, <1>5, <1>6, <1>7

\* An error in a registration, too, ends it.
LEMMA RefuseRuns ==
  ASSUME TypeOK, NEW r \in Requests, request[r].step \in Steps \ Over, Refuse(r)
  PROVE  RunsTo(r, "refused") /\ UNCHANGED account /\ lock' = Release(lock, r)
BY GotoRuns DEF Refuse, Steps, Over

\* Every statement of a call runs it, and where it goes.
LEMMA HandleRuns ==
  ASSUME TypeOK, NEW r \in Requests, Handle(r) \/ Die(r)
  PROVE  /\ Runs(r)
         /\ request'[r].id = request[r].id \/ Insert(r)
<1> USE DEF At, Steps, Over
<1>1. CASE FindUser(r)
  BY <1>1, GotoRuns DEF FindUser, RunsTo
<1>2. CASE Count(r)
  BY <1>2, GotoRuns DEF Count, RunsTo
<1>3. CASE Supersede(r)
  BY <1>3, GotoRuns DEF Supersede, RunsTo
<1>4. CASE Insert(r)
  BY <1>4, InsertRuns
<1>5. CASE FindInvite(r)
  BY <1>5, GotoRuns DEF FindInvite, RunsTo
<1>6. CASE Cancel(r)
  BY <1>6, GotoRuns DEF Cancel, RunsTo
<1>7. CASE CreateUser(r)
  BY <1>7, GotoRuns DEF CreateUser, RunsTo
<1>8. CASE ReadToken(r)
  BY <1>8, GotoRuns, RefuseRuns DEF ReadToken, RunsTo
<1>9. CASE Claim(r)
  BY <1>9, GotoRuns, RefuseRuns DEF Claim, RunsTo
<1>10. CASE Commit(r)
  BY <1>10, GotoRuns DEF Commit, RunsTo
<1>11. CASE Die(r)
  <2>1. request[r] \in RequestRecords /\ request[r].step \notin Over
    BY <1>11, MadeType DEF Die, Ended
  <2>2. request[r].step \in Steps \ Over
    BY <2>1 DEF RequestRecords
  <2> QED
    BY <1>11, <2>2, GotoRuns DEF Die, RunsTo
<1> QED
  BY <1>1, <1>2, <1>3, <1>4, <1>5, <1>6, <1>7, <1>8, <1>9, <1>10, <1>11 DEF Handle

-----------------------------------------------------------------------------
(* The invariants.                                                         *)

\* Which statements a call passes, and what it knows of the invite it names: there is
\* one, a registration past its first read has the invite's address, and what had ended
\* when the call came has ended for good.
Proper(r) ==
  /\ \A s \in request[r].before : Ended(s)
  /\ request[r].call = "create" =>
       /\ request[r].step \in {"findUser", "count", "supersede", "insert"} \cup Over
       /\ request[r].step = "done" =>
            /\ request[r].id \in Sent
            /\ invite[request[r].id].inviter = request[r].inviter
  /\ request[r].call = "cancel" =>
       /\ request[r].step \in {"findInvite", "cancel"} \cup Over
       /\ request[r].id \in Sent
  /\ request[r].call = "register" =>
       /\ request[r].step \in {"findUser", "createUser", "readToken", "claim", "commit"} \cup Over
       /\ request[r].id \in Sent \cup {NoToken}
       /\ request[r].step \in {"readToken", "claim"} => request[r].id # NoToken
       /\ (request[r].step \in {"claim", "commit"} /\ request[r].id # NoToken) =>
            invite[request[r].id].email = request[r].email

CallInv == \A r \in Requests : request[r] # Idle => Proper(r)

\* Between the claim and the commit the invite is locked and stays pending.
ClaimInv ==
  \A r \in Requests :
    (At(r, "register", "commit") /\ request[r].id # NoToken) =>
      /\ lock[<<"Invite", request[r].id>>] = r
      /\ invite[request[r].id].status = "PENDING"

\* An invitee is nobody but the account that was registered with the invite.
InviteeInv ==
  /\ \A i \in Sent :
       /\ invite[i].status = "PENDING" => invite[i].invitee = {}
       /\ invite[i].invitee \subseteq {invite[i].email} \cap account
  /\ \A r \in Requests :
       (Succeeded(r, "register") /\ request[r].id # NoToken) =>
         invite[request[r].id].invitee = {request[r].email}
  /\ \A e \in account : \E r \in Requests : Succeeded(r, "register") /\ request[r].email = e

\* A cancellation and a registration of one invite, one having ended when the other came.
Ordered(r, s) ==
  /\ (request[r].step \in {"cancel", "done"} /\ s \in request[r].before) =>
       request[s].step # "done"
  /\ (request[r].step = "done" /\ r \in request[s].before) =>
       request[s].step \notin {"claim", "commit", "done"}

\* A cancellation that succeeds has found its invite pending, and no registration that
\* comes after it does.
CancelInv ==
  /\ \A r \in Requests : Succeeded(r, "cancel") => invite[request[r].id].status # "PENDING"
  /\ \A r, s \in Requests :
       (Made(r, "cancel") /\ Made(s, "register") /\ request[r].id = request[s].id) => Ordered(r, s)

-----------------------------------------------------------------------------
(* What a step does to the table of invites.                               *)

\* Who may step.
LEMMA NextSplit ==
  ASSUME [Next]_vars
  PROVE  \/ \E r \in Requests : Receive(r)
         \/ \E r \in Requests : Handle(r) \/ Die(r)
         \/ Midnight
         \/ UNCHANGED vars
BY DEF Next

\* Only four statements write invites.
LEMMA InvitesStay ==
  ASSUME NEW r \in Requests, Handle(r) \/ Die(r),
         ~ Supersede(r), ~ Insert(r), ~ Cancel(r), ~ Commit(r)
  PROVE  UNCHANGED invite
BY DEF Handle, Die, FindUser, Count, FindInvite, CreateUser, ReadToken, Claim

\* A row that s, which is no registration, marks as cancelled is locked by nobody else.
CancelledBy(s, i) ==
  /\ request[s].call # "register"
  /\ Free(lock, <<"Invite", i>>, s)
  /\ invite'[i] = Cancelled(i)
  /\ invite[i].status = "PENDING" \/ (Cancel(s) /\ request[s].id = i)

ClaimedBy(s, i) ==
  /\ Commit(s) /\ request[s].id = i
  /\ invite'[i] = Accepted(i, request[s].email)

\* What a call can do to a row: nothing, cancel it, or accept it by a registration.
LEMMA RowChange ==
  ASSUME TypeOK, CallInv, NEW r \in Requests, Handle(r) \/ Die(r), NEW i \in Sent
  PROVE  invite'[i] = invite[i] \/ CancelledBy(r, i) \/ ClaimedBy(r, i)
<1>0. i \in Ids /\ invite[i] # Unused
  BY DEF Sent
<1>1. CASE Supersede(r)
  BY <1>0, <1>1 DEF Supersede, At, PendingFor, CancelledBy
<1>2. CASE Insert(r)
  <2>1. PICK j \in Ids :
          /\ invite[j] = Unused
          /\ invite' = [invite EXCEPT ![j] = Invite(request[r].inviter, request[r].email, today)]
    BY <1>2, InsertRuns
  <2> QED
    BY <1>0, <2>1 DEF TypeOK
<1>3. CASE Cancel(r)
  <2>1. CASE i = request[r].id
    BY <1>0, <1>3, <2>1 DEF Cancel, At, CancelledBy, TypeOK
  <2>2. CASE i # request[r].id
    BY <1>0, <1>3, <2>2 DEF Cancel, TypeOK
  <2> QED
    BY <2>1, <2>2
<1>4. CASE Commit(r)
  <2>1. CASE request[r].id = NoToken \/ i # request[r].id
    BY <1>0, <1>4, <2>1 DEF Commit, TypeOK
  <2>2. CASE request[r].id # NoToken /\ i = request[r].id
    BY <1>0, <1>4, <2>2 DEF Commit, TypeOK, ClaimedBy
  <2> QED
    BY <2>1, <2>2
<1> QED
  BY <1>1, <1>2, <1>3, <1>4, InvitesStay

\* A cancelled or accepted row is a row, and is who it was for.
LEMMA MarkedType ==
  ASSUME TypeOK, NEW i \in Sent, NEW e \in Emails
  PROVE  /\ Cancelled(i) \in InviteRows /\ Accepted(i, e) \in InviteRows
         /\ Cancelled(i).status = "CANCELLED" /\ Accepted(i, e).status = "ACCEPTED"
         /\ Cancelled(i).invitee = invite[i].invitee /\ Accepted(i, e).invitee = {e}
         /\ Cancelled(i).email = invite[i].email /\ Accepted(i, e).email = invite[i].email
         /\ Cancelled(i).inviter = invite[i].inviter /\ Accepted(i, e).inviter = invite[i].inviter
         /\ Cancelled(i).sentAt = invite[i].sentAt /\ Accepted(i, e).sentAt = invite[i].sentAt
<1>1. invite[i] \in InviteRows
  BY SentType DEF Sent
<1> QED
  BY <1>1 DEF Cancelled, Accepted, InviteRows

\* Nothing but its status and its invitee ever changes of a row.
LEMMA RowStays ==
  ASSUME TypeOK, CallInv, NEW r \in Requests, Handle(r) \/ Die(r), NEW i \in Sent
  PROVE  /\ invite'[i] \in InviteRows
         /\ invite'[i].email = invite[i].email
         /\ invite'[i].inviter = invite[i].inviter
         /\ invite'[i].sentAt = invite[i].sentAt
         /\ invite[i].status # "PENDING" => invite'[i].status # "PENDING"
<1>1. CASE invite'[i] = invite[i]
  BY <1>1, SentType DEF Sent
<1>2. CASE CancelledBy(r, i)
  <2>1. Emails # {}
    BY SentType DEF Sent, InviteRows
  <2> QED
    BY <1>2, <2>1, MarkedType DEF CancelledBy
<1>3. CASE ClaimedBy(r, i)
  <2>1. request[r].email \in Emails
    BY <1>3, HandleRuns DEF Runs, RequestRecords
  <2> QED
    BY <1>3, <2>1, MarkedType DEF ClaimedBy
<1> QED
  BY <1>1, <1>2, <1>3, RowChange

\* A row that is not there yet stays away, or is inserted.
LEMMA NewRow ==
  ASSUME TypeOK, CallInv, NEW r \in Requests, Handle(r) \/ Die(r), NEW i \in Ids, i \notin Sent
  PROVE  \/ invite'[i] = Unused
         \/ /\ Insert(r) /\ request'[r].id = i /\ request'[r].step = "done"
            /\ invite'[i] = Invite(request[r].inviter, request[r].email, today)
<1>0. invite[i] = Unused
  BY DEF Sent
<1>1. CASE Supersede(r)
  BY <1>0, <1>1 DEF Supersede, PendingFor, Sent
<1>2. CASE Insert(r)
  <2>1. PICK j \in Ids :
          /\ invite' = [invite EXCEPT ![j] = Invite(request[r].inviter, request[r].email, today)]
          /\ request'[r].id = j /\ request'[r].step = "done"
    BY <1>2, InsertRuns
  <2> QED
    BY <1>0, <1>2, <2>1 DEF TypeOK
<1>3. CASE Cancel(r)
  <2>1. request[r].id \in Sent
    BY <1>3, HandleRuns DEF Cancel, At, CallInv, Proper, Runs
  <2> QED
    BY <1>0, <1>3, <2>1 DEF Cancel, TypeOK, Sent
<1>4. CASE Commit(r)
  <2>1. request[r].id \in Sent \cup {NoToken}
    BY <1>4, HandleRuns DEF Commit, At, CallInv, Proper, Runs
  <2> QED
    BY <1>0, <1>4, <2>1 DEF Commit, TypeOK, Sent
<1> QED
  BY <1>0, <1>1, <1>2, <1>3, <1>4, InvitesStay

\* The table stays a table, and no row leaves it.
LEMMA InviteTableType ==
  ASSUME TypeOK, CallInv, [Next]_vars
  PROVE  /\ invite' \in [Ids -> InviteRows \cup {Unused}]
         /\ \A i \in Sent : i \in Sent'
<1>1. CASE UNCHANGED invite
  BY <1>1 DEF TypeOK, Sent
<1>2. ASSUME NEW r \in Requests, Handle(r) \/ Die(r)
      PROVE  /\ invite' \in [Ids -> InviteRows \cup {Unused}]
             /\ \A i \in Sent : i \in Sent'
  <2>1. \A i \in Sent : invite'[i] \in InviteRows
    BY <1>2, RowStays
  <2>2. \A i \in Ids \ Sent : invite'[i] \in InviteRows \cup {Unused}
    <3> SUFFICES ASSUME NEW i \in Ids, i \notin Sent PROVE invite'[i] \in InviteRows \cup {Unused}
      OBVIOUS
    <3>1. request[r].inviter \in Inviters /\ request[r].email \in Emails
      BY <1>2, HandleRuns DEF Runs, RequestRecords
    <3>2. Invite(request[r].inviter, request[r].email, today) \in InviteRows
      BY <3>1 DEF Invite, InviteRows, TypeOK
    <3> QED
      BY <1>2, <3>2, NewRow
  <2>3. DOMAIN invite' = Ids /\ invite' = [i \in Ids |-> invite'[i]]
    BY <1>2, InvitesStay, InsertRuns DEF Supersede, Cancel, Commit, TypeOK
  <2>4. invite' \in [Ids -> InviteRows \cup {Unused}]
    BY <2>1, <2>2, <2>3
  <2>5. Unused \notin InviteRows
    BY DEF Unused, InviteRows
  <2>6. \A i \in Sent : i \in Sent'
    BY <2>1, <2>5 DEF Sent
  <2> QED
    BY <2>4, <2>6
<1> QED
  BY <1>1, <1>2, NextSplit DEF Receive, Midnight, vars

-----------------------------------------------------------------------------
(* Type correctness, and the statements a call passes.                     *)

\* The table of calls stays one.
LEMMA RequestTableType ==
  ASSUME TypeOK, [Next]_vars
  PROVE  request' \in [Requests -> RequestRecords \cup {Idle}]
<1>1. ASSUME NEW r \in Requests, Receive(r) \/ Handle(r) \/ Die(r)
      PROVE  request' \in [Requests -> RequestRecords \cup {Idle}]
  <2>1. /\ request'[r] \in RequestRecords
        /\ \A s \in Requests : s # r => request'[s] = request[s]
    BY <1>1, HandleRuns, ReceiveRuns DEF Runs
  <2>2. \E record : request' = [request EXCEPT ![r] = record]
    BY <1>1 DEF Receive, Handle, Die, FindUser, Count, Supersede, Insert, FindInvite, Cancel,
                CreateUser, ReadToken, Claim, Commit, Goto, Refuse
  <2>3. DOMAIN request' = Requests /\ request' = [s \in Requests |-> request'[s]]
    BY <2>2 DEF TypeOK
  <2> QED
    BY <2>1, <2>3 DEF TypeOK
<1>2. CASE UNCHANGED request
  BY <1>2 DEF TypeOK
<1> QED
  BY <1>1, <1>2, NextSplit DEF Midnight, vars

\* So does the table of locks.
LEMMA LockTableType ==
  ASSUME TypeOK, NEW r \in Requests, Handle(r) \/ Die(r)
  PROVE  lock' \in [Rows -> Requests \cup {NoRequest}]
<1>1. \A row \in Rows : Take(lock, row, r) \in [Rows -> Requests \cup {NoRequest}]
  BY DEF TypeOK, Take
<1>2. Release(lock, r) \in [Rows -> Requests \cup {NoRequest}]
  BY DEF TypeOK, Release
<1>3. UNCHANGED lock \/ lock' = Release(lock, r) \/ \E row : lock' = Take(lock, row, r)
  BY DEF Handle, Die, FindUser, Count, Supersede, Insert, FindInvite, Cancel,
         CreateUser, ReadToken, Claim, Commit, Refuse
<1>4. \A row : Take(lock, row, r) \in [Rows -> Requests \cup {NoRequest}]
  BY <1>1 DEF Take, TypeOK
<1> QED
  BY <1>2, <1>3, <1>4 DEF TypeOK

\* Accounts are made by a commit alone.
LEMMA AccountChange ==
  ASSUME TypeOK, NEW r \in Requests, Handle(r) \/ Die(r)
  PROVE  account' = account \/ (Commit(r) /\ account' = account \cup {request[r].email})
BY DEF Handle, Die, FindUser, Count, Supersede, Insert, FindInvite, Cancel,
       CreateUser, ReadToken, Claim, Commit, Refuse

\* No statement of a call takes time.
LEMMA DayStays ==
  ASSUME NEW r \in Requests, Handle(r) \/ Die(r)
  PROVE  today' = today
BY DEF Handle, Die, FindUser, Count, Supersede, Insert, FindInvite, Cancel,
       CreateUser, ReadToken, Claim, Commit, Refuse

LEMMA TypeStep ==
  ASSUME TypeOK, CallInv, [Next]_vars
  PROVE  TypeOK'
<1>1. request' \in [Requests -> RequestRecords \cup {Idle}]
  BY RequestTableType
<1>2. invite' \in [Ids -> InviteRows \cup {Unused}]
  BY InviteTableType
<1>3. today' \in 0 .. LastDay /\ account' \subseteq Emails
      /\ lock' \in [Rows -> Requests \cup {NoRequest}]
  <2>1. ASSUME NEW r \in Requests, Handle(r) \/ Die(r)
        PROVE  today' \in 0 .. LastDay /\ account' \subseteq Emails
               /\ lock' \in [Rows -> Requests \cup {NoRequest}]
    <3>1. request[r].email \in Emails
      BY <2>1, HandleRuns DEF Runs, RequestRecords
    <3> QED
      BY <2>1, <3>1, LockTableType, AccountChange, DayStays DEF TypeOK
  <2>2. CASE Midnight
    BY <2>2, BoundsAssumption DEF Midnight, TypeOK
  <2> QED
    BY <2>1, <2>2, NextSplit DEF Receive, vars, TypeOK
<1> QED
  BY <1>1, <1>2, <1>3 DEF TypeOK


\* Rows stay for whom they were sent, whatever steps.
LEMMA SentStays ==
  ASSUME TypeOK, CallInv, [Next]_vars, NEW i \in Sent
  PROVE  /\ i \in Ids /\ i \in Sent'
         /\ invite'[i].email = invite[i].email
         /\ invite'[i].inviter = invite[i].inviter
         /\ invite'[i].sentAt = invite[i].sentAt
         /\ invite[i].status # "PENDING" => invite'[i].status # "PENDING"
<1>1. i \in Ids /\ i \in Sent'
  BY InviteTableType DEF Sent
<1>2. CASE UNCHANGED invite
  BY <1>1, <1>2
<1>3. ASSUME NEW r \in Requests, Handle(r) \/ Die(r)
      PROVE  /\ invite'[i].email = invite[i].email
             /\ invite'[i].inviter = invite[i].inviter
             /\ invite'[i].sentAt = invite[i].sentAt
             /\ invite[i].status # "PENDING" => invite'[i].status # "PENDING"
  BY <1>3, RowStays
<1> QED
  BY <1>1, <1>2, <1>3, NextSplit DEF Receive, Midnight, vars

\* A call that has ended is never taken up again.
LEMMA EndedStays ==
  ASSUME TypeOK, [Next]_vars, NEW s \in Requests, Ended(s)
  PROVE  request'[s] = request[s] /\ Ended(s)'
<1>1. Idle.step \notin Over
  BY DEF Idle, Over
<1>2. ASSUME NEW r \in Requests, Receive(r) \/ Handle(r) \/ Die(r)
      PROVE  request'[s] = request[s]
  <2>1. Receive(r) => request[r] = Idle
    BY DEF Receive
  <2>2. r # s
    BY <1>1, <1>2, <2>1, HandleRuns DEF Runs, Ended
  <2> QED
    BY <1>2, <2>2, HandleRuns, ReceiveRuns DEF Runs
<1>3. request'[s] = request[s]
  BY <1>2, NextSplit DEF Midnight, vars
<1> QED
  BY <1>3 DEF Ended

\* A call that stays where it is stays proper.
LEMMA ProperStays ==
  ASSUME TypeOK, CallInv, [Next]_vars, NEW r \in Requests, request[r] # Idle,
         request'[r] = request[r]
  PROVE  Proper(r)'
<1>1. Proper(r) /\ request[r] \in RequestRecords
  BY MadeType DEF CallInv
<1>2. \A s \in request[r].before : Ended(s)'
  BY <1>1, EndedStays DEF Proper, RequestRecords
<1>3. \A i \in Sent : i \in Sent' /\ invite'[i].email = invite[i].email
                      /\ invite'[i].inviter = invite[i].inviter
  BY SentStays
<1> QED
  BY <1>1, <1>2, <1>3, NoTokenNoId DEF Proper

\* A statement leads a call to another one of its own.
LEMMA ProperStep ==
  ASSUME TypeOK, CallInv, NEW r \in Requests, Handle(r) \/ Die(r)
  PROVE  Proper(r)'
<1>0. [Next]_vars
  BY DEF Next
<1>1. Proper(r) /\ Runs(r) /\ request[r] \in RequestRecords
  BY HandleRuns DEF CallInv, Runs
<1>2. \A s \in request'[r].before : Ended(s)'
  BY <1>0, <1>1, EndedStays DEF Proper, Runs, RequestRecords
<1>3. \A i \in Sent : i \in Sent' /\ invite'[i].email = invite[i].email
                      /\ invite'[i].inviter = invite[i].inviter
  BY <1>0, SentStays
<1> USE DEF At, Steps, Over
<1>4. CASE FindUser(r)
  <2>1. RunsTo(r, "refused") \/ (request[r].call = "create" /\ RunsTo(r, "count"))
          \/ (request[r].call # "create" /\ RunsTo(r, "createUser"))
    BY <1>4, GotoRuns DEF FindUser
  <2>2. request[r].call # "cancel"
    BY <1>1, <1>4 DEF FindUser, Proper
  <2> QED
    BY <1>1, <1>2, <1>3, <2>1, <2>2 DEF Proper, Runs, RunsTo
<1>5. CASE Count(r)
  <2>1. RunsTo(r, "refused") \/ RunsTo(r, "supersede")
    BY <1>5, GotoRuns DEF Count
  <2> QED
    BY <1>1, <1>2, <1>5, <2>1 DEF Proper, Runs, RunsTo, Count
<1>6. CASE Supersede(r)
  <2>1. RunsTo(r, "insert")
    BY <1>6, GotoRuns DEF Supersede
  <2> QED
    BY <1>1, <1>2, <1>6, <2>1 DEF Proper, Runs, RunsTo, Supersede
<1>7. CASE Insert(r)
  <2>1. PICK i \in Ids :
          /\ invite[i] = Unused
          /\ invite' = [invite EXCEPT ![i] = Invite(request[r].inviter, request[r].email, today)]
          /\ request'[r].id = i /\ request'[r].step = "done"
    BY <1>7, InsertRuns
  <2>2. invite'[i] = Invite(request[r].inviter, request[r].email, today)
    BY <2>1 DEF TypeOK
  <2>3. invite'[i] # Unused /\ invite'[i].inviter = request[r].inviter
    BY <2>2 DEF Invite, Unused
  <2>4. i \in Sent'
    BY <2>3 DEF Sent
  <2> QED
    BY <1>1, <1>2, <1>7, <2>1, <2>3, <2>4 DEF Proper, Runs, Insert
<1>8. CASE FindInvite(r)
  <2>1. RunsTo(r, "refused") \/ RunsTo(r, "cancel")
    BY <1>8, GotoRuns DEF FindInvite
  <2> QED
    BY <1>1, <1>2, <1>3, <1>8, <2>1 DEF Proper, Runs, RunsTo, FindInvite
<1>9. CASE Cancel(r)
  <2>1. RunsTo(r, "done")
    BY <1>9, GotoRuns DEF Cancel
  <2> QED
    BY <1>1, <1>2, <1>3, <1>9, <2>1 DEF Proper, Runs, RunsTo, Cancel
<1>10. CASE CreateUser(r)
  <2>1. RunsTo(r, "refused") \/ (request[r].id = NoToken /\ RunsTo(r, "commit"))
          \/ (request[r].id # NoToken /\ RunsTo(r, "readToken"))
    BY <1>10, GotoRuns DEF CreateUser
  <2> QED
    BY <1>1, <1>2, <1>3, <1>10, <2>1 DEF Proper, Runs, RunsTo, CreateUser
<1>11. CASE ReadToken(r)
  <2>1. RunsTo(r, "refused")
          \/ (invite[request[r].id].email = request[r].email /\ RunsTo(r, "claim"))
    BY <1>11, GotoRuns, RefuseRuns DEF ReadToken
  <2>2. request[r].id \in Sent
    BY <1>1, <1>11 DEF ReadToken, Proper
  <2> QED
    BY <1>1, <1>2, <1>3, <1>11, <2>1, <2>2, NoTokenNoId DEF Proper, Runs, RunsTo, ReadToken
<1>12. CASE Claim(r)
  <2>1. RunsTo(r, "refused") \/ RunsTo(r, "commit")
    BY <1>12, GotoRuns, RefuseRuns DEF Claim
  <2>2. request[r].id \in Sent /\ invite[request[r].id].email = request[r].email
    BY <1>1, <1>12 DEF Claim, Proper
  <2> QED
    BY <1>1, <1>2, <1>3, <1>12, <2>1, <2>2, NoTokenNoId DEF Proper, Runs, RunsTo, Claim
<1>13. CASE Commit(r)
  <2>1. RunsTo(r, "done")
    BY <1>13, GotoRuns DEF Commit
  <2> QED
    BY <1>1, <1>2, <1>3, <1>13, <2>1 DEF Proper, Runs, RunsTo, Commit
<1>14. CASE Die(r)
  <2>1. request[r].step \in Steps \ Over
    BY <1>1 DEF Runs, Ended, RequestRecords
  <2>2. RunsTo(r, "died")
    BY <1>14, <2>1, GotoRuns DEF Die
  <2> QED
    BY <1>1, <1>2, <1>3, <2>2 DEF Proper, Runs, RunsTo
<1> QED
  BY <1>4, <1>5, <1>6, <1>7, <1>8, <1>9, <1>10, <1>11, <1>12, <1>13, <1>14 DEF Handle

LEMMA CallStep ==
  ASSUME TypeOK, CallInv, [Next]_vars
  PROVE  CallInv'
<1> SUFFICES ASSUME NEW s \in Requests, request'[s] # Idle PROVE Proper(s)'
  BY DEF CallInv
<1>1. CASE request'[s] = request[s]
  BY <1>1, ProperStays
<1>2. ASSUME NEW r \in Requests, Handle(r) \/ Die(r), request'[s] # request[s]
      PROVE  Proper(s)'
  <2>1. s = r
    BY <1>2, HandleRuns DEF Runs
  <2> QED
    BY <1>2, <2>1, ProperStep
<1>3. ASSUME NEW r \in Requests, Receive(r), request'[s] # request[s]
      PROVE  Proper(s)'
  <2>1. s = r
    BY <1>3, ReceiveRuns
  <2>2. \A q \in request'[s].before : Ended(q)'
    <3>1. \A q \in request'[s].before : q \in Requests /\ Ended(q)
      BY <1>3, <2>1, ReceiveRuns
    <3> QED
      BY <3>1, EndedStays
  <2>3. Sent' = Sent
    BY <1>3, ReceiveRuns DEF Sent
  <2> QED
    BY <1>3, <2>1, <2>2, <2>3, ReceiveRuns DEF Proper, Over
<1> QED
  BY <1>1, <1>2, <1>3, NextSplit DEF Midnight, vars

\* The tables are of their types from the start, whether an invite was sent or not.
LEMMA InitInv ==
  ASSUME Init
  PROVE  TypeOK /\ CallInv
<1>1. invite \in [Ids -> InviteRows \cup {Unused}]
  <2>1. CASE invite = [i \in Ids |-> Unused]
    BY <2>1
  <2>2. ASSUME NEW u \in Inviters, NEW e \in Emails,
               invite = [i \in Ids |-> IF i = 1 THEN Invite(u, e, 0) ELSE Unused]
        PROVE  invite \in [Ids -> InviteRows \cup {Unused}]
    <3>1. Invite(u, e, 0) \in InviteRows
      BY BoundsAssumption DEF Invite, InviteRows
    <3> QED
      BY <2>2, <3>1
  <2> QED
    BY <2>1, <2>2 DEF Init
<1>2. lock \in [Rows -> Requests \cup {NoRequest}]
  BY DEF Init, Unlocked
<1>3. today \in 0 .. LastDay /\ account \subseteq Emails
  BY BoundsAssumption DEF Init
<1>4. \A r \in Requests : request[r] = Idle
  BY DEF Init
<1>5. request \in [Requests -> RequestRecords \cup {Idle}]
  BY DEF Init
<1> QED
  BY <1>1, <1>2, <1>3, <1>4, <1>5 DEF TypeOK, CallInv

\* Every table keeps its type, and every call passes only the statements of its endpoint.
THEOREM TypeCorrect == Spec => [](TypeOK /\ CallInv)
<1>1. TypeOK /\ CallInv /\ [Next]_vars => TypeOK' /\ CallInv'
  BY TypeStep, CallStep
<1>2. Init => TypeOK /\ CallInv
  BY InitInv
<1> QED
  BY <1>1, <1>2, PTL DEF Spec

-----------------------------------------------------------------------------
(* Where a statement leads.                                                *)

\* The steps a call can reach, and what it takes to get there.
Leads(r) ==
  LET step == request'[r].step
  IN  \/ FindUser(r) /\ step \in {"refused", "count", "createUser"}
      \/ Count(r) /\ (step = "refused" \/ (step = "supersede" /\ ~ LimitReached(request[r].inviter)))
      \/ Supersede(r) /\ step = "insert"
      \/ Insert(r) /\ step = "done"
      \/ FindInvite(r) /\ (step = "refused" \/ (step = "cancel" /\ Cancellable(r)))
      \/ Cancel(r) /\ step = "done"
      \/ CreateUser(r) /\ (step \in {"refused", "readToken"} \/ (step = "commit" /\ request[r].id = NoToken))
      \/ ReadToken(r) /\ (step = "refused" \/ (step = "claim" /\ invite[request[r].id].status = "PENDING"))
      \/ Claim(r) /\ \/ step = "refused"
                     \/ /\ step = "commit" /\ Claimable(request[r].id)
                        /\ lock' = Take(lock, <<"Invite", request[r].id>>, r)
      \/ Commit(r) /\ step = "done"
      \/ Die(r) /\ step = "died"

LEMMA HandleLeads ==
  ASSUME TypeOK, NEW r \in Requests, Handle(r) \/ Die(r)
  PROVE  Leads(r)
<1> USE DEF At, Steps, Over
<1>1. CASE FindUser(r)
  BY <1>1, GotoRuns DEF FindUser, RunsTo, Leads
<1>2. CASE Count(r)
  BY <1>2, GotoRuns DEF Count, RunsTo, Leads
<1>3. CASE Supersede(r)
  BY <1>3, GotoRuns DEF Supersede, RunsTo, Leads
<1>4. CASE Insert(r)
  BY <1>4, InsertRuns DEF Leads
<1>5. CASE FindInvite(r)
  BY <1>5, GotoRuns DEF FindInvite, RunsTo, Leads
<1>6. CASE Cancel(r)
  BY <1>6, GotoRuns DEF Cancel, RunsTo, Leads
<1>7. CASE CreateUser(r)
  BY <1>7, GotoRuns DEF CreateUser, RunsTo, Leads
<1>8. CASE ReadToken(r)
  BY <1>8, GotoRuns, RefuseRuns DEF ReadToken, RunsTo, Leads
<1>9. CASE Claim(r)
  BY <1>9, GotoRuns, RefuseRuns DEF Claim, RunsTo, Leads
<1>10. CASE Commit(r)
  BY <1>10, GotoRuns DEF Commit, RunsTo, Leads
<1>11. CASE Die(r)
  <2>1. request[r] \in RequestRecords /\ request[r].step \notin Over
    BY <1>11, MadeType DEF Die, Ended
  <2>2. request[r].step \in Steps \ Over
    BY <2>1 DEF RequestRecords
  <2> QED
    BY <1>11, <2>2, GotoRuns DEF Die, RunsTo, Leads
<1> QED
  BY <1>1, <1>2, <1>3, <1>4, <1>5, <1>6, <1>7, <1>8, <1>9, <1>10, <1>11 DEF Handle

\* What it is called with stays with a cancellation or a registration.
LEMMA MadeStays ==
  ASSUME TypeOK, NEW s \in Requests, Handle(s) \/ Die(s),
         NEW r \in Requests, request'[r] # Idle
  PROVE  /\ request[r] # Idle
         /\ request'[r].call = request[r].call
         /\ request'[r].email = request[r].email
         /\ request'[r].before = request[r].before
         /\ request[r].call # "create" => request'[r].id = request[r].id
         /\ r # s => request'[r] = request[r]
<1>1. CASE r = s
  BY <1>1, HandleRuns DEF Runs, Insert, At
<1>2. CASE r # s
  BY <1>2, HandleRuns DEF Runs
<1> QED
  BY <1>1, <1>2

-----------------------------------------------------------------------------
(* An invite serves one account.                                           *)

\* Nobody takes a lock that is held.
LEMMA LockStays ==
  ASSUME TypeOK, NEW r \in Requests, NEW s \in Requests, r # s, Handle(s) \/ Die(s),
         NEW row \in Rows, lock[row] = r
  PROVE  lock'[row] = r
<1>1. UNCHANGED lock \/ lock' = Release(lock, s)
        \/ \E x : Free(lock, x, s) /\ lock' = Take(lock, x, s)
  BY DEF Handle, Die, FindUser, Count, Supersede, Insert, FindInvite, Cancel,
         CreateUser, ReadToken, Claim, Commit, Refuse
<1>2. CASE UNCHANGED lock
  BY <1>2
<1>3. CASE lock' = Release(lock, s)
  BY <1>3 DEF Release, TypeOK
<1>4. ASSUME NEW x, Free(lock, x, s), lock' = Take(lock, x, s)
      PROVE  lock'[row] = r
  <2>1. x # row
    BY <1>4, NoRequestAssumption DEF Free
  <2> QED
    BY <1>4, <2>1 DEF Take, TypeOK
<1> QED
  BY <1>1, <1>2, <1>3, <1>4

\* What a registration has claimed nobody else cancels or accepts.
LEMMA ClaimStep ==
  ASSUME TypeOK, CallInv, ClaimInv, [Next]_vars
  PROVE  ClaimInv'
<1> SUFFICES ASSUME NEW r \in Requests, At(r, "register", "commit")', request'[r].id # NoToken
             PROVE  /\ lock'[<<"Invite", request'[r].id>>] = r
                    /\ invite'[request'[r].id].status = "PENDING"
  BY DEF ClaimInv
<1>0. request'[r] # Idle
  BY DEF At, Idle
<1>1. ASSUME NEW s \in Requests, Handle(s) \/ Die(s)
      PROVE  /\ lock'[<<"Invite", request'[r].id>>] = r
             /\ invite'[request'[r].id].status = "PENDING"
  <2>1. /\ request[r] # Idle /\ request[r].call = "register"
        /\ request'[r].id = request[r].id
    BY <1>0, <1>1, MadeStays DEF At
  <2>2. request[r].id \in Sent /\ request[r].id \in Ids
    BY <2>1 DEF CallInv, Proper, Sent
  <2>3. <<"Invite", request[r].id>> \in Rows
    BY <2>2 DEF Rows
  <2>4. CASE s = r
    <3>1. Claim(r) /\ Claimable(request[r].id) /\ lock' = Take(lock, <<"Invite", request[r].id>>, r)
      BY <1>1, <2>1, <2>4, HandleLeads DEF Leads, At
    <3>2. UNCHANGED invite
      BY <3>1 DEF Claim
    <3> QED
      BY <2>1, <2>3, <3>1, <3>2 DEF Take, TypeOK, Claimable
  <2>5. CASE s # r
    <3>1. request'[r] = request[r]
      BY <1>0, <1>1, <2>5, MadeStays
    <3>2. lock[<<"Invite", request[r].id>>] = r /\ invite[request[r].id].status = "PENDING"
      BY <2>1, <3>1 DEF ClaimInv, At
    <3>3. lock'[<<"Invite", request[r].id>>] = r
      BY <1>1, <2>3, <2>5, <3>2, LockStays
    <3>4. ~ CancelledBy(s, request[r].id)
      BY <2>5, <3>2, NoRequestAssumption DEF CancelledBy, Free
    <3>5. ~ ClaimedBy(s, request[r].id)
      BY <2>1, <2>5, <3>2 DEF ClaimedBy, Commit, ClaimInv
    <3> QED
      BY <1>1, <2>1, <2>2, <3>2, <3>3, <3>4, <3>5, RowChange
  <2> QED
    BY <2>4, <2>5
<1>2. ASSUME NEW s \in Requests, Receive(s)
      PROVE  /\ lock'[<<"Invite", request'[r].id>>] = r
             /\ invite'[request'[r].id].status = "PENDING"
  <2>1. r # s
    BY <1>2, ReceiveRuns DEF At
  <2> QED
    BY <1>2, <2>1, ReceiveRuns DEF ClaimInv, At
<1> QED
  BY <1>1, <1>2, NextSplit DEF Midnight, vars, ClaimInv, At

THEOREM ClaimCorrect == Spec => []ClaimInv
<1>1. Init => ClaimInv
  BY DEF Init, ClaimInv, At, Idle
<1>2. TypeOK /\ CallInv /\ ClaimInv /\ [Next]_vars => ClaimInv'
  BY ClaimStep
<1> QED
  BY <1>1, <1>2, TypeCorrect, PTL DEF Spec

\* Nobody is registered with an invite that was claimed, cancelled or superseded
\* (consumeReferralInviteTx, whose conditional update decides).
THEOREM SingleUseCorrect == Spec => SingleUse
<1> DEFINE Kept == \A i \in Ids : invite[i].status \in {"ACCEPTED", "CANCELLED"}
                     => invite'[i].invitee = invite[i].invitee
<1>1. TypeOK /\ CallInv /\ ClaimInv /\ [Next]_vars => [Kept]_vars
  <2> SUFFICES ASSUME TypeOK, CallInv, ClaimInv, Next, NEW i \in Ids,
                      invite[i].status \in {"ACCEPTED", "CANCELLED"}
               PROVE  invite'[i].invitee = invite[i].invitee
    OBVIOUS
  <2>1. i \in Sent
    BY DEF Sent, Unused
  <2>2. ASSUME NEW s \in Requests, Handle(s) \/ Die(s)
        PROVE  invite'[i].invitee = invite[i].invitee
    <3>1. CASE CancelledBy(s, i)
      <4>1. request[s].email \in Emails
        BY <2>2, HandleRuns DEF Runs, RequestRecords
      <4> QED
        BY <2>1, <3>1, <4>1, MarkedType DEF CancelledBy
    <3>2. ~ ClaimedBy(s, i)
      BY <2>1, NoTokenNoId DEF ClaimedBy, Commit, ClaimInv, Sent
    <3> QED
      BY <2>1, <2>2, <3>1, <3>2, RowChange
  <2>3. ASSUME UNCHANGED invite
        PROVE  invite'[i].invitee = invite[i].invitee
    BY <2>3
  <2>4. CASE \E s \in Requests : Receive(s)
    BY <2>3, <2>4 DEF Receive
  <2>5. CASE Midnight
    BY <2>3, <2>5 DEF Midnight
  <2>6. CASE UNCHANGED vars
    BY <2>3, <2>6 DEF vars
  <2> QED
    BY <2>2, <2>4, <2>5, <2>6, NextSplit
<1> QED
  BY <1>1, TypeCorrect, ClaimCorrect, PTL DEF Spec, SingleUse

-----------------------------------------------------------------------------
(* The claim and the account come to be together.                          *)

\* Rows and accounts after the statement of a call.
LEMMA InviteeStep ==
  ASSUME TypeOK, CallInv, ClaimInv, InviteeInv, NEW s \in Requests, Handle(s) \/ Die(s)
  PROVE  InviteeInv'
<1>0. [Next]_vars /\ TypeOK' /\ account \subseteq account'
  BY TypeStep, AccountChange DEF Next
<1>1. ASSUME NEW i \in Sent, ClaimedBy(s, i)
      PROVE  /\ request[s].email \in Emails /\ request[s].email \in account'
             /\ invite'[i].status = "ACCEPTED" /\ invite'[i].invitee = {request[s].email}
             /\ invite'[i].email = request[s].email
             /\ invite[i].status = "PENDING"
  <2>1. /\ Commit(s) /\ request[s].id = i /\ i # NoToken /\ request[s].email \in Emails
        /\ request[s] # Idle
    BY <1>1, HandleRuns, NoTokenNoId DEF ClaimedBy, Sent, Runs, RequestRecords
  <2>2. invite[i].email = request[s].email
    BY <2>1 DEF CallInv, Proper, Commit, At
  <2>3. invite[i].status = "PENDING"
    BY <2>1 DEF ClaimInv, Commit
  <2> QED
    BY <1>1, <2>1, <2>2, <2>3, MarkedType DEF ClaimedBy, Commit
<1>2. ASSUME NEW i \in Sent, CancelledBy(s, i)
      PROVE  /\ invite'[i].status = "CANCELLED" /\ invite'[i].invitee = invite[i].invitee
             /\ invite'[i].email = invite[i].email
  <2>1. request[s].email \in Emails
    BY HandleRuns DEF Runs, RequestRecords
  <2> QED
    BY <1>2, <2>1, MarkedType DEF CancelledBy
<1>3. ASSUME NEW i \in Sent'
      PROVE  /\ invite'[i].status = "PENDING" => invite'[i].invitee = {}
             /\ invite'[i].invitee \subseteq {invite'[i].email} \cap account'
  <2>1. CASE i \in Sent
    BY <1>0, <1>1, <1>2, <2>1, RowChange DEF InviteeInv
  <2>2. CASE i \notin Sent
    <3>1. i \in Ids /\ invite'[i] # Unused
      BY <1>3 DEF Sent
    <3>2. invite'[i] = Invite(request[s].inviter, request[s].email, today)
      BY <2>2, <3>1, NewRow
    <3> QED
      BY <3>2 DEF Invite
  <2> QED
    BY <2>1, <2>2
<1>4. ASSUME NEW r \in Requests, Succeeded(r, "register")', request'[r].id # NoToken
      PROVE  invite'[request'[r].id].invitee = {request'[r].email}
  <2>1. /\ request[r] # Idle /\ request[r].call = "register" /\ request'[r].call = "register"
        /\ request'[r].id = request[r].id /\ request'[r].email = request[r].email
        /\ request'[r].step = "done"
    BY <1>4, MadeStays DEF Succeeded, Made
  <2>2. request[r].id \in Sent
    BY <1>4, <2>1 DEF CallInv, Proper
  <2>3. CASE request'[r] = request[r]
    <3>1. invite[request[r].id].invitee = {request[r].email}
      BY <1>4, <2>1, <2>3 DEF InviteeInv, Succeeded, Made
    <3>2. invite[request[r].id].status # "PENDING"
      BY <2>2, <3>1 DEF InviteeInv
    <3> QED
      BY <1>1, <1>2, <2>1, <2>2, <3>1, <3>2, RowChange
  <2>4. CASE request'[r] # request[r]
    <3>1. r = s
      BY <1>4, <2>4, MadeStays DEF Succeeded, Made
    <3>2. Commit(r)
      BY <2>1, <3>1, HandleLeads DEF Leads, Insert, Cancel, At
    <3>3. invite'[request[r].id] = Accepted(request[r].id, request[r].email)
      BY <1>4, <2>1, <2>2, <3>2 DEF Commit, TypeOK, Sent
    <3> QED
      BY <1>1, <2>1, <2>2, <3>1, <3>2, <3>3 DEF ClaimedBy
  <2> QED
    BY <2>3, <2>4
<1>5. ASSUME NEW e \in account'
      PROVE  \E r \in Requests : Succeeded(r, "register")' /\ request'[r].email = e
  <2>1. CASE e \in account
    <3>1. PICK r \in Requests : Succeeded(r, "register") /\ request[r].email = e
      BY <2>1 DEF InviteeInv
    <3>2. request'[r] = request[r]
      BY <1>0, <3>1, EndedStays DEF Succeeded, Ended, Over
    <3> QED
      BY <3>1, <3>2 DEF Succeeded, Made
  <2>2. CASE e \notin account
    <3>1. Commit(s) /\ e = request[s].email
      BY <1>5, <2>2, AccountChange
    <3>2. request'[s].step = "done" /\ request'[s] # Idle /\ request'[s].call = "register"
          /\ request'[s].email = e
      BY <3>1, HandleRuns, GotoRuns DEF Commit, At, Steps, Over, Runs, RunsTo
    <3> QED
      BY <3>2 DEF Succeeded, Made
  <2> QED
    BY <2>1, <2>2
<1> QED
  BY <1>3, <1>4, <1>5 DEF InviteeInv

THEOREM InviteeCorrect == Spec => []InviteeInv
<1>1. Init => InviteeInv
  <2> SUFFICES ASSUME Init PROVE InviteeInv
    OBVIOUS
  <2>1. \A i \in Sent : invite[i].invitee = {}
    BY DEF Init, Sent, Invite
  <2>2. account = {} /\ \A r \in Requests : request[r] = Idle
    BY DEF Init
  <2> QED
    BY <2>1, <2>2 DEF InviteeInv, Succeeded, Made
<1>2. TypeOK /\ CallInv /\ ClaimInv /\ InviteeInv /\ [Next]_vars => InviteeInv'
  <2> SUFFICES ASSUME TypeOK, CallInv, ClaimInv, InviteeInv, [Next]_vars PROVE InviteeInv'
    OBVIOUS
  <2>1. ASSUME NEW s \in Requests, Handle(s) \/ Die(s) PROVE InviteeInv'
    BY <2>1, InviteeStep
  <2>2. ASSUME NEW s \in Requests, Receive(s) PROVE InviteeInv'
    <3>1. \A r \in Requests : (Succeeded(r, "register")' <=> Succeeded(r, "register"))
            /\ (Succeeded(r, "register") => request'[r] = request[r])
      <4> SUFFICES ASSUME NEW r \in Requests
                   PROVE  (Succeeded(r, "register")' <=> Succeeded(r, "register"))
                          /\ (Succeeded(r, "register") => request'[r] = request[r])
        OBVIOUS
      <4>1. CASE r = s
        <5>1. request[r] = Idle /\ request'[r].step # "done"
          BY <2>2, <4>1, ReceiveRuns
        <5> QED
          BY <5>1 DEF Succeeded, Made
      <4>2. CASE r # s
        BY <2>2, <4>2, ReceiveRuns DEF Succeeded, Made
      <4> QED
        BY <4>1, <4>2
    <3>2. UNCHANGED <<invite, account>>
      BY <2>2, ReceiveRuns
    <3> QED
      BY <3>1, <3>2 DEF InviteeInv, Sent
  <2>3. CASE UNCHANGED <<invite, account, request>>
    BY <2>3 DEF InviteeInv, Sent, Succeeded, Made
  <2> QED
    BY <2>1, <2>2, <2>3, NextSplit DEF Midnight, vars
<1> QED
  BY <1>1, <1>2, TypeCorrect, ClaimCorrect, PTL DEF Spec

\* An account is there with the claim of its invite, and a claim with its account
\* (AuthService.register, whose transaction does both).
THEOREM ClaimedCorrect == Spec => []ClaimedWithAccount
<1>1. InviteeInv => ClaimedWithAccount
  <2> SUFFICES ASSUME InviteeInv PROVE ClaimedWithAccount
    OBVIOUS
  <2>1. \A i \in Sent : invite[i].invitee \subseteq {invite[i].email} \cap account
    BY DEF InviteeInv
  <2>2. ASSUME NEW e \in account
        PROVE  \E r \in Requests :
                 /\ Succeeded(r, "register") /\ request[r].email = e
                 /\ request[r].id # NoToken => invite[request[r].id].invitee = {e}
    BY <2>2 DEF InviteeInv
  <2> QED
    BY <2>1, <2>2 DEF ClaimedWithAccount
<1> QED
  BY <1>1, InviteeCorrect, PTL

-----------------------------------------------------------------------------
(* A cancellation is not undone.                                           *)

\* A cancellation that ends as done has found the invite pending or takes it now.
LEMMA CancelEnds ==
  ASSUME TypeOK, CallInv, CancelInv, [Next]_vars, NEW r \in Requests,
         Made(r, "cancel"), request'[r].step = "done"
  PROVE  invite'[request[r].id].status # "PENDING"
<1>1. request[r].id \in Sent /\ request[r].id \in Ids
  BY DEF Made, CallInv, Proper, Sent
<1>2. CASE request'[r] = request[r]
  BY <1>1, <1>2, SentStays DEF CancelInv, Succeeded
<1>3. ASSUME NEW x \in Requests, Handle(x) \/ Die(x), request'[r] # request[r]
      PROVE  invite'[request[r].id].status # "PENDING"
  <2>1. x = r
    BY <1>3, HandleRuns DEF Runs
  <2>2. Cancel(r)
    BY <1>3, <2>1, HandleLeads DEF Leads, Insert, Commit, At, Made
  <2>3. invite'[request[r].id] = Cancelled(request[r].id)
    BY <1>1, <2>2 DEF Cancel, TypeOK
  <2>4. request[r].email \in Emails
    BY MadeType DEF Made, RequestRecords
  <2> QED
    BY <1>1, <2>3, <2>4, MarkedType
<1>4. ASSUME NEW x \in Requests, Receive(x)
      PROVE  request'[r] = request[r]
  BY <1>4, ReceiveRuns DEF Made
<1> QED
  BY <1>2, <1>3, <1>4, NextSplit DEF Midnight, vars

\* A statement of either keeps them in order.
LEMMA OrderStep ==
  ASSUME TypeOK, CallInv, InviteeInv, CancelInv, NEW x \in Requests, Handle(x) \/ Die(x),
         NEW r \in Requests, NEW s \in Requests,
         Made(r, "cancel"), Made(s, "register"), request[r].id = request[s].id
  PROVE  Ordered(r, s)'
<1>0. /\ request[r].id \in Sent /\ request[s].id # NoToken
      /\ r # s /\ Ordered(r, s)
  BY NoTokenNoId DEF Made, CallInv, Proper, Sent, CancelInv, Ordered
<1>1. request'[r].before = request[r].before /\ request'[s].before = request[s].before
  BY HandleRuns DEF Runs
<1>2. CASE x # r /\ x # s
  BY <1>0, <1>2, HandleRuns DEF Runs, Ordered
<1>3. CASE x = r
  <2>1. request'[s] = request[s] /\ ~ Ended(r)
    BY <1>0, <1>3, HandleRuns DEF Runs
  <2>2. r \notin request[s].before
    BY <2>1 DEF Made, CallInv, Proper
  <2>3. ASSUME request'[r].step \in {"cancel", "done"}, s \in request[r].before, request[s].step = "done"
        PROVE  FALSE
    <3>1. FindInvite(r) \/ Cancel(r)
      BY <1>3, <2>3, HandleLeads DEF Leads, Insert, Commit, At, Made
    <3>2. CASE FindInvite(r)
      <4>1. invite[request[r].id].status = "PENDING"
        BY <1>3, <2>3, <3>2, HandleLeads DEF Leads, FindInvite, FindUser, Count, Supersede,
           Insert, Cancel, CreateUser, ReadToken, Claim, Commit, At, Cancellable, Made
      <4>2. invite[request[r].id].invitee = {request[s].email}
        BY <1>0, <2>3 DEF InviteeInv, Succeeded, Made
      <4> QED
        BY <1>0, <4>1, <4>2 DEF InviteeInv
    <3>3. CASE Cancel(r)
      BY <1>0, <2>3, <3>3 DEF Cancel, At, Ordered
    <3> QED
      BY <3>1, <3>2, <3>3
  <2> QED
    BY <1>1, <2>1, <2>2, <2>3 DEF Ordered
<1>4. CASE x = s
  <2>1. request'[r] = request[r] /\ ~ Ended(s)
    BY <1>0, <1>4, HandleRuns DEF Runs
  <2>2. s \notin request[r].before
    BY <2>1 DEF Made, CallInv, Proper
  <2>3. ASSUME request[r].step = "done", r \in request[s].before,
               request'[s].step \in {"claim", "commit", "done"}
        PROVE  FALSE
    <3>1. ReadToken(s) \/ Claim(s) \/ Commit(s)
      BY <1>0, <1>4, <2>3, HandleLeads DEF Leads, Insert, Cancel, At, Made
    <3>2. CASE ReadToken(s)
      <4>1. request[s].step = "readToken" /\ invite[request[s].id].status = "PENDING"
        BY <1>4, <2>3, <3>2, HandleLeads DEF Leads, FindInvite, FindUser, Count, Supersede,
           Insert, Cancel, CreateUser, ReadToken, Claim, Commit, Die, At, Made
      <4> QED
        BY <2>3, <4>1 DEF CancelInv, Succeeded
    <3>3. CASE Claim(s) \/ Commit(s)
      BY <1>0, <2>3, <3>3 DEF Claim, Commit, At, Ordered
    <3> QED
      BY <3>1, <3>2, <3>3
  <2> QED
    BY <1>1, <2>1, <2>2, <2>3 DEF Ordered
<1> QED
  BY <1>2, <1>3, <1>4

LEMMA CancelStep ==
  ASSUME TypeOK, CallInv, InviteeInv, CancelInv, [Next]_vars
  PROVE  CancelInv'
<1>1. ASSUME NEW r \in Requests, Succeeded(r, "cancel")'
      PROVE  invite'[request'[r].id].status # "PENDING"
  <2>1. ASSUME NEW x \in Requests, Handle(x) \/ Die(x)
        PROVE  invite'[request'[r].id].status # "PENDING"
    <3>1. Made(r, "cancel") /\ request'[r].id = request[r].id /\ request'[r].step = "done"
      BY <1>1, <2>1, MadeStays DEF Succeeded, Made
    <3> QED
      BY <3>1, CancelEnds
  <2>2. ASSUME NEW x \in Requests, Receive(x)
        PROVE  invite'[request'[r].id].status # "PENDING"
    <3>1. x # r
      BY <1>1, <2>2, ReceiveRuns DEF Succeeded
    <3> QED
      BY <1>1, <2>2, <3>1, ReceiveRuns DEF CancelInv, Succeeded, Made
  <2>3. CASE UNCHANGED <<invite, request>>
    BY <1>1, <2>3 DEF CancelInv, Succeeded, Made
  <2> QED
    BY <2>1, <2>2, <2>3, NextSplit DEF Midnight, vars
<1>2. ASSUME NEW r \in Requests, NEW s \in Requests,
             Made(r, "cancel")', Made(s, "register")', request'[r].id = request'[s].id
      PROVE  Ordered(r, s)'
  <2>1. ASSUME NEW x \in Requests, Handle(x) \/ Die(x)
        PROVE  Ordered(r, s)'
    <3>1. Made(r, "cancel") /\ Made(s, "register") /\ request[r].id = request[s].id
      BY <1>2, <2>1, MadeStays DEF Made
    <3> QED
      BY <2>1, <3>1, OrderStep
  <2>2. ASSUME NEW x \in Requests, Receive(x)
        PROVE  Ordered(r, s)'
    <3>1. CASE x = r
      BY <1>2, <2>2, <3>1, ReceiveRuns DEF Ordered, Made
    <3>2. CASE x = s
      BY <1>2, <2>2, <3>2, ReceiveRuns DEF Ordered, Made
    <3>3. CASE x # r /\ x # s
      BY <1>2, <2>2, <3>3, ReceiveRuns DEF CancelInv, Ordered, Made
    <3> QED
      BY <3>1, <3>2, <3>3
  <2>3. CASE UNCHANGED request
    BY <1>2, <2>3 DEF CancelInv, Ordered, Made
  <2> QED
    BY <2>1, <2>2, <2>3, NextSplit DEF Midnight, vars
<1> QED
  BY <1>1, <1>2 DEF CancelInv

THEOREM CancelCorrect == Spec => []CancelInv
<1>1. Init => CancelInv
  BY DEF Init, CancelInv, Succeeded, Made
<1>2. TypeOK /\ CallInv /\ InviteeInv /\ CancelInv /\ [Next]_vars => CancelInv'
  BY CancelStep
<1> QED
  BY <1>1, <1>2, TypeCorrect, InviteeCorrect, PTL DEF Spec

\* Whoever has cancelled an invite and been told so has it back, but for a registration
\* with it at the same time (cancel and AuthService.register).
THEOREM CancelHoldsCorrect == Spec => []CancelHolds
<1>1. CancelInv => CancelHolds
  <2> SUFFICES ASSUME CancelInv,
                      NEW r \in Requests, NEW s \in Requests,
                      Succeeded(r, "cancel"), Succeeded(s, "register"), request[r].id = request[s].id
               PROVE  Overlapped(r, s)
    BY DEF CancelHolds
  <2>1. Ordered(r, s)
    BY DEF CancelInv, Succeeded
  <2> QED
    BY <2>1 DEF Ordered, Succeeded, Overlapped
<1> QED
  BY <1>1, CancelCorrect, PTL

-----------------------------------------------------------------------------
(* The limit of a day.                                                     *)

\* The rows an inviter sent on a day.
SentOn(rows, u, day) ==
  {i \in Ids : rows[i] # Unused /\ rows[i].inviter = u /\ rows[i].sentAt = day}

\* Whoever is to insert has counted room, or somebody has inserted since.
LimitInv ==
  /\ \A i \in Sent : invite[i].sentAt <= today
  /\ \A r \in Requests :
       (Made(r, "create") /\ request[r].step \in {"supersede", "insert"}) =>
         \/ Cardinality(SentOn(invite, request[r].inviter, today)) < MAX_INVITES_PER_UTC_DAY
         \/ \E s \in Requests :
              /\ s # r /\ Succeeded(s, "create") /\ s \notin request[r].before
              /\ request[s].inviter = request[r].inviter

\* Rows of a day are finitely many.
LEMMA SentOnFinite ==
  ASSUME NEW rows, NEW u, NEW day
  PROVE  /\ IsFiniteSet(SentOn(rows, u, day)) /\ Cardinality(SentOn(rows, u, day)) \in Nat
         /\ \A i : /\ Cardinality(SentOn(rows, u, day) \cup {i}) \in Nat
                   /\ Cardinality(SentOn(rows, u, day) \cup {i})
                        <= Cardinality(SentOn(rows, u, day)) + 1
<1>1. IsFiniteSet(Ids)
  BY BoundsAssumption, FS_Interval DEF Ids
<1>2. SentOn(rows, u, day) \subseteq Ids
  BY DEF SentOn
<1>3. IsFiniteSet(SentOn(rows, u, day))
  BY <1>1, <1>2, FS_Subset
<1>4. Cardinality(SentOn(rows, u, day)) \in Nat
  BY <1>3, FS_CardinalityType
<1>5. \A i : \/ Cardinality(SentOn(rows, u, day) \cup {i}) = Cardinality(SentOn(rows, u, day))
             \/ Cardinality(SentOn(rows, u, day) \cup {i}) = Cardinality(SentOn(rows, u, day)) + 1
  BY <1>3, FS_AddElement
<1>6. ASSUME NEW i
      PROVE  /\ Cardinality(SentOn(rows, u, day) \cup {i}) \in Nat
             /\ Cardinality(SentOn(rows, u, day) \cup {i}) <= Cardinality(SentOn(rows, u, day)) + 1
  <2>1. ASSUME NEW n \in Nat, NEW m, m = n \/ m = n + 1
        PROVE  m \in Nat /\ m <= n + 1
    BY <2>1
  <2>2. \/ Cardinality(SentOn(rows, u, day) \cup {i}) = Cardinality(SentOn(rows, u, day))
        \/ Cardinality(SentOn(rows, u, day) \cup {i}) = Cardinality(SentOn(rows, u, day)) + 1
    BY <1>5
  <2> HIDE DEF SentOn
  <2> QED
    BY <1>4, <2>1, <2>2
<1> QED
  BY <1>3, <1>4, <1>6

\* Only an insert adds a row to a day, and nothing takes one away.
LEMMA SentOnStep ==
  ASSUME TypeOK, CallInv, [Next]_vars, NEW u, NEW day
  PROVE  \/ SentOn(invite', u, day) = SentOn(invite, u, day)
         \/ \E r \in Requests, i \in Ids :
              /\ Insert(r) /\ request[r].inviter = u /\ today = day
              /\ SentOn(invite', u, day) = SentOn(invite, u, day) \cup {i}
<1>1. CASE UNCHANGED invite
  BY <1>1 DEF SentOn, Sent
<1>2. ASSUME NEW r \in Requests, Insert(r)
      PROVE  \/ SentOn(invite', u, day) = SentOn(invite, u, day)
             \/ \E i \in Ids :
                  /\ request[r].inviter = u /\ today = day
                  /\ SentOn(invite', u, day) = SentOn(invite, u, day) \cup {i}
  <2>1. PICK i \in Ids :
          /\ invite[i] = Unused
          /\ invite' = [invite EXCEPT ![i] = Invite(request[r].inviter, request[r].email, today)]
    BY <1>2, InsertRuns
  <2>2. /\ invite'[i] = Invite(request[r].inviter, request[r].email, today)
        /\ \A j \in Ids : j # i => invite'[j] = invite[j]
    BY <2>1 DEF TypeOK
  <2>3. invite'[i] # Unused /\ invite'[i].inviter = request[r].inviter /\ invite'[i].sentAt = today
    <3>1. Invite(request[r].inviter, request[r].email, today).status = "PENDING"
          /\ Unused.status = "unused"
      BY DEF Invite, Unused
    <3> QED
      BY <2>2, <3>1 DEF Invite
  <2>4. i \notin SentOn(invite, u, day)
    BY <2>1 DEF SentOn, Sent
  <2>5. CASE request[r].inviter = u /\ today = day
    BY <2>2, <2>3, <2>4, <2>5 DEF SentOn, Sent
  <2>6. CASE ~ (request[r].inviter = u /\ today = day)
    BY <2>2, <2>3, <2>4, <2>6 DEF SentOn, Sent
  <2> QED
    BY <2>5, <2>6
<1>3. ASSUME NEW r \in Requests, Handle(r) \/ Die(r), ~ Insert(r)
      PROVE  SentOn(invite', u, day) = SentOn(invite, u, day)
  <2>1. \A i \in Sent : /\ i \in Sent' /\ invite'[i].inviter = invite[i].inviter
                        /\ invite'[i].sentAt = invite[i].sentAt
    BY SentStays
  <2>2. \A i \in Ids : i \notin Sent => i \notin Sent'
    BY <1>3, NewRow DEF Sent
  <2>3. Sent' = Sent
    BY <2>1, <2>2 DEF Sent
  <2> QED
    BY <2>1, <2>3 DEF SentOn, Sent
<1> QED
  BY <1>1, <1>2, <1>3, NextSplit DEF Receive, Midnight, vars

\* No row is of a day to come.
LEMMA SentAtStep ==
  ASSUME TypeOK, CallInv, LimitInv, [Next]_vars, NEW i \in Sent'
  PROVE  invite'[i].sentAt <= today'
<1>1. today \in Nat /\ today' \in Nat /\ today <= today'
  <2>1. today' = today \/ today' = today + 1
    BY DayStays, NextSplit DEF Receive, Midnight, vars
  <2> QED
    BY <2>1, BoundsAssumption DEF TypeOK
<1>2. CASE i \in Sent
  <2>1. invite'[i].sentAt = invite[i].sentAt /\ invite[i].sentAt <= today
    BY <1>2, SentStays DEF LimitInv
  <2>2. invite[i].sentAt \in Nat
    BY <1>2, SentType, BoundsAssumption DEF Sent, InviteRows
  <2> QED
    BY <1>1, <2>1, <2>2
<1>3. CASE i \notin Sent
  <2>1. i \in Ids /\ invite'[i] # Unused /\ invite[i] = Unused
    BY <1>3 DEF Sent
  <2>2. PICK r \in Requests : Handle(r) \/ Die(r)
    BY <2>1, NextSplit DEF Receive, Midnight, vars
  <2>3. invite'[i] = Invite(request[r].inviter, request[r].email, today)
    BY <1>3, <2>1, <2>2, NewRow
  <2>4. invite'[i].sentAt = today
    BY <2>3 DEF Invite
  <2> QED
    BY <1>1, <2>4
<1> QED
  BY <1>2, <1>3

\* A call that has inserted stays a witness.
LEMMA WitnessStays ==
  ASSUME TypeOK, [Next]_vars, NEW s \in Requests, Succeeded(s, "create")
  PROVE  Succeeded(s, "create")' /\ request'[s] = request[s]
<1>1. request'[s] = request[s]
  BY EndedStays DEF Succeeded, Ended, Over
<1> QED
  BY <1>1 DEF Succeeded, Made

\* Who counted room counted it of the day; at midnight the count starts over.
LEMMA LimitStep ==
  ASSUME TypeOK, CallInv, LimitInv, [Next]_vars
  PROVE  LimitInv'
<1>1. \A i \in Sent' : invite'[i].sentAt <= today'
  BY SentAtStep
<1>2. ASSUME NEW r \in Requests, Made(r, "create")', request'[r].step \in {"supersede", "insert"}
      PROVE  \/ Cardinality(SentOn(invite', request'[r].inviter, today')) < MAX_INVITES_PER_UTC_DAY
             \/ \E s \in Requests :
                  /\ s # r /\ Succeeded(s, "create")' /\ s \notin request'[r].before
                  /\ request'[s].inviter = request'[r].inviter
  <2> DEFINE Witness(s) == /\ s # r /\ Succeeded(s, "create") /\ s \notin request[r].before
                           /\ request[s].inviter = request[r].inviter
             Room == Cardinality(SentOn(invite, request[r].inviter, today)) < MAX_INVITES_PER_UTC_DAY
  <2>1. ASSUME Made(r, "create"), request'[r].inviter = request[r].inviter,
               request'[r].before = request[r].before, NEW s \in Requests, Witness(s)
        PROVE  \E x \in Requests :
                 /\ x # r /\ Succeeded(x, "create")' /\ x \notin request'[r].before
                 /\ request'[x].inviter = request'[r].inviter
    BY <2>1, WitnessStays
  <2>2. ASSUME NEW x \in Requests, Receive(x)
        PROVE  r # x /\ request'[r] = request[r] /\ UNCHANGED <<today, invite>>
    BY <1>2, <2>2, ReceiveRuns
  <2>3. CASE UNCHANGED <<today, invite>> /\ request'[r] = request[r]
    <3>1. Made(r, "create") /\ request[r].step \in {"supersede", "insert"}
      BY <1>2, <2>3 DEF Made
    <3>2. Room \/ \E s \in Requests : Witness(s)
      BY <3>1 DEF LimitInv
    <3>3. SentOn(invite', request'[r].inviter, today') = SentOn(invite, request[r].inviter, today)
      BY <2>3
    <3> QED
      BY <2>1, <2>3, <3>1, <3>2, <3>3
  <2>4. CASE Midnight
    <3>1. SentOn(invite', request'[r].inviter, today') = {}
      <4>1. \A i \in Sent : invite[i].sentAt \in Nat /\ invite[i].sentAt <= today
        BY SentType, BoundsAssumption DEF LimitInv, Sent, InviteRows
      <4>2. today \in Nat /\ today' = today + 1 /\ UNCHANGED invite
        BY <2>4, BoundsAssumption DEF Midnight, TypeOK
      <4>3. \A i \in Sent : invite[i].sentAt # today'
        BY <4>1, <4>2
      <4> QED
        BY <4>2, <4>3 DEF SentOn, Sent
    <3>2. 0 < MAX_INVITES_PER_UTC_DAY
      BY BoundsAssumption
    <3> QED
      BY <3>1, <3>2, FS_EmptySet
  <2>5. ASSUME NEW x \in Requests, Handle(x) \/ Die(x)
        PROVE  \/ Cardinality(SentOn(invite', request'[r].inviter, today')) < MAX_INVITES_PER_UTC_DAY
               \/ \E s \in Requests :
                    /\ s # r /\ Succeeded(s, "create")' /\ s \notin request'[r].before
                    /\ request'[s].inviter = request'[r].inviter
    <3>1. /\ request[r] # Idle /\ Made(r, "create") /\ today' = today
          /\ request'[r].inviter = request[r].inviter /\ request'[r].before = request[r].before
      <4>1. request'[r].inviter = request[r].inviter
        BY <1>2, <2>5, HandleRuns DEF Runs, Made
      <4> QED
        BY <1>2, <2>5, <4>1, MadeStays, DayStays DEF Made
    <3>2. SentOn(invite', request'[r].inviter, today') = SentOn(invite', request[r].inviter, today')
      BY <3>1 DEF SentOn
    <3>3. CASE Insert(x) /\ request[x].inviter = request[r].inviter
      <4>1. Made(x, "create") /\ ~ Ended(x) /\ Succeeded(x, "create")'
            /\ request'[x].inviter = request[x].inviter
        BY <2>5, <3>3, HandleRuns, InsertRuns DEF Runs, Succeeded, Made, Insert, At
      <4>2. x # r
        BY <1>2, <4>1 DEF Succeeded
      <4>3. x \notin request[r].before
        BY <3>1, <4>1 DEF CallInv, Proper
      <4> QED
        BY <3>1, <3>3, <4>1, <4>2, <4>3
    <3>4. CASE ~ (Insert(x) /\ request[x].inviter = request[r].inviter)
      <4>1. SentOn(invite', request[r].inviter, today') = SentOn(invite, request[r].inviter, today)
        <5>1. ASSUME NEW y \in Requests, Insert(y) PROVE y = x
          <6>1. request'[y] # request[y]
            BY <5>1, InsertRuns DEF Insert, At
          <6> QED
            BY <2>5, <6>1, HandleRuns DEF Runs
        <5>2. [Next]_vars
          OBVIOUS
        <5>3. SentOn(invite', request[r].inviter, today) = SentOn(invite, request[r].inviter, today)
          BY <3>4, <5>1, <5>2, SentOnStep
        <5> QED
          BY <3>1, <5>3
      <4>2. Room \/ (\E s \in Requests : Witness(s)) \/ Count(r)
        <5>1. CASE request[r].step \in {"supersede", "insert"}
          BY <3>1, <5>1 DEF LimitInv
        <5>2. CASE request[r].step \notin {"supersede", "insert"}
          <6>1. r = x
            BY <1>2, <2>5, <5>2, MadeStays DEF Made
          <6> QED
            BY <1>2, <2>5, <5>2, <6>1, HandleLeads DEF Leads, Supersede, At
        <5> QED
          BY <5>1, <5>2
      <4>3. CASE Count(r)
        <5>1. r = x
          <6>1. request'[r] # request[r]
            BY <1>2, <4>3 DEF Count, At
          <6> QED
            BY <2>5, <6>1, HandleRuns DEF Runs
        <5>2. ~ LimitReached(request[r].inviter)
          BY <1>2, <2>5, <4>3, <5>1, HandleLeads DEF Leads, FindInvite, FindUser, Count, Supersede,
             Insert, Cancel, CreateUser, ReadToken, Claim, Commit, Die, At
        <5>3. SentToday(request[r].inviter) = SentOn(invite, request[r].inviter, today)
          BY DEF SentToday, SentOn, Sent
        <5>4. Room
          BY <5>2, <5>3, SentOnFinite, BoundsAssumption DEF LimitReached
        <5> QED
          BY <3>2, <4>1, <5>4
      <4> QED
        BY <2>1, <3>1, <3>2, <4>1, <4>2, <4>3
    <3> QED
      BY <3>3, <3>4
  <2> QED
    BY <1>2, <2>2, <2>3, <2>4, <2>5, NextSplit DEF vars
<1> QED
  BY <1>1, <1>2 DEF LimitInv

\* Where an insert makes the rows of a day too many, another has been at it.
LEMMA DailyStep ==
  ASSUME TypeOK, CallInv, LimitInv, DailyLimit, [Next]_vars
  PROVE  DailyLimit'
<1> SUFFICES ASSUME NEW u \in Inviters, NEW day \in 0 .. LastDay,
                    Cardinality(SentOn(invite', u, day)) > MAX_INVITES_PER_UTC_DAY
             PROVE  \E r, s \in Requests :
                      /\ r # s /\ Succeeded(r, "create")' /\ Succeeded(s, "create")'
                      /\ request'[r].inviter = u /\ request'[s].inviter = u /\ Overlapped(r, s)'
  BY DEF DailyLimit, SentOn, Sent
<1>1. CASE SentOn(invite', u, day) = SentOn(invite, u, day)
  <2>1. PICK r \in Requests, s \in Requests :
          /\ r # s /\ Succeeded(r, "create") /\ Succeeded(s, "create")
          /\ request[r].inviter = u /\ request[s].inviter = u /\ Overlapped(r, s)
    BY <1>1 DEF DailyLimit, SentOn, Sent
  <2> QED
    BY <2>1, WitnessStays DEF Overlapped
<1>2. ASSUME NEW r \in Requests, NEW i \in Ids, Insert(r), request[r].inviter = u, today = day,
             SentOn(invite', u, day) = SentOn(invite, u, day) \cup {i}
      PROVE  \E s \in Requests :
               /\ r # s /\ Succeeded(r, "create")' /\ Succeeded(s, "create")'
               /\ request'[r].inviter = u /\ request'[s].inviter = u /\ Overlapped(r, s)'
  <2>1. /\ Made(r, "create") /\ ~ Ended(r) /\ Succeeded(r, "create")'
        /\ request'[r].inviter = u /\ request'[r].before = request[r].before
        /\ request[r].step = "insert"
    BY <1>2, InsertRuns DEF Runs, Succeeded, Made, Insert, At
  <2>2. ~ (Cardinality(SentOn(invite, u, today)) < MAX_INVITES_PER_UTC_DAY)
    <3>1. Cardinality(SentOn(invite, u, day)) \in Nat
          /\ Cardinality(SentOn(invite', u, day)) \in Nat
          /\ Cardinality(SentOn(invite', u, day)) <= Cardinality(SentOn(invite, u, day)) + 1
      BY <1>2, SentOnFinite
    <3> QED
      BY <1>2, <3>1, BoundsAssumption
  <2>3. PICK s \in Requests :
          /\ s # r /\ Succeeded(s, "create") /\ s \notin request[r].before
          /\ request[s].inviter = u
    BY <1>2, <2>1, <2>2 DEF LimitInv
  <2>4. r \notin request[s].before
    BY <2>1, <2>3 DEF CallInv, Proper, Succeeded, Made
  <2>5. Succeeded(s, "create")' /\ request'[s] = request[s]
    BY <2>3, WitnessStays
  <2> QED
    BY <2>1, <2>3, <2>4, <2>5 DEF Overlapped
<1> QED
  BY <1>1, <1>2, SentOnStep

\* Whatever takes an inviter over the limit of a day was sent at the same time as
\* another (createInvite, which counts and inserts in two statements).
THEOREM DailyLimitCorrect == Spec => []DailyLimit
<1>1. Init => LimitInv /\ DailyLimit
  <2> SUFFICES ASSUME Init PROVE LimitInv /\ DailyLimit
    OBVIOUS
  <2>1. Sent \subseteq {1} /\ \A i \in Sent : invite[i].sentAt = 0
    BY DEF Init, Sent, Invite
  <2>2. LimitInv
    BY <2>1 DEF Init, LimitInv, Made
  <2>3. ASSUME NEW u \in Inviters, NEW day \in 0 .. LastDay
        PROVE  ~ (Cardinality({i \in Sent : invite[i].inviter = u /\ invite[i].sentAt = day})
                    > MAX_INVITES_PER_UTC_DAY)
    <3>1. SentOn(invite, u, day) = {} \/ SentOn(invite, u, day) = {1}
      BY <2>1 DEF SentOn, Sent
    <3>2. Cardinality(SentOn(invite, u, day)) = 0 \/ Cardinality(SentOn(invite, u, day)) = 1
      BY <3>1, FS_EmptySet, FS_Singleton
    <3> QED
      BY <3>2, BoundsAssumption DEF SentOn, Sent
  <2> QED
    BY <2>2, <2>3 DEF DailyLimit
<1>2. TypeOK /\ CallInv /\ LimitInv /\ DailyLimit /\ [Next]_vars => (LimitInv /\ DailyLimit)'
  BY LimitStep, DailyStep
<1> QED
  BY <1>1, <1>2, TypeCorrect, PTL DEF Spec
=============================================================================
