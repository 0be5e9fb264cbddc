------------------------------ MODULE Invites ------------------------------
(***************************************************************************)
(* createInvite and cancel of invites.service.ts and the registration of   *)
(* auth.service.ts that consumes an invite. The first two are single       *)
(* statements one after the other; a registration creates the account and  *)
(* claims the invite in one READ COMMITTED transaction, whose locks are    *)
(* those of RowLocks. The bonus it pays is Progression's.                  *)
(***************************************************************************)
EXTENDS Naturals, FiniteSets, RowLocks

CONSTANTS
  Inviters,
  Emails,         \* normalized addresses, none of an inviter; an account goes by its address
  MaxRequests,    \* bound: the calls that can be made
  MaxInvites,     \* bound: the ids invites are given, from 1 upwards
  LastDay,        \* bound: the clock stops there
  INVITE_EXPIRY,  \* days an invite is good for
  MAX_INVITES_PER_UTC_DAY

ASSUME BoundsAssumption ==
  /\ MaxRequests \in Nat /\ MaxInvites \in Nat \ {0} /\ LastDay \in Nat
  /\ INVITE_EXPIRY \in Nat /\ MAX_INVITES_PER_UTC_DAY \in Nat \ {0}

Requests == 1 .. MaxRequests

ASSUME NoRequestAssumption == NoRequest \notin Requests

VARIABLES
  today,    \* the day it is
  invite,   \* invite[i] : row i, which its token names
  account,  \* the addresses that have an account
  lock,     \* row locks of the registrations' transactions
  request   \* request[r] : the call r, where it stands and what it has read

vars == <<today, invite, account, lock, request>>

Ids == 1 .. MaxInvites

NoToken == 0

Unused == [status |-> "unused"]

Sent == {i \in Ids : invite[i] # Unused}

Rows == ({"Invite"} \X Ids) \cup ({"User"} \X Emails)

Idle == [step |-> "idle"]

Calls == {"create", "cancel", "register"}

Over == {"done", "refused", "died"}

InviteRows ==
  [inviter : Inviters, email : Emails, sentAt : 0 .. LastDay,
   status : {"PENDING", "ACCEPTED", "CANCELLED"}, invitee : SUBSET Emails]

Invite(u, e, day) ==
  [inviter |-> u, email |-> e, sentAt |-> day, status |-> "PENDING", invitee |-> {}]

Cancelled(i) == [invite[i] EXCEPT !.status = "CANCELLED"]

Accepted(i, e) == [invite[i] EXCEPT !.status = "ACCEPTED", !.invitee = {e}]

RequestRecords ==
  [call : Calls, inviter : Inviters, email : Emails, id : Ids \cup {NoToken},
   step : {"findUser", "count", "supersede", "insert", "findInvite", "cancel",
           "createUser", "readToken", "claim", "commit"} \cup Over,
   before : SUBSET Requests]

\* Nobody has registered yet; an invite may have been sent.
Init ==
  /\ today = 0
  /\ \/ invite = [i \in Ids |-> Unused]
     \/ \E u \in Inviters, e \in Emails :
          invite = [i \in Ids |-> IF i = 1 THEN Invite(u, e, 0) ELSE Unused]
  /\ account = {}
  /\ lock = Unlocked(Rows)
  /\ request = [r \in Requests |-> Idle]

At(r, call, step) == request[r].step = step /\ request[r].call = call

Goto(r, step) == request' = [request EXCEPT ![r].step = step]

Ended(r) == request[r].step \in Over

\* POST /invites, DELETE /invites/:id and POST /auth/register, with or without the
\* token of an invite; calls are numbered in the order they come. "before" is kept
\* for the properties.
Receive(r) ==
  \E call \in Calls, u \in Inviters, e \in Emails, i \in Sent \cup {NoToken} :
    /\ request[r] = Idle /\ \A s \in Requests : s < r => request[s] # Idle
    /\ call = "create" => i = NoToken
    /\ call = "cancel" => i \in Sent /\ e = invite[i].email
    /\ call = "register" => u = CHOOSE v \in Inviters : TRUE
    /\ request' = [request EXCEPT ![r] =
         [call |-> call, inviter |-> u, email |-> e, id |-> i,
          step |-> IF call = "cancel" THEN "findInvite" ELSE "findUser",
          before |-> {s \in Requests : Ended(s)}]]
    /\ UNCHANGED <<today, invite, account, lock>>

\* Midnight, UTC.
Midnight ==
  /\ today < LastDay
  /\ today' = today + 1
  /\ UNCHANGED <<invite, account, lock, request>>

\* Both createInvite and register turn down an address that has an account. (The
\* former asks that it be active; every account is here.)
FindUser(r) ==
  /\ request[r].step = "findUser"
  /\ Goto(r, IF request[r].email \in account THEN "refused"
             ELSE IF request[r].call = "create" THEN "count" ELSE "createUser")
  /\ UNCHANGED <<today, invite, account, lock>>

-----------------------------------------------------------------------------
(* createInvite                                                            *)

SentToday(u) == {i \in Sent : invite[i].inviter = u /\ invite[i].sentAt = today}

\* Faulty variant: one more than the limit.
LimitExceeded(u) == Cardinality(SentToday(u)) > MAX_INVITES_PER_UTC_DAY

LimitReached(u) == Cardinality(SentToday(u)) >= MAX_INVITES_PER_UTC_DAY

Count(r) ==
  /\ At(r, "create", "count")
  /\ Goto(r, IF LimitReached(request[r].inviter) THEN "refused" ELSE "supersede")
  /\ UNCHANGED <<today, invite, account, lock>>

PendingFor(u, e) ==
  {i \in Sent : invite[i].inviter = u /\ invite[i].email = e /\ invite[i].status = "PENDING"}

\* An updateMany, which waits for the rows a registration is about to claim and
\* leaves alone those it has.
Supersede(r) ==
  /\ At(r, "create", "supersede")
  /\ LET pending == PendingFor(request[r].inviter, request[r].email)
     IN  /\ \A i \in pending : Free(lock, <<"Invite", i>>, r)
         /\ invite' = [i \in Ids |-> IF i \in pending THEN Cancelled(i) ELSE invite[i]]
  /\ Goto(r, "insert")
  /\ UNCHANGED <<today, account, lock>>

Insert(r) ==
  /\ At(r, "create", "insert")
  /\ \E i \in Ids :
       /\ invite[i] = Unused /\ \A k \in 1 .. i - 1 : invite[k] # Unused
       /\ invite' = [invite EXCEPT ![i] = Invite(request[r].inviter, request[r].email, today)]
       /\ request' = [request EXCEPT ![r] = [@ EXCEPT !.id = i, !.step = "done"]]
  /\ UNCHANGED <<today, account, lock>>

-----------------------------------------------------------------------------
(* cancel                                                                  *)

\* Faulty variant: any invite of the caller's.
CancellableAny(r) == invite[request[r].id].inviter = request[r].inviter

Cancellable(r) ==
  /\ invite[request[r].id].inviter = request[r].inviter
  /\ invite[request[r].id].status = "PENDING"

FindInvite(r) ==
  /\ At(r, "cancel", "findInvite")
  /\ Goto(r, IF Cancellable(r) THEN "cancel" ELSE "refused")
  /\ UNCHANGED <<today, invite, account, lock>>

\* By id alone: also an invite accepted since it was read.
Cancel(r) ==
  /\ At(r, "cancel", "cancel")
  /\ Free(lock, <<"Invite", request[r].id>>, r)
  /\ invite' = [invite EXCEPT ![request[r].id] = Cancelled(request[r].id)]
  /\ Goto(r, "done")
  /\ UNCHANGED <<today, account, lock>>

-----------------------------------------------------------------------------
(* register                                                                *)

\* The transaction's row is nobody else's to see before the commit, but its unique
\* e-mail makes another insert of it wait and then fail.
CreateUser(r) ==
  /\ At(r, "register", "createUser")
  /\ Free(lock, <<"User", request[r].email>>, r)
  /\ IF request[r].email \in account
     THEN Goto(r, "refused") /\ UNCHANGED lock
     ELSE /\ lock' = Take(lock, <<"User", request[r].email>>, r)
          /\ Goto(r, IF request[r].id = NoToken THEN "commit" ELSE "readToken")
  /\ UNCHANGED <<today, invite, account>>

\* Faulty variant: the account stays though its invite is refused.
RefuseKeepingAccount(r) ==
  /\ lock' = Release(lock, r)
  /\ account' = account \cup {request[r].email}
  /\ Goto(r, "refused")

\* An error in the transaction rolls it back.
Refuse(r) ==
  /\ lock' = Release(lock, r)
  /\ Goto(r, "refused")
  /\ UNCHANGED account

Expired(i) == today - invite[i].sentAt > INVITE_EXPIRY

\* consumeReferralInviteTx reads the invite without a lock.
ReadToken(r) ==
  /\ At(r, "register", "readToken")
  /\ LET i == request[r].id
     IN  IF invite[i].status = "PENDING" /\ ~ Expired(i) /\ invite[i].email = request[r].email
         THEN Goto(r, "claim") /\ UNCHANGED <<account, lock>>
         ELSE Refuse(r)
  /\ UNCHANGED <<today, invite>>

\* Faulty variant: the claim trusts the status read before.
ClaimableAsRead(i) == TRUE

\* The condition of the updateMany, evaluated when the row is locked.
Claimable(i) == invite[i].status = "PENDING"

Claim(r) ==
  /\ At(r, "register", "claim")
  /\ Free(lock, <<"Invite", request[r].id>>, r)
  /\ IF Claimable(request[r].id)
     THEN /\ lock' = Take(lock, <<"Invite", request[r].id>>, r)
          /\ Goto(r, "commit")
          /\ UNCHANGED account
     ELSE Refuse(r)
  /\ UNCHANGED <<today, invite>>

\* The account, the claimed invite and with them the friendship and the bonuses.
Commit(r) ==
  /\ At(r, "register", "commit")
  /\ account' = account \cup {request[r].email}
  /\ invite' = IF request[r].id = NoToken THEN invite
               ELSE [invite EXCEPT ![request[r].id] = Accepted(request[r].id, request[r].email)]
  /\ lock' = Release(lock, r)
  /\ Goto(r, "done")
  /\ UNCHANGED today

\* A lost connection or the transaction's timeout.
Die(r) ==
  /\ request[r] # Idle /\ ~ Ended(r)
  /\ lock' = Release(lock, r)
  /\ Goto(r, "died")
  /\ UNCHANGED <<today, invite, account>>

Handle(r) ==
  \/ FindUser(r) \/ Count(r) \/ Supersede(r) \/ Insert(r) \/ FindInvite(r) \/ Cancel(r)
  \/ CreateUser(r) \/ ReadToken(r) \/ Claim(r) \/ Commit(r)

Next == Midnight \/ \E r \in Requests : Receive(r) \/ Handle(r) \/ Die(r)

Spec == Init /\ [][Next]_vars

-----------------------------------------------------------------------------
(* Properties.                                                             *)

TypeOK ==
  /\ today \in 0 .. LastDay
  /\ invite \in [Ids -> InviteRows \cup {Unused}]
  /\ account \subseteq Emails
  /\ lock \in [Rows -> Requests \cup {NoRequest}]
  /\ request \in [Requests -> RequestRecords \cup {Idle}]

Made(r, call) == request[r] # Idle /\ request[r].call = call

Succeeded(r, call) == Made(r, call) /\ request[r].step = "done"

Overlapped(r, s) == r \notin request[s].before /\ s \notin request[r].before

\* register.dto.ts calls the token single-use. Nobody is registered with an invite that
\* was claimed, cancelled or superseded by then, though the registration may have read
\* it as pending.
SingleUse ==
  [][\A i \in Ids : invite[i].status \in {"ACCEPTED", "CANCELLED"}
       => invite'[i].invitee = invite[i].invitee]_vars

\* An account and the claim it was registered with come to be together: no account
\* without its invite, no invite with an invitee who has no account or another address.
ClaimedWithAccount ==
  /\ \A i \in Sent : invite[i].invitee \subseteq {invite[i].email} \cap account
  /\ \A e \in account : \E r \in Requests :
       /\ Succeeded(r, "register") /\ request[r].email = e
       /\ request[r].id # NoToken => invite[request[r].id].invitee = {e}

\* An inviter whose cancel succeeds has taken the invite back, unless somebody
\* was registering with it at the time. No later registration gets in.
CancelHolds ==
  \A r, s \in Requests :
    (Succeeded(r, "cancel") /\ Succeeded(s, "register") /\ request[r].id = request[s].id)
      => Overlapped(r, s)

\* The limit of a day is exceeded by none but invites created at the same time.
DailyLimit ==
  \A u \in Inviters, day \in 0 .. LastDay :
    Cardinality({i \in Sent : invite[i].inviter = u /\ invite[i].sentAt = day})
        > MAX_INVITES_PER_UTC_DAY
      => \E r, s \in Requests :
           /\ r # s /\ Succeeded(r, "create") /\ Succeeded(s, "create")
           /\ request[r].inviter = u /\ request[s].inviter = u /\ Overlapped(r, s)
=============================================================================
