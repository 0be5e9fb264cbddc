------------------------------ MODULE Sessions ------------------------------
(***************************************************************************)
(* login, refresh and logout of auth.service.ts about one user row, whose  *)
(* refreshTokenHash holds the one refresh token that is accepted. Each     *)
(* statement is an action; none of them is in a transaction.               *)
(*                                                                         *)
(* A refresh token says whose it is and the second it was signed in, so    *)
(* two that are signed in one second are one and the same: a token is the  *)
(* second. The hash is as good as the token it was made of.                *)
(***************************************************************************)
EXTENDS Naturals

CONSTANTS
  MaxRequests,  \* bound: the calls that can be made
  LastSecond,   \* bound: the clock stops there
  EXPIRES_IN    \* auth.refreshExpiresIn in seconds

ASSUME BoundsAssumption ==
  /\ MaxRequests \in Nat /\ LastSecond \in Nat /\ EXPIRES_IN \in Nat \ {0}

VARIABLES
  now,               \* the second it is
  active,            \* User.status is ACTIVE
  refreshTokenHash,  \* the token accepted, None after a logout
  request            \* request[r] : the call r, where it stands and what it has read

vars == <<now, active, refreshTokenHash, request>>

Requests == 1 .. MaxRequests

Tokens == 0 .. LastSecond
None   == LastSecond + 1

Idle == [step |-> "idle"]

Over == {"done", "refused", "died"}

RequestRecords ==
  [call : {"login", "refresh", "logout"}, token : Tokens \cup {None}, issued : Tokens \cup {None},
   step : {"verify", "read", "sign", "store", "authorize", "clear"} \cup Over,
   before : SUBSET Requests]

\* Registered in second 0, and since then perhaps logged out.
Init ==
  /\ now = 0
  /\ active = TRUE
  /\ refreshTokenHash \in {0, None}
  /\ request = [r \in Requests |-> Idle]

Ended(r) == request[r].step \in Over

At(r, call, step) == request[r].step = step /\ request[r].call = call

Goto(r, step) == request' = [request EXCEPT ![r].step = step]

\* The tokens a client can hold: that of the registration and those issued since.
Issued == {0} \cup {t \in Tokens : \E r \in Requests : request[r].step = "done" /\ request[r].issued = t}

FirstStep(call) == IF call = "login" THEN "read" ELSE IF call = "refresh" THEN "verify" ELSE "authorize"

\* "before" holds the calls that had ended when this one came, kept for the properties.
Open(call, token) ==
  [call |-> call, token |-> token, issued |-> None, step |-> FirstStep(call),
   before |-> {s \in Requests : Ended(s)}]

\* POST /auth/login, /refresh and /logout; calls are numbered in the order they come.
Receive(r) ==
  \E call \in {"login", "refresh", "logout"}, token \in Issued \cup {None} :
    /\ request[r] = Idle /\ \A s \in Requests : s < r => request[s] # Idle
    /\ (call = "refresh") = (token # None)
    /\ request' = [request EXCEPT ![r] = Open(call, token)]
    /\ UNCHANGED <<now, active, refreshTokenHash>>

Tick ==
  /\ now < LastSecond
  /\ now' = now + 1
  /\ UNCHANGED <<active, refreshTokenHash, request>>

\* Somebody with access to the database suspends the account, or restores it.
SetStatus ==
  /\ active' = ~ active
  /\ UNCHANGED <<now, refreshTokenHash, request>>

\* Right password or wrong; the status counts after it.
ReadForLogin(r) ==
  /\ At(r, "login", "read")
  /\ \E valid \in BOOLEAN : Goto(r, IF valid /\ active THEN "sign" ELSE "refused")
  /\ UNCHANGED <<now, active, refreshTokenHash>>

Expired(token) == now >= token + EXPIRES_IN

\* verifyRefreshToken: the signature is good, the token is too old or not.
Verify(r) ==
  /\ At(r, "refresh", "verify")
  /\ Goto(r, IF Expired(request[r].token) THEN "refused" ELSE "read")
  /\ UNCHANGED <<now, active, refreshTokenHash>>

\* Faulty variant: a hash that is null lets every token pass.
MatchesOrNone(token) == refreshTokenHash \in {token, None}

Matches(token) == refreshTokenHash = token

\* The row is read once and the token compared with what was read. The status is
\* not asked for.
ReadForRefresh(r) ==
  /\ At(r, "refresh", "read")
  /\ Goto(r, IF Matches(request[r].token) THEN "sign" ELSE "refused")
  /\ UNCHANGED <<now, active, refreshTokenHash>>

\* issueTokens: both tokens are signed, the second counts for the refresh token.
Sign(r) ==
  /\ request[r].step = "sign"
  /\ request' = [request EXCEPT ![r] = [@ EXCEPT !.issued = now, !.step = "store"]]
  /\ UNCHANGED <<now, active, refreshTokenHash>>

\* Faulty variant: only a login stores the hash.
StoredByLogin(r) == IF request[r].call = "login" THEN request[r].issued ELSE refreshTokenHash

\* Faulty variant: the hash of the token that was presented.
StoredAsPresented(r) == request[r].token

Stored(r) == request[r].issued

\* updateRefreshTokenHash by id alone, whatever the column holds by now.
Store(r) ==
  /\ request[r].step = "store"
  /\ refreshTokenHash' = Stored(r)
  /\ Goto(r, "done")
  /\ UNCHANGED <<now, active>>

\* The guard of every call that needs a session: JwtStrategy.validate reads the user.
Authorize(r) ==
  /\ At(r, "logout", "authorize")
  /\ Goto(r, IF active THEN "clear" ELSE "refused")
  /\ UNCHANGED <<now, active, refreshTokenHash>>

Clear(r) ==
  /\ At(r, "logout", "clear")
  /\ refreshTokenHash' = None
  /\ Goto(r, "done")
  /\ UNCHANGED <<now, active>>

\* The process ends, or the client gives up before the answer.
Die(r) ==
  /\ request[r] # Idle /\ ~ Ended(r)
  /\ Goto(r, "died")
  /\ UNCHANGED <<now, active, refreshTokenHash>>

Handle(r) ==
  \/ ReadForLogin(r) \/ Verify(r) \/ ReadForRefresh(r) \/ Sign(r) \/ Store(r)
  \/ Authorize(r) \/ Clear(r)

Next == Tick \/ SetStatus \/ \E r \in Requests : Receive(r) \/ Handle(r) \/ Die(r)

Spec == Init /\ [][Next]_vars

-----------------------------------------------------------------------------
(* Properties.                                                             *)

TypeOK ==
  /\ now \in Tokens /\ active \in BOOLEAN
  /\ refreshTokenHash \in Tokens \cup {None}
  /\ request \in [Requests -> RequestRecords \cup {Idle}]
  /\ \A r \in Requests : request[r] # Idle =>
       (request[r].issued # None => request[r].call # "logout" /\ request[r].issued <= now)

Made(r, call) == request[r] # Idle /\ request[r].call = call

Succeeded(r, call) == Made(r, call) /\ request[r].step = "done"

Issuers == {r \in Requests : Succeeded(r, "login") \/ Succeeded(r, "refresh")}

\* SKILL.md says that a logout revokes the refresh chain: a refresh that comes after
\* one succeeds only where a login or a refresh had not ended by then, or a login came
\* later.
LogoutEndsChain ==
  \A r, l \in Requests :
    (Succeeded(r, "refresh") /\ Succeeded(l, "logout") /\ l \in request[r].before)
      => \E s \in Issuers \ {r} :
           s \notin request[l].before /\ (request[s].call = "login" \/ l \notin request[s].before)

\* A token that was exchanged is good for nothing, unless the exchange had not ended
\* when it was presented again or the same second brought it back to life.
ExchangedOnce ==
  \A r, s \in Requests :
    (Succeeded(r, "refresh") /\ Succeeded(s, "refresh")
       /\ request[r].token = request[s].token /\ r \in request[s].before)
      => \E q \in Issuers : q \notin request[r].before /\ request[q].issued = request[r].token

\* Who holds the token of the last call that answered can refresh: a refresh that is
\* refused in time presents a token that some later or overlapping call has replaced.
RefusedIfReplaced ==
  \A r, q \in Requests :
    ( /\ q \in Issuers /\ q \in (IF request[r] = Idle THEN {} ELSE request[r].before)
      /\ Made(r, "refresh") /\ request[r].step = "refused"
      /\ request[r].token = request[q].issued /\ ~ Expired(request[r].token) )
      => \E s \in Requests \ {r, q} :
           /\ Succeeded(s, "logout") \/ s \in Issuers
           /\ s \notin request[q].before
=============================================================================
