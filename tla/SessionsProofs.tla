--------------------------- MODULE SessionsProofs ---------------------------
(***************************************************************************)
(* What logins, refreshes and logouts that overlap leave in the one column *)
(* that holds the accepted token, for any number of calls, any time a      *)
(* token lives and any moment a call may die.                              *)
(***************************************************************************)
EXTENDS Sessions, TLAPS

Steps == {"verify", "read", "sign", "store", "authorize", "clear"} \cup Over

-----------------------------------------------------------------------------
(* The table of calls, and what a statement does to it.                    *)

CallTable == request \in [Requests -> RequestRecords \cup {Idle}]

LEMMA TokenFacts ==
  /\ Tokens \subseteq Nat /\ None \in Nat /\ None \notin Tokens /\ 0 \in Tokens
  /\ LastSecond \in Nat
BY BoundsAssumption DEF Tokens, None

\* A call that is made is a record; who is at a statement has been made.
LEMMA MadeType ==
  ASSUME CallTable, NEW r \in Requests, request[r] # Idle
  PROVE  request[r] \in RequestRecords /\ request[r].step \in Steps
BY DEF CallTable, RequestRecords, Steps, Over

LEMMA StepType ==
  ASSUME CallTable, NEW r \in Requests, request[r].step \in Steps
  PROVE  request[r] # Idle /\ request[r] \in RequestRecords
<1>1. Idle.step \notin Steps
  BY DEF Idle, Steps, Over
<1> QED
  BY <1>1, MadeType

\* r runs a statement: it has signed this by then and goes there; the others stay, and so
\* does who called r and with what.
RunsTo(r, issued, step) ==
  /\ request[r] # Idle /\ request[r] \in RequestRecords /\ ~ Ended(r)
  /\ request'[r] # Idle
  /\ request'[r].call = request[r].call /\ request'[r].token = request[r].token
  /\ request'[r].before = request[r].before
  /\ request'[r].issued = issued /\ request'[r].step = step
  /\ \A s \in Requests : s # r => request'[s] = request[s]
  /\ CallTable'

LEMMA GotoRuns ==
  ASSUME CallTable, NEW r \in Requests, request[r].step \in Steps \ Over,
         NEW step \in Steps, Goto(r, step)
  PROVE  RunsTo(r, request[r].issued, step)
<1>1. request[r] # Idle /\ request[r] \in RequestRecords /\ ~ Ended(r)
  BY StepType DEF Ended
<1>2. request'[r] = [request[r] EXCEPT !.step = step]
  BY DEF Goto, CallTable
<1>3. request'[r] \in RequestRecords
  BY <1>1, <1>2 DEF RequestRecords, Steps, Over
<1>4. /\ request'[r].call = request[r].call /\ request'[r].token = request[r].token
      /\ request'[r].before = request[r].before
      /\ request'[r].issued = request[r].issued /\ request'[r].step = step
  BY <1>1, <1>2 DEF RequestRecords
<1>5. request'[r] # Idle
  BY <1>4 DEF Idle, Steps, Over
<1>6. \A s \in Requests : s # r => request'[s] = request[s]
  BY DEF Goto, CallTable
<1>7. request' \in [Requests -> RequestRecords \cup {Idle}]
  BY <1>2, <1>3, <1>6 DEF Goto, CallTable
<1> QED
  BY <1>1, <1>4, <1>5, <1>6, <1>7 DEF RunsTo, CallTable

LEMMA SignRuns ==
  ASSUME CallTable, now \in Tokens, NEW r \in Requests, Sign(r)
  PROVE  RunsTo(r, now, "store")
<1>1. request[r] # Idle /\ request[r] \in RequestRecords /\ ~ Ended(r)
  BY StepType DEF Sign, Ended, Steps, Over
<1>2. request' = [request EXCEPT ![r] = [request[r] EXCEPT !.issued = now, !.step = "store"]]
  BY DEF Sign
<1>3. request'[r] = [request[r] EXCEPT !.issued = now, !.step = "store"]
  BY <1>2 DEF CallTable
<1>4. request'[r] \in RequestRecords
  BY <1>1, <1>3 DEF RequestRecords
<1>5. /\ request'[r].call = request[r].call /\ request'[r].token = request[r].token
      /\ request'[r].before = request[r].before
      /\ request'[r].issued = now /\ request'[r].step = "store"
  BY <1>1, <1>3 DEF RequestRecords
<1>6. request'[r] # Idle
  BY <1>5 DEF Idle
<1>7. \E record : request' = [request EXCEPT ![r] = record]
  BY <1>2
<1>8. /\ \A s \in Requests : s # r => request'[s] = request[s]
      /\ request' \in [Requests -> RequestRecords \cup {Idle}]
  BY <1>4, <1>7 DEF CallTable
<1> QED
  BY <1>1, <1>5, <1>6, <1>8 DEF RunsTo, CallTable

\* A call that comes.
LEMMA ReceiveRuns ==
  ASSUME CallTable, NEW r \in Requests, Receive(r)
  PROVE  /\ request[r] = Idle /\ request'[r] # Idle /\ request'[r].issued = None
         /\ request'[r].step = FirstStep(request'[r].call)
         /\ request'[r].call \in {"login", "refresh", "logout"}
         /\ request'[r].call = "refresh" => request'[r].token \in Tokens
         /\ request'[r].before = {s \in Requests : Ended(s)}
         /\ \A s \in Requests : s # r => request'[s] = request[s]
         /\ CallTable' /\ UNCHANGED <<now, active, refreshTokenHash>>
<1>1. PICK call \in {"login", "refresh", "logout"}, token \in Issued \cup {None} :
        /\ request[r] = Idle
        /\ (call = "refresh") = (token # None)
        /\ request' = [request EXCEPT ![r] = Open(call, token)]
        /\ UNCHANGED <<now, active, refreshTokenHash>>
  BY DEF Receive
<1>2. request'[r] = Open(call, token)
  BY <1>1 DEF CallTable
<1>3. token \in Tokens \cup {None}
  BY TokenFacts DEF Issued
<1>4. FirstStep(call) \in {"read", "verify", "authorize"}
  BY DEF FirstStep
<1>5. request'[r] \in RequestRecords
  BY <1>2, <1>3, <1>4 DEF Open, RequestRecords, Over
<1>6. /\ request'[r].call = call /\ request'[r].token = token /\ request'[r].issued = None
      /\ request'[r].step = FirstStep(call) /\ request'[r].before = {s \in Requests : Ended(s)}
  BY <1>2 DEF Open
<1>7. request'[r] # Idle
  BY <1>4, <1>6 DEF Idle
<1>8. /\ \A s \in Requests : s # r => request'[s] = request[s]
      /\ request' \in [Requests -> RequestRecords \cup {Idle}]
  BY <1>1, <1>2, <1>5 DEF CallTable
<1> QED
  BY <1>1, <1>3, <1>6, <1>7, <1>8 DEF CallTable

-----------------------------------------------------------------------------
(* What a step does.                                                       *)

\* Statements that leave the column as it is: where they lead, and what it takes.
Reads(r) ==
  /\ UNCHANGED <<now, refreshTokenHash>>
  /\ \/ /\ request[r].call = "login" /\ request[r].step = "read"
        /\ RunsTo(r, request[r].issued, "sign") \/ RunsTo(r, request[r].issued, "refused")
     \/ /\ request[r].call = "refresh" /\ request[r].step = "verify"
        /\ \/ RunsTo(r, request[r].issued, "read")
           \/ RunsTo(r, request[r].issued, "refused") /\ Expired(request[r].token)
     \/ /\ request[r].call = "refresh" /\ request[r].step = "read"
        /\ \/ RunsTo(r, request[r].issued, "sign") /\ refreshTokenHash = request[r].token
           \/ RunsTo(r, request[r].issued, "refused") /\ refreshTokenHash # request[r].token
     \/ /\ request[r].step = "sign" /\ RunsTo(r, now, "store")
     \/ /\ request[r].call = "logout" /\ request[r].step = "authorize"
        /\ RunsTo(r, request[r].issued, "clear") \/ RunsTo(r, request[r].issued, "refused")
     \/ RunsTo(r, request[r].issued, "died")

Stores(r) ==
  /\ request[r].step = "store" /\ RunsTo(r, request[r].issued, "done")
  /\ refreshTokenHash' = request[r].issued /\ now' = now

Clears(r) ==
  /\ request[r].call = "logout" /\ request[r].step = "clear"
  /\ RunsTo(r, request[r].issued, "done")
  /\ refreshTokenHash' = None /\ now' = now

LEMMA HandleMoves ==
  ASSUME CallTable, now \in Tokens, NEW r \in Requests, Handle(r) \/ Die(r)
  PROVE  Reads(r) \/ Stores(r) \/ Clears(r)
<1> USE DEF Steps, Over
<1>1. CASE ReadForLogin(r)
  BY <1>1, GotoRuns DEF ReadForLogin, At, Reads
<1>2. CASE Verify(r)
  BY <1>2, GotoRuns DEF Verify, At, Reads
<1>3. CASE ReadForRefresh(r)
  BY <1>3, GotoRuns DEF ReadForRefresh, Matches, At, Reads
<1>4. CASE Sign(r)
  <2>1. request[r].step = "sign" /\ UNCHANGED <<now, refreshTokenHash>>
    BY <1>4 DEF Sign
  <2> QED
    BY <1>4, <2>1, SignRuns DEF Reads
<1>5. CASE Store(r)
  BY <1>5, GotoRuns DEF Store, Stored, Stores
<1>6. CASE Authorize(r)
  BY <1>6, GotoRuns DEF Authorize, At, Reads
<1>7. CASE Clear(r)
  BY <1>7, GotoRuns DEF Clear, At, Clears
<1>8. CASE Die(r)
  <2>1. request[r].step \in Steps \ Over
    BY <1>8, MadeType DEF Die, Ended
  <2> QED
    BY <1>8, <2>1, GotoRuns DEF Die, Reads
<1> QED
  BY <1>1, <1>2, <1>3, <1>4, <1>5, <1>6, <1>7, <1>8 DEF Handle

\* Who may step.
LEMMA NextSplit ==
  ASSUME CallTable, now \in Tokens, [Next]_vars
  PROVE  \/ \E r \in Requests : Receive(r)
         \/ \E r \in Requests : Reads(r) \/ Stores(r) \/ Clears(r)
         \/ /\ UNCHANGED <<refreshTokenHash, request>>
            /\ now' = now \/ (now < LastSecond /\ now' = now + 1)
BY HandleMoves DEF Next, vars, Tick, SetStatus

-----------------------------------------------------------------------------
(* Calls and types.                                                        *)

\* What r's step says of its call; a refresh presents a token, an issuer has signed one.
CallSteps(r) ==
  /\ request[r].call = "login"   => request[r].step \in {"read", "sign", "store"} \cup Over
  /\ request[r].call = "refresh" => /\ request[r].step \in {"verify", "read", "sign", "store"} \cup Over
                                    /\ request[r].token \in Tokens
  /\ request[r].call = "logout"  => /\ request[r].step \in {"authorize", "clear"} \cup Over
                                    /\ request[r].issued = None
  /\ (request[r].call # "logout" /\ request[r].step \in {"store", "done"}) => request[r].issued \in Tokens
  /\ request[r].issued # None => request[r].issued <= now

\* Where a call stands, and that what had ended when it came has ended.
CallInv ==
  \A r \in Requests : request[r] # Idle =>
    CallSteps(r) /\ \A s \in request[r].before : request[s] # Idle /\ Ended(s)

\* What a call was made with stays, and a call that has ended is never taken up again.
LEMMA MadeStays ==
  ASSUME CallTable, now \in Tokens, [Next]_vars, NEW r \in Requests, request[r] # Idle
  PROVE  /\ request'[r] # Idle
         /\ request'[r].call = request[r].call /\ request'[r].token = request[r].token
         /\ request'[r].before = request[r].before
         /\ Ended(r) => request'[r] = request[r] /\ Ended(r)'
<1>1. ASSUME NEW q \in Requests, Receive(q) PROVE request'[r] = request[r]
  BY <1>1, ReceiveRuns
<1>2. ASSUME NEW q \in Requests, Reads(q) \/ Stores(q) \/ Clears(q)
      PROVE  /\ request'[r] # Idle
             /\ request'[r].call = request[r].call /\ request'[r].token = request[r].token
             /\ request'[r].before = request[r].before
             /\ Ended(r) => request'[r] = request[r] /\ Ended(r)'
  <2>1. PICK issued, step : RunsTo(q, issued, step)
    BY <1>2 DEF Reads, Stores, Clears
  <2> QED
    BY <2>1 DEF RunsTo, Ended
<1> QED
  BY <1>1, <1>2, NextSplit DEF Ended

LEMMA CallStep ==
  ASSUME TypeOK, CallInv, [Next]_vars
  PROVE  CallInv'
<1> USE DEF TypeOK, CallTable
<1> SUFFICES ASSUME NEW r \in Requests, request'[r] # Idle
             PROVE  CallSteps(r)' /\ \A s \in request'[r].before : request'[s] # Idle /\ Ended(s)'
  BY DEF CallInv
<1>1. ASSUME NEW s \in Requests, request[s] # Idle, Ended(s)
      PROVE  request'[s] # Idle /\ Ended(s)'
  BY <1>1, MadeStays
<1>2. now \in Nat /\ now' \in Nat /\ now <= now'
  <2>1. CASE now' = now
    BY <2>1, TokenFacts
  <2>2. CASE now' = now + 1
    BY <2>2, TokenFacts
  <2> QED
    BY <2>1, <2>2, NextSplit, ReceiveRuns DEF Reads, Stores, Clears
<1>3. CASE request[r] = Idle
  <2>1. Receive(r)
    <3>1. ASSUME NEW q \in Requests, Receive(q), q # r PROVE FALSE
      BY <1>3, <3>1, ReceiveRuns
    <3>2. ASSUME NEW q \in Requests, Reads(q) \/ Stores(q) \/ Clears(q) PROVE FALSE
      <4>1. PICK issued, step : RunsTo(q, issued, step)
        BY <3>2 DEF Reads, Stores, Clears
      <4> QED
        BY <1>3, <4>1 DEF RunsTo
    <3> QED
      BY <1>3, <3>1, <3>2, NextSplit
  <2>2. \A s \in Requests : Ended(s) => request[s] # Idle
    BY StepType DEF Ended, Steps, Over
  <2>3. CallSteps(r)'
    BY <2>1, ReceiveRuns, TokenFacts DEF CallSteps, FirstStep
  <2>4. request'[r].before = {s \in Requests : Ended(s)}
    BY <2>1, ReceiveRuns
  <2> QED
    BY <1>1, <2>2, <2>3, <2>4
<1>4. CASE request[r] # Idle
  <2>1. request[r] \in RequestRecords /\ request'[r].before = request[r].before
    BY <1>4, MadeType, MadeStays
  <2>2. \A s \in request'[r].before : request'[s] # Idle /\ Ended(s)'
    BY <1>1, <1>4, <2>1 DEF CallInv, RequestRecords
  <2>3. CallSteps(r) /\ (request[r].issued # None => request[r].issued <= now')
    <3>1. request[r].issued \in Nat
      BY <2>1, TokenFacts DEF RequestRecords
    <3> QED
      BY <1>2, <1>4, <3>1 DEF CallInv, CallSteps
  <2>4. ASSUME request'[r] = request[r] PROVE CallSteps(r)'
    BY <2>3, <2>4 DEF CallSteps
  <2>5. ASSUME NEW q \in Requests, Reads(q) \/ Stores(q) \/ Clears(q) PROVE CallSteps(r)'
    <3>1. CASE q # r
      <4>1. PICK issued, step : RunsTo(q, issued, step)
        BY <2>5 DEF Reads, Stores, Clears
      <4> QED
        BY <2>4, <3>1, <4>1 DEF RunsTo
    <3>2. CASE q = r /\ Reads(r)
      BY <1>2, <2>1, <2>3, <3>2, TokenFacts DEF Reads, RunsTo, CallSteps, Over, RequestRecords
    <3>3. CASE q = r /\ (Stores(r) \/ Clears(r))
      BY <1>2, <2>1, <2>3, <3>3 DEF Stores, Clears, RunsTo, CallSteps, Over, RequestRecords
    <3> QED
      BY <2>5, <3>1, <3>2, <3>3
  <2>6. ASSUME NEW q \in Requests, Receive(q) PROVE CallSteps(r)'
    BY <1>4, <2>4, <2>6, ReceiveRuns
  <2> QED
    BY <2>2, <2>4, <2>5, <2>6, NextSplit
<1> QED
  BY <1>3, <1>4

LEMMA TypeStep ==
  ASSUME TypeOK, CallInv, [Next]_vars
  PROVE  TypeOK'
<1> USE DEF TypeOK, CallTable
<1>1. now' \in Tokens
  <2>1. CASE now' = now
    BY <2>1
  <2>2. CASE now < LastSecond /\ now' = now + 1
    BY <2>2, TokenFacts DEF Tokens
  <2> QED
    BY <2>1, <2>2, NextSplit, ReceiveRuns DEF Reads, Stores, Clears
<1>2. active' \in BOOLEAN
  BY DEF Next, vars, Tick, SetStatus, Receive, Handle, Die, ReadForLogin, Verify, ReadForRefresh,
         Sign, Store, Authorize, Clear
<1>3. request' \in [Requests -> RequestRecords \cup {Idle}]
  <2>1. ASSUME NEW r \in Requests, Reads(r) \/ Stores(r) \/ Clears(r) PROVE CallTable'
    <3>1. PICK issued, step : RunsTo(r, issued, step)
      BY <2>1 DEF Reads, Stores, Clears
    <3> QED
      BY <3>1 DEF RunsTo
  <2> QED
    BY <2>1, NextSplit, ReceiveRuns
<1>4. refreshTokenHash' \in Tokens \cup {None}
  <2>1. ASSUME NEW r \in Requests, Stores(r) PROVE request[r].issued \in Tokens \cup {None}
    BY <2>1 DEF Stores, RunsTo, RequestRecords
  <2> QED
    BY <2>1, NextSplit, ReceiveRuns DEF Reads, Stores, Clears
<1>5. \A r \in Requests : request'[r] # Idle =>
        (request'[r].issued # None => request'[r].call # "logout" /\ request'[r].issued <= now')
  BY CallStep DEF CallInv, CallSteps
<1> QED
  BY <1>1, <1>2, <1>3, <1>4, <1>5

LEMMA TypeInit == Init => TypeOK /\ CallInv
BY TokenFacts DEF Init, TypeOK, CallInv

\* The clock, the status, the column and the calls are of their types; no call holds a token
\* of a second that has not come, and a logout none.
THEOREM SessionsTypeCorrect == Spec => []TypeOK
<1>1. (TypeOK /\ CallInv) /\ [Next]_vars => (TypeOK /\ CallInv)'
  BY TypeStep, CallStep
<1> QED
  BY <1>1, TypeInit, PTL DEF Spec

-----------------------------------------------------------------------------
(* The column, and who has written it.                                     *)

\* A refresh whose token the row was found to hold.
Accepted(r) == Made(r, "refresh") /\ request[r].step \in {"sign", "store", "done"}

\* s has brought the session back that l ended: a login, or a refresh that overlapped l.
Revives(s, l) ==
  /\ s \in Issuers /\ s \notin request[l].before
  /\ request[s].call = "login" \/ l \notin request[s].before

\* A logout leaves no token, until one is stored by a call that revives the session; a refresh
\* that came after the logout is accepted only then.
ChainInv ==
  /\ \A l \in Requests : (Succeeded(l, "logout") /\ refreshTokenHash # None) =>
       \E s \in Requests : Revives(s, l)
  /\ \A r, l \in Requests : (Accepted(r) /\ Succeeded(l, "logout") /\ l \in request[r].before) =>
       \E s \in Requests \ {r} : Revives(s, l)

\* q has signed the token r had presented, and not before r came.
Reissues(q, r) == q \in Issuers /\ q \notin request[r].before /\ request[q].issued = request[r].token

\* A token that was exchanged is in the row, or was when a refresh found it there, only if it
\* was issued again.
ExchangeInv ==
  /\ \A r \in Requests : (Succeeded(r, "refresh") /\ refreshTokenHash = request[r].token) =>
       \E q \in Requests : Reissues(q, r)
  /\ \A r, s \in Requests :
       (/\ Succeeded(r, "refresh") /\ Accepted(s)
        /\ request[r].token = request[s].token /\ r \in request[s].before) =>
       \E q \in Requests : Reissues(q, r)

\* s has written the column, and not before q came.
Replaces(s, q) == (Succeeded(s, "logout") \/ s \in Issuers) /\ s # q /\ s \notin request[q].before

\* The row holds the token of an issuer until another call replaces it, and nobody else is
\* refused with it in time.
ReplacedInv ==
  /\ \A q \in Issuers : refreshTokenHash # request[q].issued => \E s \in Requests : Replaces(s, q)
  /\ \A r \in Requests, q \in Issuers :
       (/\ Made(r, "refresh") /\ request[r].step = "refused"
        /\ q \in request[r].before /\ request[r].token = request[q].issued) =>
       Expired(request[r].token) \/ \E s \in Requests : Replaces(s, q)

Typed == TypeOK /\ CallInv

\* A call that has not ended is before no other.
LEMMA NotBefore ==
  ASSUME CallInv, NEW r \in Requests, NEW s \in Requests, request[r] # Idle, ~ Ended(s)
  PROVE  s \notin request[r].before
BY DEF CallInv

\* What has succeeded stays so, with what it has signed.
LEMMA DoneStays ==
  ASSUME Typed, [Next]_vars, NEW r \in Requests, request[r] # Idle, Ended(r)
  PROVE  /\ request'[r] = request[r]
         /\ \A call : Succeeded(r, call) => Succeeded(r, call)'
         /\ r \in Issuers => r \in Issuers'
<1>1. request'[r] = request[r]
  BY MadeStays DEF Typed, TypeOK, CallTable
<1> QED
  BY <1>1 DEF Succeeded, Made, Issuers

LEMMA IssuersFacts ==
  ASSUME NEW r \in Requests
  PROVE  /\ r \in Issuers <=> /\ request[r] # Idle /\ request[r].step = "done"
                              /\ request[r].call \in {"login", "refresh"}
         /\ r \in Issuers => Ended(r)
BY DEF Issuers, Succeeded, Made, Ended, Over

\* Who comes to have succeeded has just written the column.
LEMMA DoneReached ==
  ASSUME Typed, [Next]_vars, NEW r \in Requests, request'[r] # Idle, request'[r].step = "done",
         request[r] = Idle \/ request[r].step # "done"
  PROVE  /\ Stores(r) \/ Clears(r)
         /\ \A s \in Requests : s # r => request'[s] = request[s]
         /\ request[r] # Idle /\ ~ Ended(r)
<1>0. CallTable /\ now \in Tokens
  BY DEF Typed, TypeOK, CallTable
<1>1. ASSUME NEW q \in Requests, Receive(q) PROVE FALSE
  BY <1>0, <1>1, ReceiveRuns DEF FirstStep
<1>2. ASSUME NEW q \in Requests, Reads(q) PROVE FALSE
  <2>1. CASE q = r
    BY <1>2, <2>1 DEF Reads, RunsTo
  <2>2. CASE q # r
    <3>1. PICK issued, step : RunsTo(q, issued, step)
      BY <1>2 DEF Reads
    <3> QED
      BY <2>2, <3>1 DEF RunsTo
  <2> QED
    BY <2>1, <2>2
<1>3. ASSUME NEW q \in Requests, Stores(q) \/ Clears(q), q # r PROVE FALSE
  BY <1>3 DEF Stores, Clears, RunsTo
<1>4. Stores(r) \/ Clears(r)
  BY <1>0, <1>1, <1>2, <1>3, NextSplit
<1> QED
  BY <1>4 DEF Stores, Clears, RunsTo

\* Of the two ways to write it, a logout clears and the others store what they have signed.
LEMMA WriterFacts ==
  ASSUME Typed, NEW r \in Requests, Stores(r) \/ Clears(r)
  PROVE  /\ request'[r] # Idle /\ request'[r].step = "done" /\ request'[r].call = request[r].call
         /\ request'[r].before = request[r].before /\ request'[r].token = request[r].token
         /\ request'[r].issued = request[r].issued
         /\ request[r] # Idle /\ ~ Ended(r)
         /\ Stores(r) => /\ r \in Issuers' /\ refreshTokenHash' = request[r].issued
                         /\ request[r].issued \in Tokens
         /\ Clears(r) => Succeeded(r, "logout")' /\ refreshTokenHash' = None
<1>1. /\ request'[r] # Idle /\ request'[r].step = "done" /\ request'[r].call = request[r].call
      /\ request'[r].before = request[r].before /\ request'[r].token = request[r].token
      /\ request'[r].issued = request[r].issued
      /\ request[r] # Idle /\ ~ Ended(r) /\ request[r] \in RequestRecords
  BY DEF Stores, Clears, RunsTo
<1>2. ASSUME Stores(r)
      PROVE  r \in Issuers' /\ refreshTokenHash' = request[r].issued /\ request[r].issued \in Tokens
  <2>1. request[r].step = "store"
    BY <1>2 DEF Stores
  <2>2. request[r].call \in {"login", "refresh"} /\ request[r].issued \in Tokens
    BY <1>1, <2>1 DEF Typed, CallInv, CallSteps, RequestRecords, Over
  <2> QED
    BY <1>1, <1>2, <2>2 DEF Stores, Issuers, Succeeded, Made
<1>3. ASSUME Clears(r)
      PROVE  Succeeded(r, "logout")' /\ refreshTokenHash' = None
  BY <1>1, <1>3 DEF Clears, Succeeded, Made
<1> QED
  BY <1>1, <1>2, <1>3

\* The column changes by nothing else.
LEMMA ColumnChange ==
  ASSUME Typed, [Next]_vars
  PROVE  \/ refreshTokenHash' = refreshTokenHash
         \/ \E r \in Requests : Stores(r) \/ Clears(r)
BY NextSplit, ReceiveRuns DEF Typed, TypeOK, CallTable, Reads

\* A refresh that comes to be accepted has found its token in the row.
LEMMA AcceptedReached ==
  ASSUME Typed, [Next]_vars, NEW r \in Requests, Accepted(r)', ~ Accepted(r)
  PROVE  /\ Made(r, "refresh") /\ ~ Ended(r) /\ request'[r].before = request[r].before
         /\ request'[r].token = request[r].token /\ request[r].token \in Tokens
         /\ refreshTokenHash = request[r].token
         /\ \A s \in Requests : s # r => request'[s] = request[s]
<1>0. CallTable /\ now \in Tokens
  BY DEF Typed, TypeOK, CallTable
<1>1. request'[r] # Idle /\ request'[r].call = "refresh" /\ request'[r].step \in {"sign", "store", "done"}
      /\ request'[r] # request[r]
  BY DEF Accepted, Made
<1>2. ASSUME NEW q \in Requests, Receive(q) PROVE FALSE
  BY <1>0, <1>1, <1>2, ReceiveRuns DEF FirstStep
<1>3. PICK q \in Requests : Reads(q) \/ Stores(q) \/ Clears(q)
  BY <1>0, <1>1, <1>2, NextSplit
<1>4. q = r
  BY <1>1, <1>3 DEF Reads, Stores, Clears, RunsTo
<1>5. request[r] # Idle /\ request[r].call = "refresh" /\ request[r].step \notin {"sign", "store", "done"}
  <2>1. request[r] # Idle /\ request[r].call = "refresh"
    BY <1>1, <1>3, <1>4 DEF Reads, Stores, Clears, RunsTo
  <2> QED
    BY <2>1 DEF Accepted, Made
<1>6. Reads(r) /\ request[r].step = "read"
  BY <1>1, <1>3, <1>4, <1>5 DEF Reads, Stores, Clears, RunsTo
<1>7. refreshTokenHash = request[r].token /\ RunsTo(r, request[r].issued, "sign")
  BY <1>1, <1>5, <1>6 DEF Reads, RunsTo
<1>8. request[r].token \in Tokens
  BY <1>5 DEF Typed, CallInv, CallSteps
<1> QED
  BY <1>5, <1>7, <1>8 DEF RunsTo, Made

\* A refresh that is refused presented a token too old, or not the one in the row.
LEMMA RefusedReached ==
  ASSUME Typed, [Next]_vars, NEW r \in Requests, Made(r, "refresh")', request'[r].step = "refused",
         ~ (Made(r, "refresh") /\ request[r].step = "refused")
  PROVE  /\ Made(r, "refresh") /\ request'[r].before = request[r].before
         /\ request'[r].token = request[r].token
         /\ Expired(request[r].token) \/ refreshTokenHash # request[r].token
<1>0. CallTable /\ now \in Tokens
  BY DEF Typed, TypeOK, CallTable
<1>1. request'[r] # request[r] /\ request'[r].call = "refresh"
  BY DEF Made
<1>2. ASSUME NEW q \in Requests, Receive(q) PROVE FALSE
  BY <1>0, <1>1, <1>2, ReceiveRuns DEF FirstStep
<1>3. PICK q \in Requests : Reads(q) \/ Stores(q) \/ Clears(q)
  BY <1>0, <1>1, <1>2, NextSplit
<1>4. q = r
  BY <1>1, <1>3 DEF Reads, Stores, Clears, RunsTo
<1>5. Reads(r)
  BY <1>3, <1>4 DEF Stores, Clears, RunsTo
<1>6. request[r] # Idle /\ request[r].call = "refresh"
  BY <1>1, <1>5 DEF Reads, RunsTo
<1>7. request[r].step \in {"verify", "read", "sign", "store"}
  BY <1>5, <1>6 DEF Typed, CallInv, CallSteps, Reads, RunsTo, Ended
<1>8. Expired(request[r].token) \/ refreshTokenHash # request[r].token
  BY <1>5, <1>6, <1>7 DEF Reads, RunsTo
<1> QED
  BY <1>5, <1>6, <1>8 DEF Reads, RunsTo, Made

\* What had ended before a call that was made does not change.
LEMMA BeforeStays ==
  ASSUME Typed, [Next]_vars, NEW r \in Requests, request[r] # Idle, NEW l \in request'[r].before
  PROVE  /\ l \in Requests /\ l \in request[r].before
         /\ request[l] # Idle /\ Ended(l) /\ request'[l] = request[l]
<1>1. l \in request[r].before /\ l \in Requests
  BY MadeStays, MadeType DEF Typed, TypeOK, CallTable, RequestRecords
<1>2. request[l] # Idle /\ Ended(l)
  BY <1>1 DEF Typed, CallInv
<1> QED
  BY <1>1, <1>2, DoneStays

LEMMA ExpiredStays ==
  ASSUME Typed, [Next]_vars, NEW token \in Tokens, Expired(token)
  PROVE  Expired(token)'
<1>1. now \in Nat /\ token \in Nat /\ EXPIRES_IN \in Nat
  BY TokenFacts, BoundsAssumption DEF Typed, TypeOK
<1>2. now' = now \/ now' = now + 1
  BY NextSplit, ReceiveRuns DEF Typed, TypeOK, CallTable, Reads, Stores, Clears
<1> QED
  BY <1>1, <1>2 DEF Expired

LEMMA ChainStep ==
  ASSUME Typed, ChainInv, [Next]_vars
  PROVE  ChainInv'
<1>1. ASSUME NEW s \in Requests, NEW l \in Requests, request[l] # Idle, Revives(s, l)
      PROVE  Revives(s, l)'
  <2>1. s \in Issuers /\ request[s] # Idle /\ Ended(s)
    BY <1>1, IssuersFacts DEF Revives
  <2>2. request'[s] = request[s] /\ s \in Issuers'
    BY <2>1, DoneStays
  <2>3. request'[l].before = request[l].before
    BY <1>1, MadeStays DEF Typed, TypeOK, CallTable
  <2> QED
    BY <1>1, <2>2, <2>3 DEF Revives
<1>2. ASSUME NEW l \in Requests, Succeeded(l, "logout")', refreshTokenHash' # None
      PROVE  \E s \in Requests : Revives(s, l)'
  <2>1. request'[l] # Idle /\ request'[l].step = "done" /\ request'[l].call = "logout"
    BY <1>2 DEF Succeeded, Made
  <2>2. request[l] # Idle /\ request[l].step = "done"
    <3>1. SUFFICES ASSUME request[l] = Idle \/ request[l].step # "done" PROVE FALSE
      OBVIOUS
    <3>2. Stores(l) \/ Clears(l)
      BY <2>1, <3>1, DoneReached
    <3>3. l \notin Issuers'
      BY <2>1 DEF Issuers, Succeeded, Made
    <3> QED
      BY <1>2, <3>2, <3>3, WriterFacts
  <2>3. Ended(l) /\ Succeeded(l, "logout")
    <3>1. request'[l].call = request[l].call
      BY <2>2, MadeStays DEF Typed, TypeOK, CallTable
    <3> QED
      BY <2>1, <2>2, <3>1 DEF Ended, Over, Succeeded, Made
  <2>4. CASE refreshTokenHash' = refreshTokenHash
    BY <1>1, <1>2, <2>2, <2>3, <2>4 DEF ChainInv
  <2>5. ASSUME NEW r \in Requests, Stores(r) \/ Clears(r)
        PROVE  \E s \in Requests : Revives(s, l)'
    <3>1. /\ r \in Issuers' /\ request[r] # Idle /\ ~ Ended(r)
          /\ request'[r].before = request[r].before /\ request'[r].call = request[r].call
          /\ request[r].step = "store"
      BY <1>2, <2>5, WriterFacts DEF Stores
    <3>2. request'[l] = request[l] /\ r \notin request'[l].before
      BY <2>2, <2>3, <3>1, NotBefore, DoneStays DEF Typed
    <3>3. CASE request[r].call = "login" \/ l \notin request[r].before
      BY <3>1, <3>2, <3>3 DEF Revives
    <3>4. CASE request[r].call # "login" /\ l \in request[r].before
      <4>1. Accepted(r)
        <5>1. request[r].call \in {"login", "refresh", "logout"}
          BY <3>1, MadeType DEF Typed, TypeOK, CallTable, RequestRecords
        <5>2. request[r].call # "logout"
          BY <3>1 DEF Typed, CallInv, CallSteps, Over
        <5> QED
          BY <3>1, <3>4, <5>1, <5>2 DEF Accepted, Made
      <4>2. PICK s \in Requests : Revives(s, l)
        BY <2>3, <3>4, <4>1 DEF ChainInv
      <4> QED
        BY <1>1, <2>2, <4>2
    <3> QED
      BY <3>3, <3>4
  <2> QED
    BY <2>4, <2>5, ColumnChange
<1>3. ASSUME NEW r \in Requests, NEW l \in Requests, Accepted(r)', Succeeded(l, "logout")',
             l \in request'[r].before
      PROVE  \E s \in Requests \ {r} : Revives(s, l)'
  <2>1. request[r] # Idle
    BY <1>3, AcceptedReached DEF Accepted, Made
  <2>2. l \in request[r].before /\ request[l] # Idle /\ request'[l] = request[l]
    BY <1>3, <2>1, BeforeStays
  <2>3. Succeeded(l, "logout")
    BY <1>3, <2>2 DEF Succeeded, Made
  <2>4. CASE Accepted(r)
    BY <1>1, <2>2, <2>3, <2>4 DEF ChainInv
  <2>5. CASE ~ Accepted(r)
    <3>1. ~ Ended(r) /\ refreshTokenHash # None
      BY <1>3, <2>5, AcceptedReached, TokenFacts
    <3>2. PICK s \in Requests : Revives(s, l)
      BY <2>3, <3>1 DEF ChainInv
    <3>3. s # r
      BY <3>1, <3>2, IssuersFacts DEF Revives
    <3> QED
      BY <1>1, <2>2, <3>2, <3>3
  <2> QED
    BY <2>4, <2>5
<1> QED
  BY <1>2, <1>3 DEF ChainInv

LEMMA ExchangeStep ==
  ASSUME Typed, ExchangeInv, [Next]_vars
  PROVE  ExchangeInv'
<1>1. ASSUME NEW q \in Requests, NEW r \in Requests, request[r] # Idle, Reissues(q, r)
      PROVE  Reissues(q, r)'
  <2>1. q \in Issuers /\ request[q] # Idle /\ Ended(q)
    BY <1>1, IssuersFacts DEF Reissues
  <2>2. request'[q] = request[q] /\ q \in Issuers'
    BY <2>1, DoneStays
  <2>3. request'[r].before = request[r].before /\ request'[r].token = request[r].token
    BY <1>1, MadeStays DEF Typed, TypeOK, CallTable
  <2> QED
    BY <1>1, <2>2, <2>3 DEF Reissues
<1>2. ASSUME NEW r \in Requests, Succeeded(r, "refresh")', refreshTokenHash' = request'[r].token
      PROVE  \E q \in Requests : Reissues(q, r)'
  <2>1. request'[r] # Idle /\ request'[r].step = "done" /\ request'[r].call = "refresh"
    BY <1>2 DEF Succeeded, Made
  <2>2. CASE request[r] = Idle \/ request[r].step # "done"
    <3>1. Stores(r) \/ Clears(r)
      BY <2>1, <2>2, DoneReached
    <3>2. ~ Clears(r)
      BY <2>1, WriterFacts DEF Succeeded, Made
    <3>3. /\ r \in Issuers' /\ refreshTokenHash' = request'[r].issued
          /\ request'[r].before = request[r].before /\ request[r] # Idle /\ ~ Ended(r)
      BY <3>1, <3>2, WriterFacts
    <3>4. r \notin request'[r].before
      BY <3>3, NotBefore DEF Typed
    <3> QED
      BY <1>2, <3>3, <3>4 DEF Reissues
  <2>3. CASE request[r] # Idle /\ request[r].step = "done"
    <3>1. Ended(r) /\ request'[r] = request[r]
      BY <2>3, DoneStays DEF Ended, Over
    <3>2. Succeeded(r, "refresh") /\ request[r].token \in Tokens
      BY <2>1, <3>1 DEF Succeeded, Made, Typed, CallInv, CallSteps
    <3>3. CASE refreshTokenHash' = refreshTokenHash
      BY <1>1, <1>2, <2>3, <3>1, <3>2, <3>3 DEF ExchangeInv
    <3>4. ASSUME NEW s \in Requests, Stores(s) \/ Clears(s)
          PROVE  Reissues(s, r)'
      <4>1. refreshTokenHash' # None
        BY <1>2, <3>1, <3>2, TokenFacts
      <4>2. /\ s \in Issuers' /\ refreshTokenHash' = request'[s].issued
            /\ request[s] # Idle /\ ~ Ended(s)
        BY <3>4, <4>1, WriterFacts
      <4>3. s \notin request'[r].before
        BY <2>3, <3>1, <4>2, NotBefore DEF Typed
      <4> QED
        BY <1>2, <4>2, <4>3 DEF Reissues
    <3> QED
      BY <3>3, <3>4, ColumnChange
  <2> QED
    BY <2>2, <2>3
<1>3. ASSUME NEW r \in Requests, NEW s \in Requests, Succeeded(r, "refresh")', Accepted(s)',
             request'[r].token = request'[s].token, r \in request'[s].before
      PROVE  \E q \in Requests : Reissues(q, r)'
  <2>1. request[s] # Idle
    BY <1>3, AcceptedReached DEF Accepted, Made
  <2>2. r \in request[s].before /\ request[r] # Idle /\ request'[r] = request[r]
    BY <1>3, <2>1, BeforeStays
  <2>3. Succeeded(r, "refresh") /\ request'[s].token = request[s].token
    BY <1>3, <2>1, <2>2, MadeStays DEF Succeeded, Made, Typed, TypeOK, CallTable
  <2>4. \E q \in Requests : Reissues(q, r)
    <3>1. CASE Accepted(s)
      BY <1>3, <2>2, <2>3, <3>1 DEF ExchangeInv
    <3>2. CASE ~ Accepted(s)
      <4>1. refreshTokenHash = request[s].token
        BY <1>3, <3>2, AcceptedReached
      <4> QED
        BY <1>3, <2>2, <2>3, <4>1 DEF ExchangeInv
    <3> QED
      BY <3>1, <3>2
  <2> QED
    BY <1>1, <2>2, <2>4
<1> QED
  BY <1>2, <1>3 DEF ExchangeInv

LEMMA ReplacedStep ==
  ASSUME Typed, ReplacedInv, [Next]_vars
  PROVE  ReplacedInv'
<1>1. ASSUME NEW s \in Requests, NEW q \in Requests, request[q] # Idle, Replaces(s, q)
      PROVE  Replaces(s, q)'
  <2>1. request[s] # Idle /\ Ended(s)
    BY <1>1, IssuersFacts DEF Replaces, Succeeded, Made, Ended, Over
  <2>2. /\ Succeeded(s, "logout") => Succeeded(s, "logout")'
        /\ s \in Issuers => s \in Issuers'
    BY <2>1, DoneStays
  <2>3. request'[q].before = request[q].before
    BY <1>1, MadeStays DEF Typed, TypeOK, CallTable
  <2> QED
    BY <1>1, <2>2, <2>3 DEF Replaces
<1>2. ASSUME NEW q \in Issuers', refreshTokenHash' # request'[q].issued
      PROVE  \E s \in Requests : Replaces(s, q)'
  <2>1. /\ q \in Requests /\ request'[q] # Idle /\ request'[q].step = "done"
        /\ request'[q].call # "logout"
    BY DEF Issuers, Succeeded, Made
  <2>2. request[q] # Idle /\ request[q].step = "done"
    <3>1. SUFFICES ASSUME request[q] = Idle \/ request[q].step # "done" PROVE FALSE
      OBVIOUS
    <3>2. Stores(q) \/ Clears(q)
      BY <2>1, <3>1, DoneReached
    <3>3. ~ Succeeded(q, "logout")'
      BY <2>1 DEF Succeeded, Made
    <3> QED
      BY <1>2, <2>1, <3>2, <3>3, WriterFacts
  <2>3. Ended(q) /\ request'[q] = request[q]
    BY <2>1, <2>2, DoneStays DEF Ended, Over
  <2>4. q \in Issuers
    BY <2>1, <2>3 DEF Issuers, Succeeded, Made
  <2>5. CASE refreshTokenHash' = refreshTokenHash
    BY <1>1, <1>2, <2>1, <2>2, <2>3, <2>4, <2>5 DEF ReplacedInv
  <2>6. ASSUME NEW s \in Requests, Stores(s) \/ Clears(s)
        PROVE  Replaces(s, q)'
    <3>1. /\ Succeeded(s, "logout")' \/ s \in Issuers'
          /\ request[s] # Idle /\ ~ Ended(s)
      BY <2>6, WriterFacts
    <3>2. s # q /\ s \notin request'[q].before
      BY <2>1, <2>2, <2>3, <3>1, NotBefore DEF Typed
    <3> QED
      BY <3>1, <3>2 DEF Replaces
  <2> QED
    BY <2>5, <2>6, ColumnChange
<1>3. ASSUME NEW r \in Requests, NEW q \in Issuers', Made(r, "refresh")',
             request'[r].step = "refused", q \in request'[r].before,
             request'[r].token = request'[q].issued
      PROVE  Expired(request[r].token)' \/ \E s \in Requests : Replaces(s, q)'
  <2>1. request[r] # Idle
    BY <1>3, RefusedReached DEF Made
  <2>2. /\ q \in Requests /\ q \in request[r].before /\ request[q] # Idle
        /\ request'[q] = request[q]
    BY <1>3, <2>1, BeforeStays
  <2>3. q \in Issuers
    BY <1>3, <2>2 DEF Issuers, Succeeded, Made
  <2>4. request'[r].token = request[r].token /\ Made(r, "refresh") /\ request[r].token \in Tokens
    <3>1. request'[r].token = request[r].token /\ Made(r, "refresh")
      BY <1>3, <2>1, MadeStays DEF Made, Typed, TypeOK, CallTable
    <3> QED
      BY <3>1 DEF Made, Typed, CallInv, CallSteps
  <2>5. Expired(request[r].token) \/ \E s \in Requests : Replaces(s, q)
    <3>1. CASE request[r].step = "refused"
      BY <1>3, <2>2, <2>3, <2>4, <3>1 DEF ReplacedInv
    <3>2. CASE request[r].step # "refused"
      BY <1>3, <2>2, <2>3, <2>4, <3>2, RefusedReached DEF ReplacedInv
    <3> QED
      BY <3>1, <3>2
  <2> QED
    BY <1>1, <2>2, <2>4, <2>5, ExpiredStays
<1>4. \A r \in Requests : Made(r, "refresh")' => request'[r].token \in Tokens
  BY CallStep DEF Typed, Made, CallInv, CallSteps
<1>5. \A r \in Requests, q \in Issuers' :
        (/\ Made(r, "refresh")' /\ request'[r].step = "refused"
         /\ q \in request'[r].before /\ request'[r].token = request'[q].issued) =>
        (now' >= request'[r].token + EXPIRES_IN) \/ \E s \in Requests : Replaces(s, q)'
  <2> SUFFICES ASSUME NEW r \in Requests, NEW q \in Issuers', Made(r, "refresh")',
                      request'[r].step = "refused", q \in request'[r].before,
                      request'[r].token = request'[q].issued
               PROVE  (now' >= request'[r].token + EXPIRES_IN) \/ \E s \in Requests : Replaces(s, q)'
    OBVIOUS
  <2>1. request[r] # Idle
    BY RefusedReached DEF Made
  <2>2. request'[r].token = request[r].token
    BY <2>1, MadeStays DEF Typed, TypeOK, CallTable
  <2>3. Expired(request[r].token)' \/ \E s \in Requests : Replaces(s, q)'
    BY <1>3
  <2> QED
    BY <2>2, <2>3 DEF Expired
<1> QED
  BY <1>2, <1>5 DEF ReplacedInv, Expired

-----------------------------------------------------------------------------
(* The theorems.                                                           *)

IInv == Typed /\ ChainInv /\ ExchangeInv /\ ReplacedInv

LEMMA IInvInit == Init => IInv
<1> SUFFICES ASSUME Init PROVE IInv
  OBVIOUS
<1>1. Typed
  BY TypeInit DEF Typed
<1>2. \A r \in Requests : request[r] = Idle
  BY DEF Init
<1>3. ChainInv /\ ExchangeInv /\ ReplacedInv
  BY <1>2 DEF ChainInv, ExchangeInv, ReplacedInv, Succeeded, Made, Accepted, Issuers
<1> QED
  BY <1>1, <1>3 DEF IInv

LEMMA IInvStep == IInv /\ [Next]_vars => IInv'
BY TypeStep, CallStep, ChainStep, ExchangeStep, ReplacedStep DEF IInv, Typed

\* The inductive invariant: whose token the row holds, and on whose the refreshes rest.
THEOREM SessionsInductive == Spec => []IInv
BY IInvInit, IInvStep, PTL DEF Spec

\* A refresh that comes after a logout succeeds only if a login, or a refresh the logout
\* overlapped, has stored a token since.
THEOREM LogoutEnds == Spec => []LogoutEndsChain
<1>1. IInv => LogoutEndsChain
  <2> SUFFICES ASSUME ChainInv, NEW r \in Requests, NEW l \in Requests, Succeeded(r, "refresh"),
                      Succeeded(l, "logout"), l \in request[r].before
               PROVE  \E s \in Issuers \ {r} :
                        /\ s \notin request[l].before
                        /\ request[s].call = "login" \/ l \notin request[s].before
    BY DEF IInv, LogoutEndsChain
  <2>1. Accepted(r)
    BY DEF Accepted, Succeeded
  <2> QED
    BY <2>1 DEF ChainInv, Revives
<1> QED
  BY <1>1, SessionsInductive, PTL

\* A token is exchanged twice only if the exchanges overlapped or the same token was issued
\* again since.
THEOREM TokenExchangedOnce == Spec => []ExchangedOnce
<1>1. IInv => ExchangedOnce
  <2> SUFFICES ASSUME ExchangeInv, NEW r \in Requests, NEW s \in Requests, Succeeded(r, "refresh"),
                      Succeeded(s, "refresh"), request[r].token = request[s].token,
                      r \in request[s].before
               PROVE  \E q \in Issuers : q \notin request[r].before /\ request[q].issued = request[r].token
    BY DEF IInv, ExchangedOnce
  <2>1. Accepted(s)
    BY DEF Accepted, Succeeded
  <2> QED
    BY <2>1 DEF ExchangeInv, Reissues
<1> QED
  BY <1>1, SessionsInductive, PTL

\* Who holds the token of a call that has answered is refused only if the token has expired or
\* a call that had not answered by then has written the column.
THEOREM RefusedOnlyIfReplaced == Spec => []RefusedIfReplaced
<1>1. IInv => RefusedIfReplaced
  <2> SUFFICES ASSUME ReplacedInv, NEW r \in Requests, NEW q \in Requests, q \in Issuers,
                      Made(r, "refresh"), q \in request[r].before, request[r].step = "refused",
                      request[r].token = request[q].issued, ~ Expired(request[r].token)
               PROVE  \E s \in Requests \ {r, q} :
                        (Succeeded(s, "logout") \/ s \in Issuers) /\ s \notin request[q].before
    BY DEF IInv, RefusedIfReplaced, Made
  <2>1. PICK s \in Requests : Replaces(s, q)
    BY DEF ReplacedInv
  <2>2. s # r
    BY <2>1 DEF Replaces, Issuers, Succeeded
  <2> QED
    BY <2>1, <2>2 DEF Replaces
<1> QED
  BY <1>1, SessionsInductive, PTL
=============================================================================
