--------------------------- MODULE QuestPlayProofs ---------------------------
(***************************************************************************)
(* The steps a request of QuestPlay takes, the rows it has locked at each  *)
(* of them and what the tables hold, for any number of players, quests,    *)
(* stops and requests.                                                     *)
(*                                                                         *)
(* TypeOK comes first. StepInv tells which steps each endpoint passes, and *)
(* LockInv, on top of both, that a request owns exactly the rows its       *)
(* statements so far have locked. No set of requests waiting for each      *)
(* other (NoDeadlock) follows from LockInv alone.                          *)
(*                                                                         *)
(* So does what the tables hold. Two check-ins of one quest never both     *)
(* hold its completion row, so what the count saw stays true until the     *)
(* commit (CountInv), and two of one stop never both hold its key          *)
(* (NewStopInv), while the XP complete() reads without a lock can only     *)
(* fall behind (ReadInv). With that QuestPlay implements QuestLedger.      *)
(***************************************************************************)
EXTENDS QuestPlay, FiniteSetTheorems, TLAPS

Active(r) == req[r] \notin {NoCall, Answered}

AfterCreate == {"pushStop", "addVisit", "countStops", "readUser", "readStatus",
                "setCompleted", "awardUser", "commit"}
AfterPush   == AfterCreate \ {"pushStop"}
AfterVisit  == AfterPush \ {"addVisit"}
AfterCount  == AfterVisit \ {"countStops"}
Finalizing  == {"readUser", "readStatus", "setCompleted", "awardUser"}

IsCheckInAt(r, steps) == Active(r) /\ req[r].op = "checkIn" /\ req[r].step \in steps
IsCompleteAt(r, steps) == Active(r) /\ req[r].op = "complete" /\ req[r].step \in steps

HoldsCheckIn(r)    == IsCheckInAt(r, AfterCreate)
HoldsCompletion(r) == IsCheckInAt(r, AfterPush) \/ IsCompleteAt(r, {"awardUser", "commit"})
HoldsUser(r)       == IsCheckInAt(r, AfterVisit) \/ IsCompleteAt(r, {"commit"})

\* A request owns exactly the rows its statements so far have locked.
Holds(r, row) ==
  \/ HoldsCheckIn(r) /\ row = LockOfCheckIn(r)
  \/ HoldsCompletion(r) /\ row = LockOfCompletion(r)
  \/ HoldsUser(r) /\ row = LockOfUser(r)

LockInv == \A r \in Requests, row \in Rows : lock[row] = r <=> Holds(r, row)

\* Which steps a request of each endpoint passes, and what it carries there.
StepOK(r) ==
  Active(r) =>
    /\ req[r].op = "start" => req[r].step = "upsert"
    /\ req[r].op = "complete" =>
         req[r].step \in {"findActive", "commit", "emit"} \cup Finalizing
    /\ req[r].op = "checkIn" =>
         req[r].step # "upsert" /\ req[r].stop \in StopsOf[req[r].quest]
    /\ req[r].finalized => req[r].step \in {"commit", "emit"}
    /\ (req[r].op = "complete" /\ req[r].step \in {"commit", "emit"}) => req[r].finalized

StepInv == \A r \in Requests : StepOK(r)

-----------------------------------------------------------------------------
(* The XP curve, for every amount of XP.                                   *)

\* levelFromXp never answers a level below 1.
LEMMA LevelType ==
  ASSUME NEW xp \in Nat
  PROVE  LevelFromXp(xp) \in Nat \ {0}
<1> DEFINE fit == {n \in 1 .. (xp \div XpStep) : XpStep * (n * n) <= xp}
<1>1. IsFiniteSet(1 .. (xp \div XpStep))
  BY FS_Interval DEF XpStep
<1>2. Cardinality(fit) \in Nat
  <2>1. fit \in SUBSET (1 .. (xp \div XpStep))
    OBVIOUS
  <2> QED
    BY <1>1, <2>1, FS_Subset, FS_CardinalityType
<1> QED
  BY <1>2 DEF LevelFromXp, Root, MIN_LEVEL

\* More XP never means a lower level: a square that fits in less fits in more.
LEMMA LevelMonotone ==
  ASSUME NEW a \in Nat, NEW b \in Nat, a <= b
  PROVE  LevelFromXp(a) <= LevelFromXp(b)
<1> DEFINE fit(xp) == {n \in 1 .. (xp \div XpStep) : XpStep * (n * n) <= xp}
<1>1. CASE a = 0
  <2>1. LevelFromXp(a) = 1
    BY <1>1 DEF LevelFromXp, MIN_LEVEL
  <2> QED
    BY <2>1, LevelType
<1>2. CASE a > 0
  <2>1. fit(a) \in SUBSET fit(b)
    <3>1. a \div XpStep <= b \div XpStep
      BY SMT DEF XpStep
    <3>2. ASSUME NEW n \in 1 .. (a \div XpStep), XpStep * (n * n) <= a
          PROVE  n \in 1 .. (b \div XpStep) /\ XpStep * (n * n) <= b
      <4>1. n * n \in Nat
        OBVIOUS
      <4> QED
        BY <3>1, <3>2, <4>1, SMT DEF XpStep
    <3> QED
      BY <3>2
  <2>2. IsFiniteSet(fit(b))
    <3>1. IsFiniteSet(1 .. (b \div XpStep))
      BY FS_Interval DEF XpStep
    <3>2. fit(b) \in SUBSET (1 .. (b \div XpStep))
      OBVIOUS
    <3> QED
      BY <3>1, <3>2, FS_Subset
  <2>3. LevelFromXp(a) = Cardinality(fit(a)) + 1 /\ LevelFromXp(b) = Cardinality(fit(b)) + 1
    BY <1>2 DEF LevelFromXp, Root
  <2> HIDE DEF fit
  <2>4. IsFiniteSet(fit(a)) /\ Cardinality(fit(a)) <= Cardinality(fit(b))
    BY <2>1, <2>2, FS_Subset
  <2>5. Cardinality(fit(a)) \in Nat /\ Cardinality(fit(b)) \in Nat
    BY <2>2, <2>4, FS_CardinalityType
  <2> QED
    BY <2>3, <2>4, <2>5
<1> QED
  BY <1>1, <1>2

-----------------------------------------------------------------------------
\* What the Receive actions put in a request slot is a request.
LEMMA CallType ==
  ASSUME NEW op \in Ops, NEW u \in Users, NEW q \in Quests, NEW l \in Locations \cup {NoStop},
         op = "checkIn" => l \in Locations, NEW step \in BeforeTx \cup {"answered"}
  PROVE  Call(op, u, q, l, step) \in Calls \cup {NoCall, Answered}
BY DEF Call, Calls, BeforeTx

\* A request at a statement has a player and a quest.
LEMMA ActiveType ==
  ASSUME TypeOK, NEW r \in Requests, req[r].step \notin {"idle", "answered"}
  PROVE  /\ req[r] \in Calls
         /\ Active(r)
         /\ req[r].user \in Users
         /\ req[r].quest \in Quests
BY DEF TypeOK, Calls, NoCall, Answered, Active

\* Moving a request on keeps the requests well formed.
LEMMA GotoType ==
  ASSUME TypeOK, NEW r \in Requests, req[r].step \notin {"idle", "answered"},
         NEW step \in BeforeTx \cup InTx \cup {"emit", "answered"}, Goto(r, step)
  PROVE  req' \in [Requests -> Calls \cup {NoCall, Answered}]
<1>1. req[r] \in Calls
  BY ActiveType
<1>2. CASE step = "answered"
  BY <1>2 DEF Goto, TypeOK
<1>3. CASE step # "answered"
  <2>1. [req[r] EXCEPT !.step = step] \in Calls
    BY <1>1, <1>3 DEF Calls
  <2> QED
    BY <2>1, <1>3 DEF Goto, TypeOK
<1> QED
  BY <1>2, <1>3

\* Taking and releasing row locks yields a lock table.
LEMMA LockType ==
  ASSUME TypeOK, NEW r \in Requests, NEW row \in Rows
  PROVE  /\ Take(lock, row, r) \in [Rows -> Requests \cup {NoRequest}]
         /\ Release(lock, r) \in [Rows -> Requests \cup {NoRequest}]
BY DEF TypeOK, Take, Release

\* The rows a request locks are rows of the tables.
LEMMA RowsOf ==
  ASSUME TypeOK, NEW r \in Requests, req[r].step \notin {"idle", "answered"}
  PROVE  /\ LockOfCompletion(r) \in Rows
         /\ LockOfUser(r) \in Rows
         /\ req[r].stop \in Locations => LockOfCheckIn(r) \in Rows
BY ActiveType DEF Rows, LockOfCompletion, LockOfUser, LockOfCheckIn

\* Replacing one entry of a table of tables keeps its type.
LEMMA UpdateNested ==
  ASSUME NEW A, NEW B, NEW S, NEW f \in [A -> [B -> S]], NEW a \in A, NEW b \in B, NEW v \in S
  PROVE  [f EXCEPT ![a][b] = v] \in [A -> [B -> S]]
OBVIOUS

\* A rollback, and so a death, keeps the types.
LEMMA RollbackType ==
  ASSUME TypeOK, NEW r \in Requests, req[r].step \notin {"idle", "answered"}, Rollback(r)
  PROVE  TypeOK'
<1>1. req' \in [Requests -> Calls \cup {NoCall, Answered}]
  BY GotoType DEF Rollback
<1>2. lock' \in [Rows -> Requests \cup {NoRequest}]
  BY DEF Rollback, Release, TypeOK
<1> QED
  BY <1>1, <1>2 DEF Rollback, TypeOK

\* A commit keeps the types: the level it writes is at least 1.
LEMMA CommitType ==
  ASSUME TypeOK, NEW r \in Requests, Commit(r)
  PROVE  TypeOK'
<1>1. req[r] \in Calls /\ req[r].user \in Users /\ req[r].quest \in Quests
  BY ActiveType DEF Commit, At
<1>2. req' \in [Requests -> Calls \cup {NoCall, Answered}]
  BY GotoType DEF Commit, At
<1>3. lock' \in [Rows -> Requests \cup {NoRequest}]
  BY DEF Commit, Release, TypeOK
<1>4. WrittenRow(r) \in Completions
  <2>1. Row(r) \in Completions
    BY <1>1 DEF TypeOK, Row
  <2>2. req[r].op = "checkIn" =>
          Append(Row(r).checkedInLocationIds, req[r].stop) \in Seq(Locations)
    BY <1>1, <2>1 DEF Calls, Completions
  <2>3. req[r].finalized \in BOOLEAN
    BY <1>1 DEF Calls
  <2> QED
    BY <2>1, <2>2, <2>3 DEF WrittenRow, Completions, CompletionStatuses
<1>5. WrittenUser(r) \in [xp : Nat, level : Nat \ {0}, questsDone : Nat, placesVisited : Nat]
  <2>1. user[req[r].user] \in [xp : Nat, level : Nat \ {0}, questsDone : Nat, placesVisited : Nat]
    BY <1>1 DEF TypeOK
  <2>2. req[r].xpRead \in Nat /\ XpReward[req[r].quest] \in Nat
    BY <1>1, RewardAssumption DEF Calls
  <2>3. AwardedXp(r) \in Nat
    BY <2>1, <2>2 DEF AwardedXp
  <2>4. NewLevel(req[r].xpRead, XpReward[req[r].quest]) \in Nat \ {0}
    <3>1. req[r].xpRead + XpReward[req[r].quest] \in Nat
      BY <2>2
    <3> QED
      BY <3>1, LevelType DEF NewLevel
  <2> QED
    BY <2>1, <2>3, <2>4 DEF WrittenUser
<1>6. completion' \in [Users -> [Quests -> Completions]]
  BY <1>1, <1>4, UpdateNested DEF Commit, TypeOK
<1>7. checkedIn' \in [Users -> SUBSET Locations]
  BY <1>1 DEF Commit, TypeOK, Calls
<1>8. user' \in [Users -> [xp : Nat, level : Nat \ {0}, questsDone : Nat, placesVisited : Nat]]
  BY <1>1, <1>5 DEF Commit, TypeOK
<1> QED
  BY <1>2, <1>3, <1>6, <1>7, <1>8 DEF Commit, TypeOK

\* Emitting the events of a request keeps the types.
LEMMA EmitType ==
  ASSUME TypeOK, NEW r \in Requests, Emit(r)
  PROVE  TypeOK'
<1>1. req[r] \in Calls /\ req[r].user \in Users
  BY ActiveType DEF Emit, At
<1>2. req' \in [Requests -> Calls \cup {NoCall, Answered}]
  BY GotoType DEF Emit, At
<1>3. emitted' \in [Users -> [questCompleted : Nat, locationCheckedIn : Nat]]
  BY <1>1 DEF Emit, TypeOK
<1> QED
  BY <1>2, <1>3 DEF Emit, TypeOK

\* A request that moves on, and perhaps locks a row, keeps the types.
LEMMA MoveType ==
  ASSUME TypeOK, NEW r \in Requests, req[r].step \notin {"idle", "answered"},
         NEW step \in BeforeTx \cup InTx \cup {"emit", "answered"}, Goto(r, step),
         lock' \in [Rows -> Requests \cup {NoRequest}],
         UNCHANGED <<published, completion, checkedIn, user, emitted>>
  PROVE  TypeOK'
BY GotoType DEF TypeOK

\* Every step of the system keeps the types.
LEMMA TypeStep ==
  ASSUME TypeOK, [Next]_vars
  PROVE  TypeOK'
<1>1. ASSUME NEW r \in Requests, NEW u \in Users, NEW q \in Quests, ReceiveStart(r, u, q)
      PROVE  TypeOK'
  <2>1. Call("start", u, q, NoStop, IF published[q] THEN "upsert" ELSE "answered")
          \in Calls \cup {NoCall, Answered}
    BY CallType DEF Ops, BeforeTx
  <2> QED
    BY <1>1, <2>1 DEF ReceiveStart, Receive, TypeOK
<1>2. ASSUME NEW r \in Requests, NEW u \in Users, NEW q \in Quests, ReceiveComplete(r, u, q)
      PROVE  TypeOK'
  <2>1. Call("complete", u, q, NoStop, "findActive") \in Calls \cup {NoCall, Answered}
    BY CallType DEF Ops, BeforeTx
  <2> QED
    BY <1>2, <2>1 DEF ReceiveComplete, Receive, TypeOK
<1>3. ASSUME NEW r \in Requests, NEW u \in Users, NEW q \in Quests, NEW l \in Locations,
             ReceiveCheckIn(r, u, q, l)
      PROVE  TypeOK'
  <2>1. \A step \in {"findCheckIn", "answered"} :
          Call("checkIn", u, q, l, step) \in Calls \cup {NoCall, Answered}
    BY CallType DEF Ops, BeforeTx
  <2> QED
    BY <1>3, <2>1 DEF ReceiveCheckIn, Receive, TypeOK
<1>4. ASSUME NEW r \in Requests, Serve(r)
      PROVE  TypeOK'
  <2>1. CASE UpsertCompletion(r)
    <3>1. req[r].user \in Users /\ req[r].quest \in Quests
      BY <2>1, ActiveType DEF UpsertCompletion, At
    <3>2. req' \in [Requests -> Calls \cup {NoCall, Answered}]
      BY <2>1, GotoType DEF UpsertCompletion, At
    <3>3. [Row(r) EXCEPT !.status = "STARTED"] \in Completions
      <4>1. Row(r) \in Completions
        BY <3>1 DEF TypeOK, Row
      <4> QED
        BY <4>1 DEF Completions, CompletionStatuses
    <3>4. completion' = [completion EXCEPT ![req[r].user][req[r].quest] =
                           [Row(r) EXCEPT !.status = "STARTED"]]
      BY <2>1, <3>1 DEF UpsertCompletion, TypeOK, Row
    <3>5. completion' \in [Users -> [Quests -> Completions]]
      BY <3>1, <3>3, <3>4, UpdateNested DEF TypeOK
    <3> QED
      BY <2>1, <3>2, <3>5 DEF UpsertCompletion, TypeOK
  <2>2. CASE FindCheckIn(r)
    BY <2>2, MoveType DEF FindCheckIn, At, TypeOK, BeforeTx
  <2>3. CASE FindActive(r)
    BY <2>3, MoveType DEF FindActive, At, TypeOK, BeforeTx, InTx
  <2>4. CASE FindDuplicate(r)
    BY <2>4, MoveType DEF FindDuplicate, At, TypeOK, InTx
  <2>5. CASE CreateCheckIn(r)
    <3>1. CASE req[r].stop \in checkedIn[req[r].user]
      BY <2>5, <3>1, RollbackType DEF CreateCheckIn, At
    <3>2. CASE req[r].stop \notin checkedIn[req[r].user]
      BY <2>5, <3>2, MoveType DEF CreateCheckIn, At, Take, TypeOK, InTx
    <3> QED
      BY <3>1, <3>2
  <2>6. CASE PushStop(r)
    BY <2>6, MoveType DEF PushStop, At, Take, TypeOK, InTx
  <2>7. CASE AddVisit(r)
    BY <2>7, MoveType DEF AddVisit, At, Take, TypeOK, InTx
  <2>8. CASE CountStops(r)
    BY <2>8, MoveType DEF CountStops, At, TypeOK, InTx
  <2>9. CASE ReadUser(r)
    <3>1. req[r] \in Calls /\ req[r].user \in Users
      BY <2>9, ActiveType DEF ReadUser, At
    <3>2. [req[r] EXCEPT !.xpRead = user[req[r].user].xp, !.step = "readStatus"] \in Calls
      BY <3>1 DEF Calls, TypeOK, InTx
    <3> QED
      BY <2>9, <3>2 DEF ReadUser, TypeOK
  <2>10. CASE ReadStatus(r)
    <3>1. CASE Row(r).status \in {"NONE", "COMPLETED"}
      BY <2>10, <3>1, RollbackType DEF ReadStatus, At
    <3>2. CASE Row(r).status \notin {"NONE", "COMPLETED"}
      BY <2>10, <3>2, MoveType DEF ReadStatus, At, TypeOK, InTx
    <3> QED
      BY <3>1, <3>2
  <2>11. CASE SetCompleted(r)
    BY <2>11, MoveType DEF SetCompleted, At, Take, TypeOK, InTx
  <2>12. CASE AwardUser(r)
    <3>1. req[r] \in Calls
      BY <2>12, ActiveType DEF AwardUser, At
    <3>2. [req[r] EXCEPT !.finalized = TRUE, !.step = "commit"] \in Calls
      BY <3>1 DEF Calls, InTx
    <3> QED
      BY <2>12, <3>2 DEF AwardUser, TypeOK, Take
  <2>13. CASE Commit(r)
    BY <2>13, CommitType
  <2>14. CASE Emit(r)
    BY <2>14, EmitType
  <2> QED
    BY <1>4, <2>1, <2>2, <2>3, <2>4, <2>5, <2>6, <2>7, <2>8, <2>9, <2>10, <2>11, <2>12,
       <2>13, <2>14 DEF Serve
<1>5. ASSUME NEW r \in Requests, Die(r)
      PROVE  TypeOK'
  BY <1>5, RollbackType DEF Die
<1>6. ASSUME NEW q \in Quests, UpdateStatus(q)
      PROVE  TypeOK'
  BY <1>6 DEF UpdateStatus, TypeOK
<1>7. CASE UNCHANGED vars
  BY <1>7 DEF vars, TypeOK
<1> QED
  BY <1>1, <1>2, <1>3, <1>4, <1>5, <1>6, <1>7 DEF Next

\* Whatever requests arrive, the tables and the handlers hold what their types
\* say, and no stored level is below 1.
THEOREM TypeCorrect == Spec => []TypeOK
<1>1. Init => TypeOK
  <2> SUFFICES ASSUME Init PROVE TypeOK
    OBVIOUS
  <2>1. lock \in [Rows -> Requests \cup {NoRequest}]
    BY DEF Init, Unlocked
  <2> QED
    BY <2>1 DEF Init, TypeOK, Completions, CompletionStatuses, MIN_LEVEL
<1>2. TypeOK /\ [Next]_vars => TypeOK'
  BY TypeStep
<1> QED
  BY <1>1, <1>2, PTL DEF Spec

-----------------------------------------------------------------------------
(* What a step leaves alone.                                               *)

ReceiveAny(r) ==
  \E u \in Users, q \in Quests :
    \/ ReceiveStart(r, u, q)
    \/ ReceiveComplete(r, u, q)
    \/ \E l \in Locations : ReceiveCheckIn(r, u, q, l)

\* A step of request r.
Acts(r) == ReceiveAny(r) \/ Serve(r) \/ Die(r)

\* Every step is a step of one request, an edit of a quest or nothing.
LEMMA NextSplit ==
  ASSUME [Next]_vars
  PROVE  \/ \E r \in Requests : Acts(r)
         \/ \E q \in Quests : UpdateStatus(q)
         \/ UNCHANGED vars
BY DEF Next, Acts, ReceiveAny

\* A request is moved by its own steps only.
LEMMA OthersStay ==
  ASSUME NEW r \in Requests, NEW s \in Requests, s # r, TypeOK, Acts(r)
  PROVE  req'[s] = req[s]
<1>1. \A step : Goto(r, step) => req'[s] = req[s]
  BY DEF Goto, TypeOK
<1>2. CASE ReceiveAny(r)
  BY <1>2 DEF ReceiveAny, ReceiveStart, ReceiveComplete, ReceiveCheckIn, Receive, TypeOK
<1>3. CASE Serve(r)
  BY <1>1, <1>3 DEF Serve, UpsertCompletion, FindCheckIn, FindActive, FindDuplicate,
     CreateCheckIn, PushStop, AddVisit, CountStops, ReadUser, ReadStatus, SetCompleted,
     AwardUser, Commit, Emit, Rollback, TypeOK
<1>4. CASE Die(r)
  BY <1>1, <1>4 DEF Die, Rollback
<1> QED
  BY <1>2, <1>3, <1>4 DEF Acts

\* Only the upsert and the commits change the completion and user tables.
LEMMA TablesStay ==
  ASSUME NEW r \in Requests, Acts(r), ~ Commit(r)
  PROVE  /\ UNCHANGED <<checkedIn, user>>
         /\ UpsertCompletion(r) \/ UNCHANGED completion
<1>1. CASE ReceiveAny(r)
  BY <1>1 DEF ReceiveAny, ReceiveStart, ReceiveComplete, ReceiveCheckIn, Receive
<1>2. CASE Serve(r)
  BY <1>2 DEF Serve, UpsertCompletion, FindCheckIn, FindActive, FindDuplicate,
     CreateCheckIn, PushStop, AddVisit, CountStops, ReadUser, ReadStatus, SetCompleted,
     AwardUser, Emit, Rollback
<1>3. CASE Die(r)
  BY <1>3 DEF Die, Rollback
<1> QED
  BY <1>1, <1>2, <1>3 DEF Acts

\* start writes the status of one row and nothing else.
LEMMA UpsertRow ==
  ASSUME NEW r \in Requests, TypeOK, UpsertCompletion(r), NEW u \in Users, NEW q \in Quests
  PROVE  completion'[u][q] = IF u = req[r].user /\ q = req[r].quest
                             THEN [completion[u][q] EXCEPT !.status = "STARTED"]
                             ELSE completion[u][q]
<1>1. req[r].user \in Users /\ req[r].quest \in Quests
  BY ActiveType DEF UpsertCompletion, At
<1> QED
  BY <1>1 DEF UpsertCompletion, TypeOK

\* A commit writes the completion row of its own player and quest only.
LEMMA CommitRow ==
  ASSUME NEW r \in Requests, TypeOK, Commit(r), NEW u \in Users, NEW q \in Quests
  PROVE  completion'[u][q] = IF u = req[r].user /\ q = req[r].quest
                             THEN WrittenRow(r) ELSE completion[u][q]
<1>1. req[r].user \in Users /\ req[r].quest \in Quests
  BY ActiveType DEF Commit, At
<1> QED
  BY <1>1 DEF Commit, TypeOK

\* No step deletes a completion row.
LEMMA StatusStays ==
  ASSUME TypeOK, [Next]_vars, NEW u \in Users, NEW q \in Quests, completion[u][q].status # "NONE"
  PROVE  completion'[u][q].status # "NONE"
<1>1. ASSUME NEW r \in Requests, Acts(r)
      PROVE  completion'[u][q].status # "NONE"
  <2>1. CASE Commit(r)
    <3>1. req[r].user = u /\ req[r].quest = q => WrittenRow(r).status # "NONE"
      BY DEF WrittenRow, Row
    <3> QED
      BY <2>1, <3>1, CommitRow
  <2>2. CASE UpsertCompletion(r)
    <3>1. completion[u][q] \in Completions
      BY DEF TypeOK
    <3> QED
      BY <2>2, <3>1, UpsertRow DEF Completions
  <2> QED
    BY <1>1, <2>1, <2>2, TablesStay
<1> QED
  BY <1>1, NextSplit DEF UpdateStatus, vars

-----------------------------------------------------------------------------
(* The steps of each endpoint.                                             *)

\* After Goto only the step differs, and an answered request is over.
LEMMA GotoReq ==
  ASSUME TypeOK, NEW r \in Requests, NEW step, step # "idle", Goto(r, step),
         req[r].step \notin {"idle", "answered"}
  PROVE  /\ step = "answered" => req'[r] = Answered
         /\ step # "answered" =>
              /\ req'[r].step = step
              /\ req'[r].op = req[r].op
              /\ req'[r].user = req[r].user
              /\ req'[r].quest = req[r].quest
              /\ req'[r].stop = req[r].stop
              /\ req'[r].xpRead = req[r].xpRead
              /\ req'[r].finalized = req[r].finalized
BY ActiveType DEF Goto, TypeOK, Calls

\* A rolled back request is answered.
LEMMA RollbackReq ==
  ASSUME TypeOK, NEW r \in Requests, Rollback(r), req[r].step \notin {"idle", "answered"}
  PROVE  req'[r] = Answered
BY GotoReq DEF Rollback

\* A step of a request leads it to a statement of its own handler.
LEMMA StepOKOwn ==
  ASSUME TypeOK, StepInv, NEW r \in Requests, Acts(r)
  PROVE  StepOK(r)'
<1>1. CASE ReceiveAny(r)
  <2>1. PICK u \in Users, q \in Quests :
          \/ ReceiveStart(r, u, q)
          \/ ReceiveComplete(r, u, q)
          \/ \E l \in Locations : ReceiveCheckIn(r, u, q, l)
    BY <1>1 DEF ReceiveAny
  <2>2. CASE ReceiveStart(r, u, q)
    BY <2>2 DEF ReceiveStart, Receive, Call, StepOK, Active, TypeOK
  <2>3. CASE ReceiveComplete(r, u, q)
    BY <2>3 DEF ReceiveComplete, Receive, Call, StepOK, Active, TypeOK
  <2>4. ASSUME NEW l \in Locations, ReceiveCheckIn(r, u, q, l)
        PROVE  StepOK(r)'
    BY <2>4 DEF ReceiveCheckIn, Receive, Call, StepOK, Active, TypeOK
  <2> QED
    BY <2>1, <2>2, <2>3, <2>4
<1>2. CASE Die(r)
  BY <1>2, RollbackReq DEF Die, StepOK, Active
<1>3. CASE Serve(r)
  <2> USE DEF StepOK, At
  <2>1. req[r].step \notin {"idle", "answered"}
    BY <1>3 DEF Serve, UpsertCompletion, FindCheckIn, FindActive, FindDuplicate,
       CreateCheckIn, PushStop, AddVisit, CountStops, ReadUser, ReadStatus, SetCompleted,
       AwardUser, Commit, Emit
  <2>2. StepOK(r) /\ Active(r) /\ req[r] \in Calls
    BY <2>1, ActiveType DEF StepInv
  <2>3. req'[r] = Answered => StepOK(r)'
    BY DEF Active
  <2>4. CASE UpsertCompletion(r)
    BY <2>1, <2>3, <2>4, GotoReq DEF UpsertCompletion
  <2>5. CASE FindCheckIn(r)
    BY <2>1, <2>2, <2>3, <2>5, GotoReq DEF FindCheckIn, Finalizing
  <2>6. CASE FindActive(r)
    BY <2>1, <2>2, <2>3, <2>6, GotoReq DEF FindActive, Finalizing, Calls, Ops
  <2>7. CASE FindDuplicate(r)
    BY <2>1, <2>2, <2>3, <2>7, GotoReq DEF FindDuplicate, Finalizing
  <2>8. CASE CreateCheckIn(r)
    BY <2>1, <2>2, <2>3, <2>8, GotoReq, RollbackReq DEF CreateCheckIn, Finalizing
  <2>9. CASE PushStop(r)
    BY <2>1, <2>2, <2>3, <2>9, GotoReq DEF PushStop, Finalizing
  <2>10. CASE AddVisit(r)
    BY <2>1, <2>2, <2>3, <2>10, GotoReq DEF AddVisit, Finalizing
  <2>11. CASE CountStops(r)
    BY <2>1, <2>2, <2>3, <2>11, GotoReq DEF CountStops, Finalizing
  <2>12. CASE ReadUser(r)
    BY <2>2, <2>12 DEF ReadUser, Finalizing, Calls, TypeOK
  <2>13. CASE ReadStatus(r)
    BY <2>1, <2>2, <2>3, <2>13, GotoReq, RollbackReq DEF ReadStatus, Finalizing
  <2>14. CASE SetCompleted(r)
    BY <2>1, <2>2, <2>3, <2>14, GotoReq DEF SetCompleted, Finalizing
  <2>15. CASE AwardUser(r)
    BY <2>2, <2>15 DEF AwardUser, Finalizing, Calls, TypeOK
  <2>16. CASE Commit(r)
    BY <2>1, <2>2, <2>3, <2>16, GotoReq DEF Commit, Finalizing
  <2>17. CASE Emit(r)
    BY <2>1, <2>3, <2>17, GotoReq DEF Emit
  <2> QED
    BY <1>3, <2>4, <2>5, <2>6, <2>7, <2>8, <2>9, <2>10, <2>11, <2>12, <2>13, <2>14, <2>15,
       <2>16, <2>17 DEF Serve
<1> QED
  BY <1>1, <1>2, <1>3 DEF Acts

\* Each endpoint runs only the statements of its own handler, and a check-in
\* in progress is one of a stop of its quest.
LEMMA StepCorrect == Spec => []StepInv
<1>1. Init => StepInv
  BY DEF Init, StepInv, StepOK, Active
<1>2. TypeOK /\ StepInv /\ [Next]_vars => StepInv'
  <2> SUFFICES ASSUME TypeOK, StepInv, [Next]_vars PROVE StepInv'
    OBVIOUS
  <2>1. ASSUME NEW r \in Requests, Acts(r)
        PROVE  StepInv'
    <3>1. ASSUME NEW s \in Requests, s # r
          PROVE  StepOK(s)'
      <4>1. req'[s] = req[s]
        BY <2>1, <3>1, OthersStay
      <4>2. StepOK(s)
        BY DEF StepInv
      <4> QED
        BY <4>1, <4>2 DEF StepOK, Active
    <3> QED
      BY <2>1, <3>1, StepOKOwn DEF StepInv
  <2>2. ASSUME UNCHANGED req
        PROVE  StepInv'
    BY <2>2 DEF StepInv, StepOK, Active
  <2> QED
    BY <2>1, <2>2, NextSplit DEF UpdateStatus, vars
<1> QED
  BY <1>1, <1>2, TypeCorrect, PTL DEF Spec

-----------------------------------------------------------------------------
(* Who holds which row.                                                    *)

\* A step of one request leaves the locks of the others as they are.
LEMMA LockOthers ==
  ASSUME TypeOK, NEW r \in Requests, NEW s \in Requests, s # r, NEW row \in Rows, Acts(r)
  PROVE  lock'[row] = s <=> lock[row] = s
<1>1. s # NoRequest
  BY RequestsAssumption DEF Requests
<1>2. lock' = Release(lock, r) => (lock'[row] = s <=> lock[row] = s)
  BY <1>1 DEF Release, TypeOK
<1>3. ASSUME NEW x, Free(lock, x, r), lock' = Take(lock, x, r)
      PROVE  lock'[row] = s <=> lock[row] = s
  BY <1>1, <1>3 DEF Free, Take, TypeOK
<1>4. CASE ReceiveAny(r)
  BY <1>4 DEF ReceiveAny, ReceiveStart, ReceiveComplete, ReceiveCheckIn, Receive
<1>5. CASE Die(r)
  BY <1>2, <1>5 DEF Die, Rollback
<1>6. CASE Serve(r)
  BY <1>2, <1>3, <1>6 DEF Serve, UpsertCompletion, FindCheckIn, FindActive, FindDuplicate,
     CreateCheckIn, PushStop, AddVisit, CountStops, ReadUser, ReadStatus, SetCompleted,
     AwardUser, Commit, Emit, Rollback
<1> QED
  BY <1>4, <1>5, <1>6 DEF Acts

\* A request that has ended, or is not in its transaction, holds nothing.
LEMMA NothingHeld ==
  ASSUME NEW r \in Requests,
         ~ Active(r) \/ req[r].step \in BeforeTx \cup {"findDuplicate", "createCheckIn", "emit"}
                     \/ (req[r].op = "complete" /\ req[r].step \in Finalizing \ {"awardUser"})
  PROVE  ~ HoldsCheckIn(r) /\ ~ HoldsCompletion(r) /\ ~ HoldsUser(r)
BY DEF HoldsCheckIn, HoldsCompletion, HoldsUser, IsCheckInAt, IsCompleteAt, AfterCreate,
   AfterPush, AfterVisit, BeforeTx, Finalizing

\* After its own step a request holds the rows its statements so far have locked.
LEMMA LockOwn ==
  ASSUME TypeOK, StepInv, LockInv, NEW r \in Requests, Acts(r), NEW row \in Rows
  PROVE  lock'[row] = r <=> Holds(r, row)'
<1> USE DEF Holds
<1>0. lock[row] = r <=> Holds(r, row)
  BY DEF LockInv
<1>1. lock' = Release(lock, r) => lock'[row] # r
  BY RequestsAssumption DEF Release, TypeOK, Requests
<1>2. ASSUME NEW x, lock' = Take(lock, x, r)
      PROVE  lock'[row] = r <=> (row = x \/ lock[row] = r)
  BY <1>2 DEF Take, TypeOK
<1>3. req'[r] = Answered => ~ Holds(r, row)'
  BY DEF HoldsCheckIn, HoldsCompletion, HoldsUser, IsCheckInAt, IsCompleteAt, Active
<1>4. CASE ReceiveAny(r)
  <2>1. ~ Active(r)
    BY <1>4 DEF ReceiveAny, ReceiveStart, ReceiveComplete, ReceiveCheckIn, Receive, IsNext, Active
  <2>2. lock'[row] # r
    BY <1>0, <1>4, <2>1, NothingHeld
       DEF ReceiveAny, ReceiveStart, ReceiveComplete, ReceiveCheckIn, Receive
  <2>3. ~ Active(r)' \/ req'[r].step \in BeforeTx
    BY <1>4 DEF ReceiveAny, ReceiveStart, ReceiveComplete, ReceiveCheckIn, Receive, Call,
       Active, BeforeTx, TypeOK
  <2>4. ~ Holds(r, row)'
    BY <2>3 DEF HoldsCheckIn, HoldsCompletion, HoldsUser, IsCheckInAt, IsCompleteAt, Active,
       AfterCreate, AfterPush, AfterVisit, BeforeTx
  <2> QED
    BY <2>2, <2>4
<1>5. CASE Die(r)
  BY <1>1, <1>3, <1>5, RollbackReq DEF Die, Rollback
<1>6. CASE Serve(r)
  <2> USE DEF At
  <2>1. req[r].step \notin {"idle", "answered"}
    BY <1>6 DEF Serve, UpsertCompletion, FindCheckIn, FindActive, FindDuplicate,
       CreateCheckIn, PushStop, AddVisit, CountStops, ReadUser, ReadStatus, SetCompleted,
       AwardUser, Commit, Emit
  <2>2. StepOK(r) /\ Active(r) /\ req[r] \in Calls
    BY <2>1, ActiveType DEF StepInv
  <2>3. ASSUME req'[r].user = req[r].user, req'[r].quest = req[r].quest,
               req'[r].stop = req[r].stop
        PROVE  /\ LockOfCompletion(r)' = LockOfCompletion(r)
               /\ LockOfUser(r)' = LockOfUser(r)
               /\ LockOfCheckIn(r)' = LockOfCheckIn(r)
    BY <2>3 DEF LockOfCompletion, LockOfUser, LockOfCheckIn, CompletionRow, UserRow, CheckInKey
  <2> DEFINE Same == /\ req'[r].op = req[r].op /\ Active(r)'
                     /\ LockOfCompletion(r)' = LockOfCompletion(r)
                     /\ LockOfUser(r)' = LockOfUser(r)
                     /\ LockOfCheckIn(r)' = LockOfCheckIn(r)
  <2>4. ASSUME NEW step, step \notin {"idle", "answered"}, Goto(r, step)
        PROVE  Same /\ req'[r].step = step
    BY <2>1, <2>3, <2>4, GotoReq DEF Active, NoCall, Answered
  <2>5. Goto(r, "answered") => req'[r] = Answered
    BY <2>1, GotoReq
  <2> HIDE DEF Same
  <2> USE DEF HoldsCheckIn, HoldsCompletion, HoldsUser, IsCheckInAt, IsCompleteAt,
          AfterCreate, AfterPush, AfterVisit, Finalizing
  <2>6. CASE UpsertCompletion(r)
    BY <1>0, <1>3, <2>5, <2>6 DEF UpsertCompletion
  <2>7. CASE FindCheckIn(r)
    BY <1>0, <1>3, <2>4, <2>5, <2>7 DEF FindCheckIn, Same
  <2>8. CASE FindActive(r)
    BY <1>0, <1>3, <2>2, <2>4, <2>5, <2>8 DEF FindActive, Same
  <2>9. CASE FindDuplicate(r)
    BY <1>0, <1>3, <2>4, <2>5, <2>9 DEF FindDuplicate, Same
  <2>10. CASE CreateCheckIn(r)
    <3>1. req[r].op = "checkIn"
      BY <2>2, <2>10 DEF StepOK, Calls, Ops, CreateCheckIn
    <3>2. CASE Rollback(r)
      BY <1>1, <1>3, <2>1, <3>2, RollbackReq DEF Rollback
    <3>3. CASE ~ Rollback(r)
      <4>1. lock' = Take(lock, LockOfCheckIn(r), r) /\ Same /\ req'[r].step = "pushStop"
        BY <2>4, <2>10, <3>3 DEF CreateCheckIn
      <4> QED
        BY <1>0, <1>2, <2>2, <2>10, <3>1, <4>1 DEF CreateCheckIn, Same
    <3> QED
      BY <3>2, <3>3
  <2>11. CASE PushStop(r)
    <3>1. req[r].op = "checkIn"
      BY <2>2, <2>11 DEF StepOK, Calls, Ops, PushStop
    <3>2. lock' = Take(lock, LockOfCompletion(r), r) /\ Same /\ req'[r].step = "addVisit"
      BY <2>4, <2>11 DEF PushStop
    <3> QED
      BY <1>0, <1>2, <2>2, <2>11, <3>1, <3>2 DEF PushStop, Same
  <2>12. CASE AddVisit(r)
    <3>1. req[r].op = "checkIn"
      BY <2>2, <2>12 DEF StepOK, Calls, Ops, AddVisit
    <3>2. lock' = Take(lock, LockOfUser(r), r) /\ Same /\ req'[r].step = "countStops"
      BY <2>4, <2>12 DEF AddVisit
    <3> QED
      BY <1>0, <1>2, <2>2, <2>12, <3>1, <3>2 DEF AddVisit, Same
  <2>13. CASE CountStops(r)
    <3>1. req[r].op = "checkIn"
      BY <2>2, <2>13 DEF StepOK, Calls, Ops, CountStops
    <3>2. Same /\ req'[r].step \in {"readUser", "commit"} /\ lock' = lock
      BY <2>4, <2>13 DEF CountStops
    <3> QED
      BY <1>0, <2>2, <2>13, <3>1, <3>2 DEF CountStops, Same
  <2>14. CASE ReadUser(r)
    <3>1. Same /\ req'[r].step = "readStatus" /\ lock' = lock
      BY <2>2, <2>3, <2>14 DEF ReadUser, Same, TypeOK, Calls, Active, NoCall, Answered
    <3> QED
      BY <1>0, <2>2, <2>14, <3>1 DEF ReadUser, Same
  <2>15. CASE ReadStatus(r)
    <3>1. CASE Rollback(r)
      BY <1>1, <1>3, <2>1, <3>1, RollbackReq DEF Rollback
    <3>2. CASE ~ Rollback(r)
      <4>1. Same /\ req'[r].step = "setCompleted" /\ lock' = lock
        BY <2>4, <2>15, <3>2 DEF ReadStatus
      <4> QED
        BY <1>0, <2>2, <2>15, <4>1 DEF ReadStatus, Same
    <3> QED
      BY <3>1, <3>2
  <2>16. CASE SetCompleted(r)
    <3>1. lock' = Take(lock, LockOfCompletion(r), r) /\ Same /\ req'[r].step = "awardUser"
      BY <2>4, <2>16 DEF SetCompleted
    <3>2. req[r].op \in {"checkIn", "complete"}
      BY <2>2, <2>16 DEF StepOK, Calls, Ops, SetCompleted
    <3> QED
      BY <1>0, <1>2, <2>2, <2>16, <3>1, <3>2 DEF SetCompleted, Same
  <2>17. CASE AwardUser(r)
    <3>1. lock' = Take(lock, LockOfUser(r), r) /\ Same /\ req'[r].step = "commit"
      BY <2>2, <2>3, <2>17 DEF AwardUser, Same, TypeOK, Calls, Active, NoCall, Answered
    <3>2. req[r].op \in {"checkIn", "complete"}
      BY <2>2, <2>17 DEF StepOK, Calls, Ops, AwardUser
    <3> QED
      BY <1>0, <1>2, <2>2, <2>17, <3>1, <3>2 DEF AwardUser, Same
  <2>18. CASE Commit(r)
    <3>1. Same /\ req'[r].step = "emit"
      BY <2>4, <2>18 DEF Commit
    <3> QED
      BY <1>1, <2>18, <3>1 DEF Commit, Same
  <2>19. CASE Emit(r)
    BY <1>0, <1>3, <2>5, <2>19 DEF Emit
  <2> QED
    BY <1>6, <2>6, <2>7, <2>8, <2>9, <2>10, <2>11, <2>12, <2>13, <2>14, <2>15, <2>16, <2>17,
       <2>18, <2>19 DEF Serve
<1> QED
  BY <1>4, <1>5, <1>6 DEF Acts

\* A request owns exactly the rows its statements so far have locked: a row has
\* one writer, and the check-in key, the completion row and the user row are
\* locked in this order by every handler that locks them.
THEOREM LockCorrect == Spec => []LockInv
<1>1. Init => LockInv
  <2> SUFFICES ASSUME Init, NEW r \in Requests, NEW row \in Rows
               PROVE  lock[row] = r <=> Holds(r, row)
    BY DEF LockInv
  <2>1. lock[row] # r
    BY RequestsAssumption DEF Init, Unlocked, Requests
  <2>2. ~ Active(r)
    BY DEF Init, Active
  <2> QED
    BY <2>1, <2>2, NothingHeld DEF Holds
<1>2. TypeOK /\ StepInv /\ LockInv /\ [Next]_vars => LockInv'
  <2> SUFFICES ASSUME TypeOK, StepInv, LockInv, [Next]_vars PROVE LockInv'
    OBVIOUS
  <2>1. ASSUME NEW r \in Requests, Acts(r)
        PROVE  LockInv'
    <3>1. ASSUME NEW s \in Requests, s # r, NEW row \in Rows
          PROVE  lock'[row] = s <=> Holds(s, row)'
      <4>1. req'[s] = req[s]
        BY <2>1, <3>1, OthersStay
      <4>2. Holds(s, row)' <=> Holds(s, row)
        BY <4>1 DEF Holds, HoldsCheckIn, HoldsCompletion, HoldsUser, IsCheckInAt, IsCompleteAt,
           Active, LockOfCheckIn, LockOfCompletion, LockOfUser
      <4> QED
        BY <2>1, <3>1, <4>2, LockOthers DEF LockInv
    <3>2. \A row \in Rows : lock'[row] = r <=> Holds(r, row)'
      BY <2>1, LockOwn
    <3> QED
      BY <3>1, <3>2 DEF LockInv, Rows
  <2>2. ASSUME UNCHANGED <<req, lock>>
        PROVE  LockInv'
    BY <2>2 DEF LockInv, Holds, HoldsCheckIn, HoldsCompletion, HoldsUser, IsCheckInAt,
       IsCompleteAt, Active, LockOfCheckIn, LockOfCompletion, LockOfUser
  <2> QED
    BY <2>1, <2>2, NextSplit DEF UpdateStatus, vars
<1> QED
  BY <1>1, <1>2, TypeCorrect, StepCorrect, PTL DEF Spec
-----------------------------------------------------------------------------
(* No deadlock: a request waits for a user row only while it holds no user *)
(* row, for a completion only while it holds neither that nor a user row,  *)
(* for a check-in key only while it holds nothing.                         *)

\* The owner of a row that blocks somebody is a request that holds it.
LEMMA Blocker ==
  ASSUME TypeOK, LockInv, NEW r \in Requests, NEW row \in Rows, WaitsFor(r, row),
         lock[row] \in Requests
  PROVE  lock[row] # r /\ Holds(lock[row], row)
BY DEF WaitsFor, Free, LockInv

\* What a request holds tells which rows it can still be waiting for.
LEMMA HolderWaits ==
  ASSUME TypeOK, StepInv, LockInv, NEW s \in Requests, NEW row \in Rows, WaitsFor(s, row)
  PROVE  /\ ~ HoldsUser(s)
         /\ HoldsCompletion(s) => row = LockOfUser(s)
         /\ HoldsCheckIn(s) => row \in {LockOfUser(s), LockOfCompletion(s)}
<1>1. req[s].step \notin {"idle", "answered"}
  BY DEF WaitsFor, At
<1>2. Active(s) /\ StepOK(s)
  BY <1>1, ActiveType DEF StepInv
<1>3. ~ Holds(s, row)
  BY DEF WaitsFor, Free, LockInv
<1> USE DEF WaitsFor, At, HoldsUser, HoldsCompletion, HoldsCheckIn, IsCheckInAt, IsCompleteAt,
        AfterCreate, AfterPush, AfterVisit
<1>4. HoldsUser(s) => row # LockOfUser(s)
  BY <1>3 DEF Holds
<1>5. HoldsCompletion(s) => row # LockOfCompletion(s)
  BY <1>3 DEF Holds
<1> QED
  BY <1>1, <1>2, <1>4, <1>5 DEF StepOK, Finalizing

\* No set of requests waits only for each other, for any number of requests.
THEOREM NoDeadlock == Spec => []NoWaitCycle
<1>1. TypeOK /\ StepInv /\ LockInv => NoWaitCycle
  <2> SUFFICES ASSUME TypeOK, StepInv, LockInv, NEW S \in SUBSET Requests, NEW r0 \in S,
                      \A r \in S : \E row \in Rows : WaitsFor(r, row) /\ lock[row] \in S
               PROVE  FALSE
    BY DEF NoWaitCycle
  <2>1. ASSUME NEW r \in S, NEW row \in Rows, WaitsFor(r, row), lock[row] \in S,
               row = LockOfUser(r)
        PROVE  FALSE
    <3>1. Holds(lock[row], row)
      BY <2>1, Blocker
    <3>2. HoldsUser(lock[row])
      BY <2>1, <3>1 DEF Holds, LockOfUser, LockOfCompletion, LockOfCheckIn, UserRow,
         CompletionRow, CheckInKey
    <3> QED
      BY <2>1, <3>2, HolderWaits
  <2>2. ASSUME NEW r \in S, NEW row \in Rows, WaitsFor(r, row), lock[row] \in S,
               row = LockOfCompletion(r)
        PROVE  FALSE
    <3>1. Holds(lock[row], row)
      BY <2>2, Blocker
    <3>2. HoldsCompletion(lock[row])
      BY <2>2, <3>1 DEF Holds, LockOfUser, LockOfCompletion, LockOfCheckIn, UserRow,
         CompletionRow, CheckInKey
    <3> QED
      BY <2>1, <2>2, <3>2, HolderWaits
  <2>3. ASSUME NEW r \in S, NEW row \in Rows, WaitsFor(r, row), lock[row] \in S,
               row = LockOfCheckIn(r)
        PROVE  FALSE
    <3>1. Holds(lock[row], row)
      BY <2>3, Blocker
    <3>2. HoldsCheckIn(lock[row])
      BY <2>3, <3>1 DEF Holds, LockOfUser, LockOfCompletion, LockOfCheckIn, UserRow,
         CompletionRow, CheckInKey
    <3> QED
      BY <2>1, <2>2, <2>3, <3>2, HolderWaits
  <2> QED
    BY <2>1, <2>2, <2>3 DEF WaitsFor
<1> QED
  BY <1>1, TypeCorrect, StepCorrect, LockCorrect, PTL

-----------------------------------------------------------------------------
(* What the tables hold.                                                   *)

\* A request inside the transaction plays a quest that was started.
StartedInv ==
  \A r \in Requests :
    (Active(r) /\ req[r].step \in InTx \cup {"emit"}) => Row(r).status # "NONE"

\* From the insert to the commit nobody else checks the stop in.
NewStopInv ==
  \A r \in Requests :
    HoldsCheckIn(r) => req[r].stop \notin checkedIn[req[r].user]

IsLastStop(r) == StopsOf[req[r].quest] \subseteq checkedIn[req[r].user] \cup {req[r].stop}

\* The count stays right until the commit, since the completion row is locked.
CountInv ==
  \A r \in Requests :
    /\ IsCheckInAt(r, Finalizing) => IsLastStop(r)
    /\ IsCheckInAt(r, {"commit"}) => (req[r].finalized <=> IsLastStop(r))

HasRead(r) ==
  /\ Active(r)
  /\ \/ req[r].step \in {"readStatus", "setCompleted", "awardUser"}
     \/ req[r].step = "commit" /\ req[r].finalized

\* The XP a finalization computes its level from can only be too low.
ReadInv == \A r \in Requests : HasRead(r) => req[r].xpRead <= user[req[r].user].xp

-----------------------------------------------------------------------------
(* A request inside the transaction, before and after a step of its own.   *)

Passes(r, from, to) == req[r].step = from /\ req'[r].step = to

\* It keeps its call, and came from the step before.
LEMMA InTxStep ==
  ASSUME TypeOK, StepInv, NEW r \in Requests, Acts(r), Active(r)',
         req'[r].step \in InTx \cup {"emit"}
  PROVE  /\ Active(r) /\ StepOK(r) /\ req[r] \in Calls
         /\ req'[r].op = req[r].op
         /\ req'[r].user = req[r].user
         /\ req'[r].quest = req[r].quest
         /\ req'[r].stop = req[r].stop
         /\ \/ Passes(r, "findActive", IF req[r].op = "checkIn" THEN "findDuplicate" ELSE "readUser")
                 /\ FindActive(r) /\ Row(r).status = "STARTED"
            \/ Passes(r, "findDuplicate", "createCheckIn") /\ FindDuplicate(r)
            \/ Passes(r, "createCheckIn", "pushStop") /\ CreateCheckIn(r)
                 /\ req[r].stop \notin checkedIn[req[r].user]
            \/ Passes(r, "pushStop", "addVisit") /\ PushStop(r)
            \/ Passes(r, "addVisit", "countStops") /\ AddVisit(r)
            \/ Passes(r, "countStops", "readUser") /\ CountStops(r)
            \/ Passes(r, "countStops", "commit") /\ CountStops(r)
            \/ Passes(r, "readUser", "readStatus") /\ ReadUser(r)
            \/ Passes(r, "readStatus", "setCompleted") /\ ReadStatus(r)
            \/ Passes(r, "setCompleted", "awardUser") /\ SetCompleted(r)
            \/ Passes(r, "awardUser", "commit") /\ AwardUser(r) /\ req'[r].finalized
            \/ Passes(r, "commit", "emit") /\ Commit(r)
         /\ ~ AwardUser(r) => req'[r].finalized = req[r].finalized
         /\ ~ ReadUser(r) => req'[r].xpRead = req[r].xpRead
<1>1. CASE ReceiveAny(r)
  BY <1>1 DEF ReceiveAny, ReceiveStart, ReceiveComplete, ReceiveCheckIn, Receive, Call, Active,
     InTx, TypeOK
<1>2. CASE Die(r)
  BY <1>2, RollbackReq DEF Die, Active
<1>3. CASE Serve(r)
  <2> USE DEF At, Passes
  <2>1. req[r].step \notin {"idle", "answered"}
    BY <1>3 DEF Serve, UpsertCompletion, FindCheckIn, FindActive, FindDuplicate,
       CreateCheckIn, PushStop, AddVisit, CountStops, ReadUser, ReadStatus, SetCompleted,
       AwardUser, Commit, Emit
  <2>2. Active(r) /\ StepOK(r) /\ req[r] \in Calls
    BY <2>1, ActiveType DEF StepInv
  <2>3. req'[r] # Answered
    BY DEF Active
  <2> HIDE DEF Active
  <2>4. CASE UpsertCompletion(r)
    BY <2>1, <2>3, <2>4, GotoReq DEF UpsertCompletion
  <2>5. CASE FindCheckIn(r)
    BY <2>1, <2>3, <2>5, GotoReq DEF FindCheckIn, InTx
  <2>6. CASE FindActive(r)
    BY <2>1, <2>2, <2>3, <2>6, GotoReq DEF FindActive, AwardUser, ReadUser
  <2>7. CASE FindDuplicate(r)
    BY <2>1, <2>2, <2>3, <2>7, GotoReq DEF FindDuplicate, AwardUser, ReadUser
  <2>8. CASE CreateCheckIn(r)
    BY <2>1, <2>2, <2>3, <2>8, GotoReq, RollbackReq DEF CreateCheckIn, AwardUser, ReadUser
  <2>9. CASE PushStop(r)
    BY <2>1, <2>2, <2>3, <2>9, GotoReq DEF PushStop, AwardUser, ReadUser
  <2>10. CASE AddVisit(r)
    BY <2>1, <2>2, <2>3, <2>10, GotoReq DEF AddVisit, AwardUser, ReadUser
  <2>11. CASE CountStops(r)
    BY <2>1, <2>2, <2>3, <2>11, GotoReq DEF CountStops, AwardUser, ReadUser
  <2>12. CASE ReadUser(r)
    BY <2>2, <2>12 DEF ReadUser, AwardUser, Calls, TypeOK
  <2>13. CASE ReadStatus(r)
    BY <2>1, <2>2, <2>3, <2>13, GotoReq, RollbackReq DEF ReadStatus, AwardUser, ReadUser
  <2>14. CASE SetCompleted(r)
    BY <2>1, <2>2, <2>3, <2>14, GotoReq DEF SetCompleted, AwardUser, ReadUser
  <2>15. CASE AwardUser(r)
    BY <2>2, <2>15 DEF AwardUser, ReadUser, Calls, TypeOK
  <2>16. CASE Commit(r)
    BY <2>1, <2>2, <2>3, <2>16, GotoReq DEF Commit, AwardUser, ReadUser
  <2>17. CASE Emit(r)
    BY <2>1, <2>3, <2>17, GotoReq DEF Emit
  <2> QED
    BY <1>3, <2>4, <2>5, <2>6, <2>7, <2>8, <2>9, <2>10, <2>11, <2>12, <2>13, <2>14, <2>15,
       <2>16, <2>17 DEF Serve
<1> QED
  BY <1>1, <1>2, <1>3 DEF Acts

\* The row a transaction works on exists.
LEMMA StartedCorrect == Spec => []StartedInv
<1>1. Init => StartedInv
  BY DEF Init, StartedInv, Active
<1>2. TypeOK /\ StepInv /\ StartedInv /\ [Next]_vars => StartedInv'
  <2> SUFFICES ASSUME TypeOK, StepInv, StartedInv, [Next]_vars, NEW s \in Requests,
                      Active(s)', req'[s].step \in InTx \cup {"emit"}
               PROVE  Row(s)'.status # "NONE"
    BY DEF StartedInv
  <2>1. ASSUME req[s].user \in Users, req[s].quest \in Quests, Row(s).status # "NONE",
               req'[s].user = req[s].user, req'[s].quest = req[s].quest
        PROVE  Row(s)'.status # "NONE"
    BY <2>1, StatusStays DEF Row
  <2>2. CASE Acts(s)
    <3>1. Row(s).status # "NONE"
      <4>1. CASE FindActive(s) /\ Row(s).status = "STARTED"
        BY <4>1
      <4>2. CASE ~ (FindActive(s) /\ Row(s).status = "STARTED")
        BY <2>2, <4>2, InTxStep DEF Passes, InTx, StartedInv
      <4> QED
        BY <4>1, <4>2
    <3> QED
      BY <2>1, <2>2, <3>1, InTxStep DEF Calls
  <2>3. CASE req'[s] = req[s]
    <3>1. Active(s) /\ req[s].step \in InTx \cup {"emit"}
      BY <2>3 DEF Active
    <3>2. req[s] \in Calls
      BY <3>1 DEF TypeOK, Active
    <3> QED
      BY <2>1, <2>3, <3>1, <3>2 DEF StartedInv, Calls
  <2> QED
    BY <2>2, <2>3, NextSplit, OthersStay DEF UpdateStatus, vars
<1> QED
  BY <1>1, <1>2, TypeCorrect, StepCorrect, PTL DEF Spec

-----------------------------------------------------------------------------
(* What a commit does to the tables.                                       *)

\* It is the commit of a check-in or of complete(), which holds its rows.
LEMMA CommitCall ==
  ASSUME TypeOK, StepInv, NEW r \in Requests, Commit(r)
  PROVE  /\ Active(r) /\ req[r] \in Calls
         /\ \/ /\ req[r].op = "checkIn"
               /\ HoldsCheckIn(r) /\ HoldsCompletion(r) /\ HoldsUser(r)
               /\ req[r].stop \in StopsOf[req[r].quest]
            \/ /\ req[r].op = "complete" /\ req[r].finalized
               /\ HoldsCompletion(r) /\ HoldsUser(r)
<1>1. Active(r) /\ req[r] \in Calls /\ StepOK(r) /\ req[r].step = "commit"
  BY ActiveType DEF Commit, At, StepInv
<1>2. req[r].op \in {"checkIn", "complete"}
  BY <1>1 DEF StepOK, Calls, Ops
<1> QED
  BY <1>1, <1>2 DEF StepOK, HoldsCheckIn, HoldsCompletion, HoldsUser, IsCheckInAt,
     IsCompleteAt, AfterCreate, AfterPush, AfterVisit

\* A commit adds the stop of a check-in to those of its player.
LEMMA CommitVisits ==
  ASSUME TypeOK, StepInv, NEW r \in Requests, Commit(r), NEW u \in Users
  PROVE  checkedIn'[u] = IF req[r].op = "checkIn" /\ u = req[r].user
                         THEN checkedIn[u] \cup {req[r].stop} ELSE checkedIn[u]
BY CommitCall DEF Commit, TypeOK, Calls

\* One request at a time holds a row.
LEMMA OneHolder ==
  ASSUME LockInv, NEW r \in Requests, NEW s \in Requests, NEW row \in Rows,
         Holds(r, row), Holds(s, row)
  PROVE  r = s
BY DEF LockInv

\* The rows check-ins and finalizations hold are rows.
LEMMA HeldRows ==
  ASSUME TypeOK, NEW r \in Requests, Active(r)
  PROVE  /\ LockOfCompletion(r) \in Rows
         /\ LockOfUser(r) \in Rows
         /\ req[r].op = "checkIn" => LockOfCheckIn(r) \in Rows
<1>1. req[r] \in Calls
  BY DEF TypeOK, Active
<1>2. req[r].step \notin {"idle", "answered"}
  BY <1>1 DEF Calls, BeforeTx, InTx
<1>3. req[r].op = "checkIn" => req[r].stop \in Locations
  BY <1>1 DEF Calls
<1> QED
  BY <1>2, <1>3, RowsOf

\* Nobody checks the same stop in twice.
LEMMA NewStopCorrect == Spec => []NewStopInv
<1>1. Init => NewStopInv
  BY DEF Init, NewStopInv, HoldsCheckIn, IsCheckInAt, Active
<1>2. TypeOK /\ StepInv /\ LockInv /\ NewStopInv /\ [Next]_vars => NewStopInv'
  <2> SUFFICES ASSUME TypeOK, StepInv, LockInv, NewStopInv, [Next]_vars, NEW s \in Requests,
                      HoldsCheckIn(s)'
               PROVE  req'[s].stop \notin checkedIn'[req'[s].user]
    BY DEF NewStopInv
  <2>1. CASE Acts(s)
    <3>1. Active(s)' /\ req'[s].op = "checkIn" /\ req'[s].step \in AfterCreate
      BY DEF HoldsCheckIn, IsCheckInAt
    <3>2. \/ CreateCheckIn(s) /\ req[s].stop \notin checkedIn[req[s].user]
          \/ req[s].step \in AfterCreate
      BY <2>1, <3>1, InTxStep DEF Passes, AfterCreate, InTx
    <3>3. /\ req'[s].stop = req[s].stop /\ req'[s].user = req[s].user
          /\ req[s].op = "checkIn" /\ Active(s) /\ req[s].step # "commit"
      BY <2>1, <3>1, InTxStep DEF Passes, AfterCreate, InTx
    <3>4. req[s].stop \notin checkedIn[req[s].user]
      BY <3>2, <3>3 DEF NewStopInv, HoldsCheckIn, IsCheckInAt
    <3> QED
      BY <2>1, <3>3, <3>4, TablesStay DEF Commit, At
  <2>2. CASE req'[s] = req[s]
    <3>1. HoldsCheckIn(s) /\ Active(s)
      BY <2>2 DEF HoldsCheckIn, IsCheckInAt, Active
    <3>2. req[s].stop \notin checkedIn[req[s].user]
      BY <3>1 DEF NewStopInv
    <3>3. ASSUME NEW r \in Requests, Commit(r), r # s
          PROVE  req[s].stop \notin checkedIn'[req[s].user]
      <4>1. CASE req[r].op = "checkIn" /\ req[r].user = req[s].user /\ req[r].stop = req[s].stop
        <5>1. Holds(r, LockOfCheckIn(r)) /\ Holds(s, LockOfCheckIn(r)) /\ LockOfCheckIn(r) \in Rows
          BY <3>1, <3>3, <4>1, CommitCall, HeldRows DEF Holds, LockOfCheckIn
        <5> QED
          BY <3>3, <5>1, OneHolder
      <4>2. CASE ~ (req[r].op = "checkIn" /\ req[r].user = req[s].user /\ req[r].stop = req[s].stop)
        <5>1. req[s].user \in Users
          BY <3>1 DEF TypeOK, Active, Calls
        <5> QED
          BY <3>2, <3>3, <4>2, <5>1, CommitVisits
      <4> QED
        BY <4>1, <4>2
    <3>4. Commit(s) => FALSE
      BY <2>2, <3>1, GotoReq DEF Commit, At
    <3> QED
      BY <2>2, <3>2, <3>3, <3>4, NextSplit, TablesStay DEF UpdateStatus, vars
  <2> QED
    BY <2>1, <2>2, NextSplit, OthersStay DEF UpdateStatus, vars
<1> QED
  BY <1>1, <1>2, TypeCorrect, StepCorrect, LockCorrect, PTL DEF Spec

-----------------------------------------------------------------------------
(* Levels.                                                                 *)

\* A commit writes the user row of its own player only.
LEMMA CommitUser ==
  ASSUME TypeOK, NEW r \in Requests, Commit(r), NEW u \in Users
  PROVE  user'[u] = IF u = req[r].user THEN WrittenUser(r) ELSE user[u]
BY ActiveType DEF Commit, TypeOK

\* The user row as a commit leaves it, field by field.
LEMMA WrittenUserFields ==
  ASSUME TypeOK, NEW r \in Requests, Active(r)
  PROVE  /\ WrittenUser(r).xp = user[req[r].user].xp
              + (IF req[r].finalized THEN XpReward[req[r].quest] ELSE 0)
         /\ WrittenUser(r).questsDone = user[req[r].user].questsDone
              + (IF req[r].finalized THEN 1 ELSE 0)
         /\ WrittenUser(r).placesVisited = user[req[r].user].placesVisited
              + (IF req[r].op = "checkIn" THEN 1 ELSE 0)
         /\ WrittenUser(r).level = IF req[r].finalized
              THEN NewLevel(req[r].xpRead, XpReward[req[r].quest]) ELSE user[req[r].user].level
<1>1. req[r] \in Calls
  BY DEF TypeOK, Active
<1>2. user[req[r].user] \in [xp : Nat, level : Nat \ {0}, questsDone : Nat, placesVisited : Nat]
  BY <1>1 DEF TypeOK, Calls
<1> QED
  BY <1>1, <1>2 DEF WrittenUser, AwardedXp, Calls

\* XP only grows.
LEMMA XpGrows ==
  ASSUME TypeOK, [Next]_vars, NEW u \in Users
  PROVE  user[u].xp <= user'[u].xp
<1>1. user[u].xp \in Nat
  BY DEF TypeOK
<1>2. ASSUME NEW r \in Requests, Commit(r)
      PROVE  user[u].xp <= user'[u].xp
  <2>1. Active(r) /\ req[r] \in Calls
    BY <1>2, ActiveType DEF Commit, At
  <2>2. XpReward[req[r].quest] \in Nat
    BY <2>1, RewardAssumption DEF Calls
  <2> QED
    BY <1>1, <1>2, <2>1, <2>2, CommitUser, WrittenUserFields
<1> QED
  BY <1>1, <1>2, NextSplit, TablesStay DEF UpdateStatus, vars

\* The XP a finalization has read is at most the XP stored since.
LEMMA ReadCorrect == Spec => []ReadInv
<1>1. Init => ReadInv
  BY DEF Init, ReadInv, HasRead, Active
<1>2. TypeOK /\ StepInv /\ ReadInv /\ [Next]_vars => ReadInv'
  <2> SUFFICES ASSUME TypeOK, StepInv, ReadInv, [Next]_vars, NEW s \in Requests, HasRead(s)'
               PROVE  req'[s].xpRead <= user'[req'[s].user].xp
    BY DEF ReadInv
  <2>1. ASSUME HasRead(s), req'[s].xpRead = req[s].xpRead, req'[s].user = req[s].user
        PROVE  req'[s].xpRead <= user'[req'[s].user].xp
    <3>1. req[s] \in Calls
      BY <2>1 DEF HasRead, Active, TypeOK
    <3>2. req[s].user \in Users /\ req[s].xpRead \in Nat
      BY <3>1 DEF Calls
    <3>3. user[req[s].user].xp \in Nat /\ user'[req[s].user].xp >= user[req[s].user].xp
          /\ user'[req[s].user].xp \in Int
      <4>1. TypeOK'
        BY TypeStep
      <4> QED
        BY <3>2, <4>1, XpGrows DEF TypeOK
    <3> QED
      BY <2>1, <3>2, <3>3 DEF ReadInv
  <2>2. CASE Acts(s)
    <3>1. Active(s)' /\ (req'[s].step \in {"readStatus", "setCompleted", "awardUser"}
                          \/ (req'[s].step = "commit" /\ req'[s].finalized))
      BY DEF HasRead
    <3>2. CASE ReadUser(s)
      <4>1. req[s] \in Calls
        BY <3>2, ActiveType DEF ReadUser, At
      <4>2. req'[s].xpRead = user[req[s].user].xp /\ req'[s].user = req[s].user
        BY <3>2, <4>1 DEF ReadUser, TypeOK, Calls
      <4>3. user[req[s].user].xp \in Nat
        BY <4>1 DEF Calls, TypeOK
      <4> QED
        BY <3>2, <4>2, <4>3 DEF ReadUser
    <3>3. CASE ~ ReadUser(s)
      <4>1. HasRead(s)
        BY <2>2, <3>1, <3>3, InTxStep DEF Passes, InTx, HasRead, AwardUser, At, StepOK
      <4> QED
        BY <2>1, <2>2, <3>1, <3>3, <4>1, InTxStep DEF InTx
    <3> QED
      BY <3>2, <3>3
  <2>3. CASE req'[s] = req[s]
    BY <2>1, <2>3 DEF HasRead, Active
  <2> QED
    BY <2>2, <2>3, NextSplit, OthersStay DEF UpdateStatus, vars
<1> QED
  BY <1>1, <1>2, TypeCorrect, StepCorrect, PTL DEF Spec

\* Concurrent finalizations of any number of quests, each computing the level
\* from XP it read before it had a lock, never store a level the XP is not worth.
THEOREM LevelCorrect == Spec => []LevelNotAboveXp
<1>1. Init => LevelNotAboveXp
  BY DEF Init, LevelNotAboveXp, LevelFromXp, MIN_LEVEL
<1>2. TypeOK /\ StepInv /\ ReadInv /\ LevelNotAboveXp /\ [Next]_vars => LevelNotAboveXp'
  <2> SUFFICES ASSUME TypeOK, StepInv, ReadInv, LevelNotAboveXp, [Next]_vars, NEW u \in Users
               PROVE  user'[u].level <= LevelFromXp(user'[u].xp)
    BY DEF LevelNotAboveXp
  <2>1. ASSUME NEW r \in Requests, Commit(r), u = req[r].user
        PROVE  user'[u].level <= LevelFromXp(user'[u].xp)
    <3>1. Active(r) /\ req[r] \in Calls
      BY <2>1, ActiveType DEF Commit, At
    <3>2. XpReward[req[r].quest] \in Nat /\ req[r].xpRead \in Nat /\ user[u].xp \in Nat
      BY <2>1, <3>1, RewardAssumption DEF Calls, TypeOK
    <3>3. user'[u] = WrittenUser(r)
      BY <2>1, CommitUser
    <3>4. CASE req[r].finalized
      <4>1. req[r].xpRead <= user[u].xp
        BY <2>1, <3>1, <3>4 DEF ReadInv, HasRead, Commit, At
      <4> DEFINE a == req[r].xpRead + XpReward[req[r].quest]
                 b == user[u].xp + XpReward[req[r].quest]
      <4>2. a \in Nat /\ b \in Nat /\ a <= b
        BY <3>2, <4>1
      <4>3. user'[u].level = LevelFromXp(a) /\ user'[u].xp = b
        BY <2>1, <3>1, <3>3, <3>4, WrittenUserFields DEF NewLevel
      <4> HIDE DEF a, b
      <4> QED
        BY <4>2, <4>3, LevelMonotone
    <3>5. CASE ~ req[r].finalized
      <4>1. user'[u].level = user[u].level /\ user'[u].xp = user[u].xp
        BY <2>1, <3>1, <3>2, <3>3, <3>5, WrittenUserFields
      <4> QED
        BY <4>1 DEF LevelNotAboveXp
    <3> QED
      BY <3>4, <3>5
  <2>2. CASE user'[u] = user[u]
    BY <2>2 DEF LevelNotAboveXp
  <2> QED
    BY <2>1, <2>2, NextSplit, TablesStay, CommitUser DEF UpdateStatus, vars
<1> QED
  BY <1>1, <1>2, TypeCorrect, StepCorrect, ReadCorrect, PTL DEF Spec

-----------------------------------------------------------------------------
(* The count of a quest's check-ins.                                       *)

\* Sets of stops are finite, so their Cardinality counts them.
LEMMA StopsFinite ==
  ASSUME NEW S \in SUBSET Locations
  PROVE  IsFiniteSet(S)
BY UsersAssumption, FS_Subset

\* As many counted stops as the quest has means all of them.
LEMMA CountAll ==
  ASSUME TypeOK, NEW r \in Requests, req[r] \in Calls, req[r].stop \in StopsOf[req[r].quest]
  PROVE  Cardinality(CountedStops(r)) >= Cardinality(StopsOf[req[r].quest]) <=> IsLastStop(r)
<1> DEFINE S == StopsOf[req[r].quest]
<1>1. S \in SUBSET Locations /\ CountedStops(r) \subseteq S
  BY StopsAssumption DEF Calls, CountedStops
<1>2. IsFiniteSet(S)
  BY <1>1, StopsFinite
<1>3. IsFiniteSet(CountedStops(r)) /\ Cardinality(CountedStops(r)) <= Cardinality(S)
      /\ (Cardinality(CountedStops(r)) = Cardinality(S) => CountedStops(r) = S)
  BY <1>1, <1>2, FS_Subset
<1>4. Cardinality(S) \in Nat /\ Cardinality(CountedStops(r)) \in Nat
  BY <1>2, <1>3, FS_CardinalityType
<1>5. CountedStops(r) = S <=> IsLastStop(r)
  BY <1>1 DEF CountedStops, IsLastStop
<1> QED
  BY <1>3, <1>4, <1>5

\* A check-in finalizes exactly when it is the last one of its quest, and no
\* other check-in of the quest commits between its count and its commit.
LEMMA CountCorrect == Spec => []CountInv
<1>1. Init => CountInv
  BY DEF Init, CountInv, IsCheckInAt, Active
<1>2. TypeOK /\ StepInv /\ LockInv /\ CountInv /\ [Next]_vars => CountInv'
  <2> SUFFICES ASSUME TypeOK, StepInv, LockInv, CountInv, [Next]_vars, NEW s \in Requests
               PROVE  /\ IsCheckInAt(s, Finalizing)' => IsLastStop(s)'
                      /\ IsCheckInAt(s, {"commit"})' => (req'[s].finalized <=> IsLastStop(s)')
    BY DEF CountInv
  <2>1. CASE Acts(s)
    <3> SUFFICES ASSUME IsCheckInAt(s, Finalizing \cup {"commit"})'
                 PROVE  IsLastStop(s)' <=>
                          (req'[s].step \in Finalizing \/ req'[s].finalized)
      BY DEF IsCheckInAt, Finalizing
    <3>1. Active(s)' /\ req'[s].op = "checkIn" /\ req'[s].step \in Finalizing \cup {"commit"}
      BY DEF IsCheckInAt
    <3>2. Active(s) /\ StepOK(s) /\ req[s] \in Calls /\ req[s].op = "checkIn"
          /\ req'[s].stop = req[s].stop /\ req'[s].user = req[s].user
          /\ req'[s].quest = req[s].quest /\ req[s].step # "commit"
      BY <2>1, <3>1, InTxStep DEF InTx, Finalizing, Passes
    <3>3. IsLastStop(s)' <=> IsLastStop(s)
      BY <2>1, <3>2, TablesStay DEF IsLastStop, Commit, At
    <3>4. CASE CountStops(s)
      <4>1. req[s].step = "countStops" /\ ~ AwardUser(s) /\ ~ req'[s].finalized
        BY <2>1, <3>1, <3>2, <3>4, InTxStep DEF CountStops, AwardUser, At, InTx, Finalizing, StepOK
      <4>2. req'[s].step = "readUser" <=> IsLastStop(s)
        BY <3>2, <3>4, <4>1, CountAll, GotoReq DEF CountStops, StepOK
      <4>3. req'[s].step \in {"readUser", "commit"}
        BY <2>1, <3>1, <4>1, InTxStep DEF InTx, Finalizing, Passes
      <4> QED
        BY <3>3, <4>1, <4>2, <4>3 DEF Finalizing
    <3>5. CASE ~ CountStops(s)
      <4>1. req[s].step \in Finalizing
        BY <2>1, <3>1, <3>2, <3>5, InTxStep DEF InTx, Finalizing, Passes
      <4>2. req'[s].step = "commit" => req'[s].finalized
        BY <2>1, <3>1, <3>5, <4>1, InTxStep DEF InTx, Finalizing, Passes
      <4>3. IsLastStop(s)
        BY <3>2, <4>1 DEF CountInv, IsCheckInAt
      <4> QED
        BY <3>1, <3>3, <4>2, <4>3
    <3> QED
      BY <3>4, <3>5
  <2>2. CASE req'[s] = req[s]
    <3> SUFFICES ASSUME IsCheckInAt(s, Finalizing \cup {"commit"})
                 PROVE  IsLastStop(s)' <=> IsLastStop(s)
      BY <2>2 DEF CountInv, IsCheckInAt, Active, Finalizing
    <3>1. Active(s) /\ req[s] \in Calls /\ HoldsCompletion(s)
      BY DEF IsCheckInAt, Active, TypeOK, HoldsCompletion, AfterPush, AfterCreate, Finalizing
    <3>2. ASSUME NEW r \in Requests, Commit(r), r # s
          PROVE  IsLastStop(s)' <=> IsLastStop(s)
      <4>1. CASE req[r].op = "checkIn" /\ req[r].user = req[s].user
        <5>1. CASE req[r].quest = req[s].quest
          <6>1. Holds(r, LockOfCompletion(r)) /\ Holds(s, LockOfCompletion(r))
                /\ LockOfCompletion(r) \in Rows
            BY <3>1, <3>2, <4>1, <5>1, CommitCall, HeldRows DEF Holds, LockOfCompletion
          <6> QED
            BY <3>2, <6>1, OneHolder
        <5>2. CASE req[r].quest # req[s].quest
          <6>1. req[r].stop \notin StopsOf[req[s].quest]
            BY <3>1, <3>2, <4>1, <5>2, CommitCall, StopsAssumption DEF Calls
          <6>2. checkedIn'[req[s].user] = checkedIn[req[s].user] \cup {req[r].stop}
            BY <3>1, <3>2, <4>1, CommitVisits DEF Calls
          <6> QED
            BY <2>2, <6>1, <6>2 DEF IsLastStop
        <5> QED
          BY <5>1, <5>2
      <4>2. CASE ~ (req[r].op = "checkIn" /\ req[r].user = req[s].user)
        <5>1. checkedIn'[req[s].user] = checkedIn[req[s].user]
          BY <3>1, <3>2, <4>2, CommitVisits DEF Calls
        <5> QED
          BY <2>2, <5>1 DEF IsLastStop
      <4> QED
        BY <4>1, <4>2
    <3>3. Commit(s) => FALSE
      BY <2>2, <3>1, GotoReq DEF Commit, At
    <3>4. UNCHANGED checkedIn => (IsLastStop(s)' <=> IsLastStop(s))
      BY <2>2 DEF IsLastStop
    <3> QED
      BY <3>2, <3>3, <3>4, NextSplit, TablesStay DEF UpdateStatus, vars
  <2> QED
    BY <2>1, <2>2, NextSplit, OthersStay DEF UpdateStatus, vars, CountInv, IsCheckInAt, IsLastStop
<1> QED
  BY <1>1, <1>2, TypeCorrect, StepCorrect, LockCorrect, PTL DEF Spec

-----------------------------------------------------------------------------
(* The records of a visit.                                                 *)

\* One more stop, not there before.
LEMMA OneMore ==
  ASSUME NEW S \in SUBSET Locations, NEW l \in Locations, l \notin S
  PROVE  Cardinality(S \cup {l}) = Cardinality(S) + 1
BY StopsFinite, FS_AddElement

Elements(ids) == {ids[i] : i \in DOMAIN ids}

\* The elements of a sequence with one more at its end.
LEMMA AppendRange ==
  ASSUME NEW T, NEW ids \in Seq(T), NEW l \in T
  PROVE  /\ Len(Append(ids, l)) = Len(ids) + 1
         /\ Elements(Append(ids, l)) = Elements(ids) \cup {l}
<1> DEFINE new == Append(ids, l)
<1>1. Len(ids) \in Nat /\ DOMAIN ids = 1 .. Len(ids)
  OBVIOUS
<1>2. Len(new) = Len(ids) + 1 /\ DOMAIN new = 1 .. Len(ids) + 1
  OBVIOUS
<1>3. new[Len(ids) + 1] = l /\ \A i \in 1 .. Len(ids) : new[i] = ids[i]
  OBVIOUS
<1> HIDE DEF new
<1>4. ASSUME NEW i \in DOMAIN new
      PROVE  new[i] \in {ids[j] : j \in DOMAIN ids} \cup {l}
  BY <1>1, <1>2, <1>3, <1>4
<1>5. ASSUME NEW i \in DOMAIN ids
      PROVE  ids[i] \in {new[j] : j \in DOMAIN new}
  <2>1. i \in DOMAIN new /\ new[i] = ids[i]
    BY <1>1, <1>2, <1>3
  <2> QED
    BY <2>1
<1>6. l \in {new[j] : j \in DOMAIN new}
  <2>1. Len(ids) + 1 \in DOMAIN new
    BY <1>1, <1>2
  <2> QED
    BY <1>3, <2>1
<1> QED
  BY <1>2, <1>4, <1>5, <1>6 DEF new, Elements

\* The upsert leaves the rest of the row alone.
LEMMA UpsertFields ==
  ASSUME TypeOK, NEW r \in Requests, UpsertCompletion(r), NEW u \in Users, NEW q \in Quests
  PROVE  /\ completion'[u][q].checkedInLocationIds = completion[u][q].checkedInLocationIds
         /\ completion'[u][q].completedAtSet = completion[u][q].completedAtSet
<1>1. ASSUME NEW c \in Completions
      PROVE  /\ [c EXCEPT !.status = "STARTED"].checkedInLocationIds = c.checkedInLocationIds
             /\ [c EXCEPT !.status = "STARTED"].completedAtSet = c.completedAtSet
  BY DEF Completions
<1>2. completion[u][q] \in Completions
  BY DEF TypeOK
<1> QED
  BY <1>1, <1>2, UpsertRow

\* The completion row as a commit leaves it, field by field.
LEMMA WrittenRowFields ==
  ASSUME NEW r \in Requests
  PROVE  /\ WrittenRow(r).completedAtSet = (Row(r).completedAtSet \/ req[r].finalized)
         /\ WrittenRow(r).checkedInLocationIds =
              IF req[r].op = "checkIn" THEN Append(Row(r).checkedInLocationIds, req[r].stop)
                                       ELSE Row(r).checkedInLocationIds
BY DEF WrittenRow

\* The ids change only by a check-in of that player and quest.
LEMMA CommitIds ==
  ASSUME TypeOK, NEW r \in Requests, Commit(r), NEW u \in Users, NEW q \in Quests
  PROVE  completion'[u][q].checkedInLocationIds =
           IF req[r].op = "checkIn" /\ u = req[r].user /\ q = req[r].quest
           THEN Append(completion[u][q].checkedInLocationIds, req[r].stop)
           ELSE completion[u][q].checkedInLocationIds
<1>1. CASE u = req[r].user /\ q = req[r].quest
  <2>1. Row(r) = completion[u][q] /\ completion'[u][q] = WrittenRow(r)
    BY <1>1, CommitRow DEF Row
  <2> QED
    BY <1>1, <2>1, WrittenRowFields
<1>2. CASE ~ (u = req[r].user /\ q = req[r].quest)
  BY <1>2, CommitRow
<1> QED
  BY <1>1, <1>2

\* QuestCompletion.checkedInLocationIds and the check-in rows of u and q agree.
IdsAgree(u, q) ==
  LET ids == completion[u][q].checkedInLocationIds
  IN  /\ Elements(ids) = checkedIn[u] \cap StopsOf[q]
      /\ Len(ids) = Cardinality(checkedIn[u] \cap StopsOf[q])

\* The step that commits a check-in updates the three records alike.
LEMMA CommitAgrees ==
  ASSUME TypeOK, StepInv, NewStopInv, VisitsAgree, NEW r \in Requests, Commit(r), NEW u \in Users
  PROVE  /\ user'[u].placesVisited = Cardinality(checkedIn'[u])
         /\ \A q \in Quests : IdsAgree(u, q)'
<1>1. Active(r) /\ req[r] \in Calls /\ req[r].user \in Users
  BY CommitCall DEF Calls
<1>2. checkedIn[u] \in SUBSET Locations /\ user[u].placesVisited = Cardinality(checkedIn[u])
  BY DEF TypeOK, VisitsAgree
<1>3. ASSUME NEW q \in Quests
      PROVE  IdsAgree(u, q) /\ completion[u][q].checkedInLocationIds \in Seq(Locations)
  <2>1. completion[u][q] \in Completions
    BY DEF TypeOK
  <2> QED
    BY <2>1 DEF VisitsAgree, IdsAgree, Elements, Completions
<1>4. CASE req[r].op = "checkIn" /\ u = req[r].user
  <2>1. /\ req[r].stop \in Locations /\ req[r].stop \notin checkedIn[u]
        /\ req[r].stop \in StopsOf[req[r].quest] /\ req[r].quest \in Quests
    BY <1>1, <1>4, CommitCall DEF NewStopInv, Calls
  <2>2. checkedIn'[u] = checkedIn[u] \cup {req[r].stop}
    BY <1>4, CommitVisits
  <2>3. user'[u].placesVisited = user[u].placesVisited + 1
    BY <1>1, <1>4, CommitUser, WrittenUserFields
  <2>4. ASSUME NEW q \in Quests
        PROVE  IdsAgree(u, q)'
    <3>1. CASE q = req[r].quest
      <4>2. completion'[u][q].checkedInLocationIds
              = Append(completion[u][q].checkedInLocationIds, req[r].stop)
        BY <1>4, <3>1, CommitIds
      <4>3. checkedIn'[u] \cap StopsOf[q] = (checkedIn[u] \cap StopsOf[q]) \cup {req[r].stop}
        BY <2>1, <2>2, <3>1
      <4>4. Cardinality(checkedIn'[u] \cap StopsOf[q])
              = Cardinality(checkedIn[u] \cap StopsOf[q]) + 1
        BY <1>2, <2>1, <4>3, OneMore
      <4>5. LET ids == completion'[u][q].checkedInLocationIds
            IN  /\ Elements(ids) = checkedIn'[u] \cap StopsOf[q]
                /\ Len(ids) = Cardinality(checkedIn'[u] \cap StopsOf[q])
        <5> DEFINE ids == completion[u][q].checkedInLocationIds
        <5>1. ids \in Seq(Locations) /\ Elements(ids) = checkedIn[u] \cap StopsOf[q]
              /\ Len(ids) = Cardinality(checkedIn[u] \cap StopsOf[q])
          BY <1>3 DEF IdsAgree
        <5> HIDE DEF ids
        <5>2. completion'[u][q].checkedInLocationIds = Append(ids, req[r].stop)
          BY <4>2 DEF ids
        <5> DEFINE new == Append(ids, req[r].stop)
        <5>3. Len(new) = Len(ids) + 1
              /\ Elements(new) = Elements(ids) \cup {req[r].stop}
          <6>1. ids \in Seq(Locations) /\ req[r].stop \in Locations
            BY <2>1, <5>1
          <6> QED
            BY <6>1, AppendRange
        <5> HIDE DEF new
        <5>4. completion'[u][q].checkedInLocationIds = new
          BY <5>2 DEF new
        <5>5. Elements(new) = checkedIn'[u] \cap StopsOf[q]
          BY <4>3, <5>1, <5>3
        <5>6. Len(new) = Cardinality(checkedIn'[u] \cap StopsOf[q])
          BY <4>4, <5>1, <5>3
        <5> QED
          BY <5>4, <5>5, <5>6
      <4> QED
        BY <4>5 DEF IdsAgree
    <3>2. CASE q # req[r].quest
      <4>1. completion'[u][q] = completion[u][q]
        BY <3>2, CommitRow
      <4>2. checkedIn'[u] \cap StopsOf[q] = checkedIn[u] \cap StopsOf[q]
        BY <2>1, <2>2, <3>2, StopsAssumption
      <4> QED
        BY <1>3, <4>1, <4>2 DEF IdsAgree
    <3> QED
      BY <3>1, <3>2
  <2> QED
    BY <1>2, <2>1, <2>2, <2>3, <2>4, OneMore
<1>5. CASE ~ (req[r].op = "checkIn" /\ u = req[r].user)
  <2>1. checkedIn'[u] = checkedIn[u]
    BY <1>5, CommitVisits
  <2>2. user'[u].placesVisited = user[u].placesVisited
    <3>1. user[u].placesVisited \in Nat
      BY DEF TypeOK
    <3> QED
      BY <1>1, <1>5, <3>1, CommitUser, WrittenUserFields
  <2>3. ASSUME NEW q \in Quests
        PROVE  completion'[u][q].checkedInLocationIds = completion[u][q].checkedInLocationIds
    BY <1>5, CommitIds
  <2>4. ASSUME NEW q \in Quests
        PROVE  IdsAgree(u, q)'
    BY <1>3, <2>1, <2>3 DEF IdsAgree
  <2> QED
    BY <1>2, <2>1, <2>2, <2>4
<1> QED
  BY <1>4, <1>5

\* Check-in rows, visit counter and id list agree after every commit, however
\* many check-ins of however many players overlap.
THEOREM VisitsCorrect == Spec => []VisitsAgree
<1>1. Init => VisitsAgree
  <2> SUFFICES ASSUME Init, NEW u \in Users
               PROVE  /\ user[u].placesVisited = Cardinality(checkedIn[u])
                      /\ \A q \in Quests : IdsAgree(u, q)
    BY DEF VisitsAgree, IdsAgree, Elements
  <2>1. user[u].placesVisited = 0 /\ checkedIn[u] = {}
    BY DEF Init
  <2>2. Cardinality({}) = 0
    BY FS_EmptySet
  <2>3. ASSUME NEW q \in Quests
        PROVE  IdsAgree(u, q)
    <3>1. completion[u][q].checkedInLocationIds = << >>
      BY DEF Init
    <3> QED
      BY <2>1, <2>2, <3>1 DEF IdsAgree, Elements
  <2> QED
    BY <2>1, <2>2, <2>3
<1>2. TypeOK /\ StepInv /\ NewStopInv /\ VisitsAgree /\ [Next]_vars => VisitsAgree'
  <2> SUFFICES ASSUME TypeOK, StepInv, NewStopInv, VisitsAgree, [Next]_vars, NEW u \in Users
               PROVE  /\ user'[u].placesVisited = Cardinality(checkedIn'[u])
                      /\ \A q \in Quests : IdsAgree(u, q)'
    BY DEF VisitsAgree, IdsAgree, Elements
  <2>1. user[u].placesVisited = Cardinality(checkedIn[u]) /\ \A q \in Quests : IdsAgree(u, q)
    BY DEF VisitsAgree, IdsAgree, Elements
  <2>2. CASE UNCHANGED <<completion, checkedIn, user>>
    BY <2>1, <2>2 DEF IdsAgree
  <2>3. ASSUME NEW r \in Requests, UpsertCompletion(r)
        PROVE  \A q \in Quests : IdsAgree(u, q)' /\ UNCHANGED <<checkedIn, user>>
    <3>1. ASSUME NEW q \in Quests
          PROVE  IdsAgree(u, q)'
      <4>1. UNCHANGED checkedIn
        BY <2>3 DEF UpsertCompletion
      <4>2. completion'[u][q].checkedInLocationIds = completion[u][q].checkedInLocationIds
        BY <2>3, UpsertFields
      <4> QED
        BY <2>1, <4>1, <4>2 DEF IdsAgree
    <3> QED
      BY <2>3, <3>1 DEF UpsertCompletion
  <2> QED
    BY <2>1, <2>2, <2>3, NextSplit, TablesStay, CommitAgrees DEF UpdateStatus, vars, UpsertCompletion
<1> QED
  BY <1>1, <1>2, TypeCorrect, StepCorrect, NewStopCorrect, PTL DEF Spec

-----------------------------------------------------------------------------
(* The last check-in.                                                      *)

\* A commit after which every stop is checked in completes the quest.
LEMMA CommitCompletes ==
  ASSUME TypeOK, StepInv, CountInv, LastCheckInCompletes, NEW r \in Requests, Commit(r),
         NEW u \in Users, NEW q \in Quests, StopsOf[q] # {}, StopsOf[q] \subseteq checkedIn'[u]
  PROVE  completion'[u][q].completedAtSet
<1>1. CASE u = req[r].user /\ q = req[r].quest
  <2>1. completion'[u][q].completedAtSet <=> (completion[u][q].completedAtSet \/ req[r].finalized)
    <3>1. Row(r) = completion[u][q] /\ completion'[u][q] = WrittenRow(r)
      BY <1>1, CommitRow DEF Row
    <3> QED
      BY <3>1, WrittenRowFields
  <2>2. CASE req[r].op = "checkIn"
    <3>1. IsLastStop(r)
      BY <1>1, <2>2, CommitVisits DEF IsLastStop
    <3>2. IsCheckInAt(r, {"commit"})
      BY <2>2, CommitCall DEF IsCheckInAt, Commit, At
    <3> QED
      BY <2>1, <3>1, <3>2 DEF CountInv
  <2>3. CASE req[r].op # "checkIn"
    BY <2>1, <2>3, CommitCall
  <2> QED
    BY <2>2, <2>3
<1>2. CASE ~ (u = req[r].user /\ q = req[r].quest)
  <2>1. completion'[u][q] = completion[u][q]
    BY <1>2, CommitRow
  <2>2. StopsOf[q] \subseteq checkedIn[u]
    <3>1. CASE req[r].op = "checkIn" /\ u = req[r].user
      <4>1. q # req[r].quest /\ req[r].quest \in Quests /\ req[r].stop \in StopsOf[req[r].quest]
        BY <1>2, <3>1, CommitCall DEF Calls
      <4>2. req[r].stop \notin StopsOf[q]
        BY <4>1, StopsAssumption
      <4> QED
        BY <3>1, <4>2, CommitVisits
    <3>2. CASE ~ (req[r].op = "checkIn" /\ u = req[r].user)
      BY <3>2, CommitVisits
    <3> QED
      BY <3>1, <3>2
  <2> QED
    BY <2>1, <2>2 DEF LastCheckInCompletes
<1> QED
  BY <1>1, <1>2

\* Whichever of the concurrent check-ins commits last has counted all of them
\* and completes the quest.
THEOREM CompletionCorrect == Spec => []LastCheckInCompletes
<1>1. Init => LastCheckInCompletes
  BY DEF Init, LastCheckInCompletes
<1>2. TypeOK /\ StepInv /\ CountInv /\ LastCheckInCompletes /\ [Next]_vars
        => LastCheckInCompletes'
  <2> SUFFICES ASSUME TypeOK, StepInv, CountInv, LastCheckInCompletes, [Next]_vars,
                      NEW u \in Users, NEW q \in Quests,
                      StopsOf[q] # {}, StopsOf[q] \subseteq checkedIn'[u]
               PROVE  completion'[u][q].completedAtSet
    BY DEF LastCheckInCompletes
  <2>1. CASE UNCHANGED <<completion, checkedIn>>
    BY <2>1 DEF LastCheckInCompletes
  <2>2. ASSUME NEW r \in Requests, UpsertCompletion(r)
        PROVE  completion'[u][q].completedAtSet
    <3>1. UNCHANGED checkedIn
      BY <2>2 DEF UpsertCompletion
    <3>2. completion'[u][q].completedAtSet = completion[u][q].completedAtSet
      BY <2>2, UpsertFields
    <3> QED
      BY <3>1, <3>2 DEF LastCheckInCompletes
  <2> QED
    BY <2>1, <2>2, NextSplit, TablesStay, CommitCompletes DEF UpdateStatus, vars
<1> QED
  BY <1>1, <1>2, TypeCorrect, StepCorrect, CountCorrect, PTL DEF Spec

-----------------------------------------------------------------------------
(* Events.                                                                 *)

\* Requests that have committed and have still to emit.
ToEmit(u)          == {r \in Requests : Active(r) /\ req[r].step = "emit" /\ req[r].user = u}
ToEmitCompleted(u) == {r \in ToEmit(u) : req[r].finalized}
ToEmitCheckIn(u)   == {r \in ToEmit(u) : req[r].op = "checkIn"}

\* The counters cover the events emitted and those still to come.
EventInv ==
  \A u \in Users :
    /\ emitted[u].questCompleted + Cardinality(ToEmitCompleted(u)) <= user[u].questsDone
    /\ emitted[u].locationCheckedIn + Cardinality(ToEmitCheckIn(u)) <= user[u].placesVisited

\* Sets of requests are finite, so their Cardinality counts them.
LEMMA RequestsFinite ==
  ASSUME NEW S \in SUBSET Requests
  PROVE  IsFiniteSet(S) /\ Cardinality(S) \in Nat
<1>1. IsFiniteSet(Requests)
  BY FS_Interval, RequestsAssumption DEF Requests
<1> QED
  BY <1>1, FS_Subset, FS_CardinalityType

\* Taking a request away, adding one, or dropping some.
LEMMA CountRequests ==
  ASSUME NEW S \in SUBSET Requests, NEW T \in SUBSET Requests, NEW r \in Requests
  PROVE  /\ T \subseteq S => Cardinality(T) <= Cardinality(S)
         /\ (r \in S /\ T \subseteq S \ {r}) => Cardinality(T) + 1 <= Cardinality(S)
         /\ T \subseteq S \cup {r} => Cardinality(T) <= Cardinality(S) + 1
<1>1. IsFiniteSet(S) /\ IsFiniteSet(S \ {r}) /\ IsFiniteSet(S \cup {r})
      /\ Cardinality(S) \in Nat /\ Cardinality(T) \in Nat /\ Cardinality(S \ {r}) \in Nat
      /\ Cardinality(S \cup {r}) \in Nat
  BY RequestsFinite
<1>2. Cardinality(S \ {r}) = IF r \in S THEN Cardinality(S) - 1 ELSE Cardinality(S)
  BY <1>1, FS_RemoveElement
<1>3. Cardinality(S \cup {r}) = IF r \in S THEN Cardinality(S) ELSE Cardinality(S) + 1
  BY <1>1, FS_AddElement
<1>4. T \subseteq S => Cardinality(T) <= Cardinality(S)
  BY <1>1, FS_Subset
<1>5. T \subseteq S \ {r} => Cardinality(T) <= Cardinality(S \ {r})
  BY <1>1, FS_Subset
<1>6. T \subseteq S \cup {r} => Cardinality(T) <= Cardinality(S \cup {r})
  BY <1>1, FS_Subset
<1> QED
  BY <1>1, <1>2, <1>3, <1>4, <1>5, <1>6

\* Only a commit brings a request to its events, and only Emit emits.
LEMMA QuietStep ==
  ASSUME TypeOK, StepInv, NEW r \in Requests, Acts(r), ~ Commit(r), ~ Emit(r)
  PROVE  /\ UNCHANGED <<user, emitted>>
         /\ \A u \in Users : ToEmit(u)' \subseteq ToEmit(u) \ {r}
<1>1. UNCHANGED emitted
  BY DEF Acts, ReceiveAny, ReceiveStart, ReceiveComplete, ReceiveCheckIn, Receive, Serve,
     UpsertCompletion, FindCheckIn, FindActive, FindDuplicate, CreateCheckIn, PushStop, AddVisit,
     CountStops, ReadUser, ReadStatus, SetCompleted, AwardUser, Die, Rollback
<1>2. ~ (Active(r)' /\ req'[r].step = "emit")
  BY InTxStep DEF Passes
<1>3. ASSUME NEW u \in Users, NEW s \in ToEmit(u)'
      PROVE  s \in ToEmit(u) \ {r}
  <2>1. s \in Requests /\ Active(s)' /\ req'[s].step = "emit" /\ req'[s].user = u
    BY <1>3 DEF ToEmit
  <2>2. s # r
    BY <1>2, <2>1
  <2>3. req'[s] = req[s]
    BY <2>1, <2>2, OthersStay
  <2> QED
    BY <2>1, <2>2, <2>3 DEF ToEmit, Active
<1> QED
  BY <1>1, <1>3, TablesStay

\* A step of r leaves the other requests that have still to emit alone.
LEMMA ToEmitOthers ==
  ASSUME TypeOK, NEW r \in Requests, Acts(r), NEW u \in Users
  PROVE  /\ ToEmitCompleted(u)' \ {r} \subseteq ToEmitCompleted(u) \ {r}
         /\ ToEmitCheckIn(u)' \ {r} \subseteq ToEmitCheckIn(u) \ {r}
<1>1. \A s \in Requests \ {r} : req'[s] = req[s]
  BY OthersStay
<1> QED
  BY <1>1 DEF ToEmitCompleted, ToEmitCheckIn, ToEmit, Active

\* A commit counts what its request has still to emit.
LEMMA EventCommit ==
  ASSUME TypeOK, StepInv, EventInv, NEW r \in Requests, Commit(r)
  PROVE  EventInv'
<1>1. Active(r) /\ req[r] \in Calls /\ req[r].step = "commit" /\ UNCHANGED emitted
  BY CommitCall DEF Commit, At
<1>2. Acts(r)
  BY DEF Acts, Serve
<1>3. /\ req'[r].user = req[r].user
      /\ req'[r].op = req[r].op
      /\ req'[r].finalized = req[r].finalized
  BY <1>1, GotoReq DEF Commit
<1> SUFFICES ASSUME NEW u \in Users
             PROVE  /\ emitted[u].questCompleted + Cardinality(ToEmitCompleted(u)')
                          <= user'[u].questsDone
                    /\ emitted[u].locationCheckedIn + Cardinality(ToEmitCheckIn(u)')
                          <= user'[u].placesVisited
  BY <1>1 DEF EventInv
<1>4. /\ ToEmitCompleted(u) \in SUBSET Requests /\ ToEmitCompleted(u)' \in SUBSET Requests
      /\ ToEmitCheckIn(u) \in SUBSET Requests /\ ToEmitCheckIn(u)' \in SUBSET Requests
  BY DEF ToEmitCompleted, ToEmitCheckIn, ToEmit, Requests
<1>5. /\ Cardinality(ToEmitCompleted(u)) \in Nat /\ Cardinality(ToEmitCompleted(u)') \in Nat
      /\ Cardinality(ToEmitCheckIn(u)) \in Nat /\ Cardinality(ToEmitCheckIn(u)') \in Nat
  BY <1>4, RequestsFinite
<1>6. /\ emitted[u].questCompleted \in Nat /\ emitted[u].locationCheckedIn \in Nat
      /\ user[u].questsDone \in Nat /\ user[u].placesVisited \in Nat
  BY DEF TypeOK
<1>7. /\ emitted[u].questCompleted + Cardinality(ToEmitCompleted(u)) <= user[u].questsDone
      /\ emitted[u].locationCheckedIn + Cardinality(ToEmitCheckIn(u)) <= user[u].placesVisited
  BY DEF EventInv
<1>8. /\ ToEmitCompleted(u)' \subseteq ToEmitCompleted(u) \cup {r}
      /\ ToEmitCheckIn(u)' \subseteq ToEmitCheckIn(u) \cup {r}
  BY <1>2, ToEmitOthers
<1>9. CASE u = req[r].user
  <2>1. /\ user'[u].questsDone = user[u].questsDone + (IF req[r].finalized THEN 1 ELSE 0)
        /\ user'[u].placesVisited = user[u].placesVisited + (IF req[r].op = "checkIn" THEN 1 ELSE 0)
    BY <1>1, <1>9, CommitUser, WrittenUserFields
  <2>2. /\ ~ req[r].finalized => ToEmitCompleted(u)' \subseteq ToEmitCompleted(u)
        /\ req[r].op # "checkIn" => ToEmitCheckIn(u)' \subseteq ToEmitCheckIn(u)
    BY <1>3, <1>8 DEF ToEmitCompleted, ToEmitCheckIn
  <2>3. /\ Cardinality(ToEmitCompleted(u)')
             <= Cardinality(ToEmitCompleted(u)) + (IF req[r].finalized THEN 1 ELSE 0)
        /\ Cardinality(ToEmitCheckIn(u)')
             <= Cardinality(ToEmitCheckIn(u)) + (IF req[r].op = "checkIn" THEN 1 ELSE 0)
    BY <1>4, <1>5, <1>8, <2>2, CountRequests
  <2> QED
    BY <1>5, <1>6, <1>7, <2>1, <2>3
<1>10. CASE u # req[r].user
  <2>1. user'[u] = user[u]
    BY <1>10, CommitUser
  <2>2. /\ ToEmitCompleted(u)' \subseteq ToEmitCompleted(u)
        /\ ToEmitCheckIn(u)' \subseteq ToEmitCheckIn(u)
    BY <1>3, <1>8, <1>10 DEF ToEmitCompleted, ToEmitCheckIn, ToEmit
  <2>3. /\ Cardinality(ToEmitCompleted(u)') <= Cardinality(ToEmitCompleted(u))
        /\ Cardinality(ToEmitCheckIn(u)') <= Cardinality(ToEmitCheckIn(u))
    BY <1>4, <2>2, CountRequests
  <2> QED
    BY <1>5, <1>6, <1>7, <2>1, <2>3
<1> QED
  BY <1>9, <1>10

\* Emitting takes the request off those that have still to emit.
LEMMA EventEmit ==
  ASSUME TypeOK, StepInv, EventInv, NEW r \in Requests, Emit(r)
  PROVE  EventInv'
<1>1. Active(r) /\ req[r] \in Calls /\ req[r].step = "emit" /\ UNCHANGED user
  BY ActiveType DEF Emit, At
<1>2. Acts(r)
  BY DEF Acts, Serve
<1>3. req'[r] = Answered
  BY <1>1, GotoReq DEF Emit
<1> SUFFICES ASSUME NEW u \in Users
             PROVE  /\ emitted'[u].questCompleted + Cardinality(ToEmitCompleted(u)')
                          <= user[u].questsDone
                    /\ emitted'[u].locationCheckedIn + Cardinality(ToEmitCheckIn(u)')
                          <= user[u].placesVisited
  BY <1>1 DEF EventInv
<1>4. /\ ToEmitCompleted(u) \in SUBSET Requests /\ ToEmitCompleted(u)' \in SUBSET Requests
      /\ ToEmitCheckIn(u) \in SUBSET Requests /\ ToEmitCheckIn(u)' \in SUBSET Requests
  BY DEF ToEmitCompleted, ToEmitCheckIn, ToEmit, Requests
<1>5. /\ Cardinality(ToEmitCompleted(u)) \in Nat /\ Cardinality(ToEmitCompleted(u)') \in Nat
      /\ Cardinality(ToEmitCheckIn(u)) \in Nat /\ Cardinality(ToEmitCheckIn(u)') \in Nat
  BY <1>4, RequestsFinite
<1>6. /\ emitted[u].questCompleted \in Nat /\ emitted[u].locationCheckedIn \in Nat
      /\ user[u].questsDone \in Nat /\ user[u].placesVisited \in Nat
  BY DEF TypeOK
<1>7. /\ emitted[u].questCompleted + Cardinality(ToEmitCompleted(u)) <= user[u].questsDone
      /\ emitted[u].locationCheckedIn + Cardinality(ToEmitCheckIn(u)) <= user[u].placesVisited
  BY DEF EventInv
<1>8. /\ ToEmitCompleted(u)' \subseteq ToEmitCompleted(u) \ {r}
      /\ ToEmitCheckIn(u)' \subseteq ToEmitCheckIn(u) \ {r}
  <2>1. r \notin ToEmit(u)'
    BY <1>3 DEF ToEmit, Active
  <2> QED
    BY <1>2, <2>1, ToEmitOthers DEF ToEmitCompleted, ToEmitCheckIn
<1>9. CASE u = req[r].user
  <2>1. /\ emitted'[u].questCompleted
             = emitted[u].questCompleted + (IF req[r].finalized THEN 1 ELSE 0)
        /\ emitted'[u].locationCheckedIn
             = emitted[u].locationCheckedIn + (IF req[r].op = "checkIn" THEN 1 ELSE 0)
    BY <1>6, <1>9 DEF Emit, TypeOK
  <2>2. /\ req[r].finalized => r \in ToEmitCompleted(u)
        /\ req[r].op = "checkIn" => r \in ToEmitCheckIn(u)
    BY <1>1, <1>9 DEF ToEmitCompleted, ToEmitCheckIn, ToEmit
  <2>3. /\ Cardinality(ToEmitCompleted(u)') + (IF req[r].finalized THEN 1 ELSE 0)
             <= Cardinality(ToEmitCompleted(u))
        /\ Cardinality(ToEmitCheckIn(u)') + (IF req[r].op = "checkIn" THEN 1 ELSE 0)
             <= Cardinality(ToEmitCheckIn(u))
    BY <1>4, <1>5, <1>8, <2>2, CountRequests
  <2> QED
    BY <1>5, <1>6, <1>7, <2>1, <2>3
<1>10. CASE u # req[r].user
  <2>1. emitted'[u] = emitted[u]
    BY <1>10 DEF Emit, TypeOK
  <2>2. /\ Cardinality(ToEmitCompleted(u)') <= Cardinality(ToEmitCompleted(u))
        /\ Cardinality(ToEmitCheckIn(u)') <= Cardinality(ToEmitCheckIn(u))
    BY <1>4, <1>8, CountRequests
  <2> QED
    BY <1>5, <1>6, <1>7, <2>1, <2>2
<1> QED
  BY <1>9, <1>10

\* Where nothing is counted or emitted, requests may only drop out.
LEMMA EventQuiet ==
  ASSUME TypeOK, EventInv, UNCHANGED <<user, emitted>>,
         \A u \in Users : /\ ToEmitCompleted(u)' \subseteq ToEmitCompleted(u)
                          /\ ToEmitCheckIn(u)' \subseteq ToEmitCheckIn(u)
  PROVE  EventInv'
<1> SUFFICES ASSUME NEW u \in Users
             PROVE  /\ emitted[u].questCompleted + Cardinality(ToEmitCompleted(u)')
                          <= user[u].questsDone
                    /\ emitted[u].locationCheckedIn + Cardinality(ToEmitCheckIn(u)')
                          <= user[u].placesVisited
  BY DEF EventInv
<1>1. /\ ToEmitCompleted(u) \in SUBSET Requests /\ ToEmitCompleted(u)' \in SUBSET Requests
      /\ ToEmitCheckIn(u) \in SUBSET Requests /\ ToEmitCheckIn(u)' \in SUBSET Requests
  BY DEF ToEmitCompleted, ToEmitCheckIn, ToEmit, Requests
<1>2. /\ Cardinality(ToEmitCompleted(u)) \in Nat /\ Cardinality(ToEmitCompleted(u)') \in Nat
      /\ Cardinality(ToEmitCheckIn(u)) \in Nat /\ Cardinality(ToEmitCheckIn(u)') \in Nat
  BY <1>1, RequestsFinite
<1>3. /\ emitted[u].questCompleted \in Nat /\ emitted[u].locationCheckedIn \in Nat
      /\ user[u].questsDone \in Nat /\ user[u].placesVisited \in Nat
  BY DEF TypeOK
<1>4. /\ emitted[u].questCompleted + Cardinality(ToEmitCompleted(u)) <= user[u].questsDone
      /\ emitted[u].locationCheckedIn + Cardinality(ToEmitCheckIn(u)) <= user[u].placesVisited
  BY DEF EventInv
<1>5. /\ Cardinality(ToEmitCompleted(u)') <= Cardinality(ToEmitCompleted(u))
      /\ Cardinality(ToEmitCheckIn(u)') <= Cardinality(ToEmitCheckIn(u))
  <2>1. \A T, S \in SUBSET Requests : T \subseteq S => Cardinality(T) <= Cardinality(S)
    BY RequestsFinite, FS_Subset
  <2> QED
    BY <1>1, <2>1
<1> QED
  BY <1>2, <1>3, <1>4, <1>5

\* The bus never hears of more completions or check-ins than were committed,
\* whichever requests roll back or die, and at whatever step.
THEOREM EventsCorrect == Spec => []EventsFollowCommits
<1>1. Init => EventInv
  <2> SUFFICES ASSUME Init, NEW u \in Users
               PROVE  /\ 0 + Cardinality(ToEmitCompleted(u)) <= 0
                      /\ 0 + Cardinality(ToEmitCheckIn(u)) <= 0
    BY DEF Init, EventInv
  <2>1. ToEmitCompleted(u) = {} /\ ToEmitCheckIn(u) = {}
    BY DEF Init, ToEmitCompleted, ToEmitCheckIn, ToEmit, Active
  <2> QED
    BY <2>1, FS_EmptySet
<1>2. TypeOK /\ StepInv /\ EventInv /\ [Next]_vars => EventInv'
  <2> SUFFICES ASSUME TypeOK, StepInv, EventInv, [Next]_vars PROVE EventInv'
    OBVIOUS
  <2>1. ASSUME NEW r \in Requests, Acts(r), ~ Commit(r), ~ Emit(r)
        PROVE  EventInv'
    <3>1. \A u \in Users : /\ ToEmitCompleted(u)' \subseteq ToEmitCompleted(u)
                           /\ ToEmitCheckIn(u)' \subseteq ToEmitCheckIn(u)
      <4>1. \A u \in Users : r \notin ToEmit(u)'
        BY <2>1, QuietStep
      <4> QED
        BY <2>1, <4>1, ToEmitOthers DEF ToEmitCompleted, ToEmitCheckIn
    <3> QED
      BY <2>1, <3>1, QuietStep, EventQuiet
  <2>2. CASE UNCHANGED <<user, emitted, req>>
    <3>1. \A u \in Users : /\ ToEmitCompleted(u)' = ToEmitCompleted(u)
                           /\ ToEmitCheckIn(u)' = ToEmitCheckIn(u)
      BY <2>2 DEF ToEmitCompleted, ToEmitCheckIn, ToEmit, Active
    <3> QED
      BY <2>2, <3>1, EventQuiet
  <2> QED
    BY <2>1, <2>2, EventCommit, EventEmit, NextSplit DEF UpdateStatus, vars
<1>3. TypeOK /\ EventInv => EventsFollowCommits
  <2> SUFFICES ASSUME TypeOK, EventInv, NEW u \in Users
               PROVE  /\ emitted[u].questCompleted <= user[u].questsDone
                      /\ emitted[u].locationCheckedIn <= user[u].placesVisited
    BY DEF EventsFollowCommits
  <2>1. Cardinality(ToEmitCompleted(u)) \in Nat /\ Cardinality(ToEmitCheckIn(u)) \in Nat
    <3>1. ToEmitCompleted(u) \in SUBSET Requests /\ ToEmitCheckIn(u) \in SUBSET Requests
      BY DEF ToEmitCompleted, ToEmitCheckIn, ToEmit
    <3> QED
      BY <3>1, RequestsFinite
  <2> QED
    BY <2>1 DEF EventInv, TypeOK
<1> QED
  BY <1>1, <1>2, <1>3, TypeCorrect, StepCorrect, PTL DEF Spec

-----------------------------------------------------------------------------
(* The ledger: the upsert is Start, the commit of complete() is Finish,    *)
(* the commit of a check-in is Visit, and every other step changes nothing *)
(* the ledger shows. That the commit of the last check-in, and of no       *)
(* other, also finishes the quest is CountInv.                             *)

StatusMap  == [u \in Users |-> [q \in Quests |-> completion[u][q].status]]
AccountOf(u) == [xp            |-> user[u].xp,
                 questsDone    |-> user[u].questsDone,
                 placesVisited |-> user[u].placesVisited]
AccountMap == [u \in Users |-> AccountOf(u)]

\* One row's status changes, the others keep theirs.
LEMMA StatusUpdate ==
  ASSUME NEW u0 \in Users, NEW q0 \in Quests, NEW v,
         \A u \in Users, q \in Quests :
           completion'[u][q].status = IF u = u0 /\ q = q0 THEN v ELSE completion[u][q].status
  PROVE  StatusMap' = [StatusMap EXCEPT ![u0][q0] = v]
<1> DEFINE row(u) == [q \in Quests |-> completion[u][q].status]
           new(u) == [q \in Quests |-> completion'[u][q].status]
<1>1. ASSUME NEW u \in Users
      PROVE  new(u) = IF u = u0 THEN [row(u) EXCEPT ![q0] = v] ELSE row(u)
  <2>1. CASE u = u0
    BY <2>1
  <2>2. CASE u # u0
    BY <2>2
  <2> QED
    BY <2>1, <2>2
<1>2. StatusMap = [u \in Users |-> row(u)] /\ StatusMap' = [u \in Users |-> new(u)]
  BY DEF StatusMap
<1> HIDE DEF row, new
<1> QED
  BY <1>1, <1>2

\* Steps that keep every status keep what the ledger sees of them.
LEMMA StatusSame ==
  ASSUME \A u \in Users, q \in Quests : completion'[u][q].status = completion[u][q].status
  PROVE  StatusMap' = StatusMap
BY DEF StatusMap

\* Changing the account of one player is one EXCEPT of the ledger.
LEMMA AccountUpdate ==
  ASSUME NEW u0 \in Users, NEW a,
         \A u \in Users : AccountOf(u)' = IF u = u0 THEN a ELSE AccountOf(u)
  PROVE  AccountMap' = [AccountMap EXCEPT ![u0] = a]
BY DEF AccountMap

\* start changes one status, to STARTED.
LEMMA UpsertStatus ==
  ASSUME TypeOK, NEW r \in Requests, UpsertCompletion(r), NEW u \in Users, NEW q \in Quests
  PROVE  completion'[u][q].status = IF u = req[r].user /\ q = req[r].quest
                                    THEN "STARTED" ELSE completion[u][q].status
<1>1. ASSUME NEW c \in Completions
      PROVE  [c EXCEPT !.status = "STARTED"].status = "STARTED"
  BY DEF Completions
<1>2. completion[u][q] \in Completions
  BY DEF TypeOK
<1>3. CASE u = req[r].user /\ q = req[r].quest
  <2>1. completion'[u][q] = [completion[u][q] EXCEPT !.status = "STARTED"]
    BY <1>3, UpsertRow
  <2> QED
    BY <1>1, <1>2, <1>3, <2>1
<1>4. CASE ~ (u = req[r].user /\ q = req[r].quest)
  BY <1>4, UpsertRow
<1> QED
  BY <1>3, <1>4

\* A commit changes one status, to COMPLETED, and only if it finalized.
LEMMA CommitStatus ==
  ASSUME TypeOK, NEW r \in Requests, Commit(r)
  PROVE  /\ req[r].finalized =>
              StatusMap' = [StatusMap EXCEPT ![req[r].user][req[r].quest] = "COMPLETED"]
         /\ ~ req[r].finalized => StatusMap' = StatusMap
<1>1. req[r].user \in Users /\ req[r].quest \in Quests
  BY ActiveType DEF Commit, At
<1>2. ASSUME NEW u \in Users, NEW q \in Quests
      PROVE  completion'[u][q].status =
               IF u = req[r].user /\ q = req[r].quest /\ req[r].finalized
               THEN "COMPLETED" ELSE completion[u][q].status
  <2>1. WrittenRow(r).status = IF req[r].finalized THEN "COMPLETED" ELSE Row(r).status
    BY DEF WrittenRow
  <2>2. CASE u = req[r].user /\ q = req[r].quest
    <3>1. Row(r) = completion[u][q] /\ completion'[u][q] = WrittenRow(r)
      BY <2>2, CommitRow DEF Row
    <3> QED
      BY <2>1, <2>2, <3>1
  <2>3. CASE ~ (u = req[r].user /\ q = req[r].quest)
    BY <2>3, CommitRow
  <2> QED
    BY <2>2, <2>3
<1>3. ASSUME req[r].finalized
      PROVE  StatusMap' = [StatusMap EXCEPT ![req[r].user][req[r].quest] = "COMPLETED"]
  BY <1>1, <1>2, <1>3, StatusUpdate
<1>4. ASSUME ~ req[r].finalized
      PROVE  StatusMap' = StatusMap
  BY <1>2, <1>4, StatusSame
<1> QED
  BY <1>3, <1>4

\* A commit changes one account: the award if it finalized, the visit of a check-in.
LEMMA CommitAccount ==
  ASSUME TypeOK, NEW r \in Requests, Commit(r)
  PROVE  AccountMap' = [AccountMap EXCEPT ![req[r].user] =
           [xp            |-> user[req[r].user].xp
                                + (IF req[r].finalized THEN XpReward[req[r].quest] ELSE 0),
            questsDone    |-> user[req[r].user].questsDone
                                + (IF req[r].finalized THEN 1 ELSE 0),
            placesVisited |-> user[req[r].user].placesVisited
                                + (IF req[r].op = "checkIn" THEN 1 ELSE 0)]]
<1>1. Active(r) /\ req[r].user \in Users
  BY ActiveType DEF Commit, At
<1> DEFINE a == [xp            |-> user[req[r].user].xp
                                     + (IF req[r].finalized THEN XpReward[req[r].quest] ELSE 0),
                 questsDone    |-> user[req[r].user].questsDone
                                     + (IF req[r].finalized THEN 1 ELSE 0),
                 placesVisited |-> user[req[r].user].placesVisited
                                     + (IF req[r].op = "checkIn" THEN 1 ELSE 0)]
<1>2. ASSUME NEW u \in Users
      PROVE  AccountOf(u)' = IF u = req[r].user THEN a ELSE AccountOf(u)
  <2>1. user'[u] = IF u = req[r].user THEN WrittenUser(r) ELSE user[u]
    BY CommitUser
  <2> QED
    BY <1>1, <2>1, WrittenUserFields DEF AccountOf
<1> HIDE DEF a
<1>3. AccountMap' = [AccountMap EXCEPT ![req[r].user] = a]
  BY <1>1, <1>2, AccountUpdate
<1> QED
  BY <1>3 DEF a

\* Every step of the handlers is a step of the ledger or shows nothing.
LEMMA StepSimulates ==
  ASSUME TypeOK, StepInv, StartedInv, NewStopInv, CountInv, [Next]_vars
  PROVE  [Ledger!LedgerNext]_(Ledger!ledgerVars)
<1> USE DEF Ledger!LedgerNext, Ledger!ledgerVars
<1>1. ASSUME NEW r \in Requests, UpsertCompletion(r)
      PROVE  Ledger!LedgerNext
  <2>1. PICK u0 \in Users, q0 \in Quests : u0 = req[r].user /\ q0 = req[r].quest
    BY <1>1, ActiveType DEF UpsertCompletion, At
  <2>2. StatusMap' = [StatusMap EXCEPT ![u0][q0] = "STARTED"]
    <3>1. \A u \in Users, q \in Quests :
            completion'[u][q].status = IF u = u0 /\ q = q0 THEN "STARTED"
                                       ELSE completion[u][q].status
      BY <1>1, <2>1, UpsertStatus
    <3> QED
      BY <2>1, <3>1, StatusUpdate
  <2>3. UNCHANGED <<checkedIn, AccountMap>>
    BY <1>1 DEF UpsertCompletion, AccountMap, AccountOf
  <2>4. Ledger!Start(u0, q0)
    BY <2>2, <2>3 DEF Ledger!Start, StatusMap, AccountMap, AccountOf
  <2> QED
    BY <2>4
<1>2. ASSUME NEW r \in Requests, Commit(r)
      PROVE  Ledger!LedgerNext
  <2>0. Active(r) /\ req[r] \in Calls
    BY <1>2, CommitCall
  <2>1. PICK u0 \in Users, q0 \in Quests : u0 = req[r].user /\ q0 = req[r].quest
    BY <2>0 DEF Calls
  <2>2. StatusMap[u0][q0] # "NONE"
    <3>1. Row(r).status # "NONE"
      BY <1>2, <2>0 DEF StartedInv, Commit, At, InTx
    <3> QED
      BY <2>1, <3>1 DEF StatusMap, Row
  <2>3. AccountMap[u0] = [xp            |-> user[u0].xp,
                                   questsDone    |-> user[u0].questsDone,
                                   placesVisited |-> user[u0].placesVisited]
    BY <2>1 DEF AccountMap, AccountOf
  <2>4. /\ user[u0].xp \in Nat
        /\ user[u0].questsDone \in Nat
        /\ user[u0].placesVisited \in Nat
        /\ XpReward[q0] \in Nat
    BY <2>1, RewardAssumption DEF TypeOK, AccountMap, AccountOf
  <2>5. CASE req[r].op = "complete"
    <3>1. req[r].finalized
      BY <1>2, <2>5, CommitCall
    <3>2. UNCHANGED checkedIn
      BY <1>2, <2>5 DEF Commit
    <3>3. AccountMap' = [AccountMap EXCEPT ![u0] = Ledger!Rewarded(@, q0)]
      BY <1>2, <2>1, <2>3, <2>4, <2>5, <3>1, CommitAccount DEF Ledger!Rewarded
    <3>4. StatusMap' = [StatusMap EXCEPT ![u0][q0] = "COMPLETED"]
      BY <1>2, <2>1, <3>1, CommitStatus
    <3>5. Ledger!Finish(u0, q0)
      BY <2>2, <3>2, <3>3, <3>4 DEF Ledger!Finish, StatusMap, AccountMap, AccountOf
    <3> QED
      BY <3>5
  <2>6. CASE req[r].op = "checkIn"
    <3>0. PICK l \in Locations : l = req[r].stop
      BY <2>0, <2>6 DEF Calls
    <3>1. l \in StopsOf[q0] /\ l \notin checkedIn[u0]
      BY <1>2, <2>0, <2>1, <2>6, <3>0, CommitCall DEF NewStopInv, Calls
    <3>2. req[r].finalized <=> IsLastStop(r)
      BY <1>2, <2>0, <2>6 DEF CountInv, IsCheckInAt, Commit, At
    <3>3. checkedIn' = [checkedIn EXCEPT ![u0] = @ \cup {l}]
      BY <1>2, <2>1, <2>6, <3>0 DEF Commit
    <3>4. CASE req[r].finalized
      <4>1. AccountMap' = [AccountMap EXCEPT ![u0] = Ledger!Rewarded(Ledger!Visited(@), q0)]
        BY <1>2, <2>1, <2>3, <2>4, <2>6, <3>4, CommitAccount DEF Ledger!Rewarded, Ledger!Visited
      <4>2. StatusMap' = [StatusMap EXCEPT ![u0][q0] = "COMPLETED"]
        BY <1>2, <2>1, <3>4, CommitStatus
      <4>3. Ledger!Visit(u0, q0, l)
        BY <2>1, <2>2, <3>0, <3>1, <3>2, <3>3, <3>4, <4>1, <4>2
           DEF Ledger!Visit, StatusMap, AccountMap, AccountOf, IsLastStop
      <4> QED
        BY <3>0, <4>3
    <3>5. CASE ~ req[r].finalized
      <4>1. AccountMap' = [AccountMap EXCEPT ![u0] = Ledger!Visited(@)]
        BY <1>2, <2>1, <2>3, <2>4, <2>6, <3>5, CommitAccount DEF Ledger!Visited
      <4>2. StatusMap' = StatusMap
        BY <1>2, <2>1, <3>5, CommitStatus
      <4>3. Ledger!Visit(u0, q0, l)
        BY <2>1, <2>2, <3>0, <3>1, <3>2, <3>3, <3>5, <4>1, <4>2
           DEF Ledger!Visit, StatusMap, AccountMap, AccountOf, IsLastStop
      <4> QED
        BY <3>0, <4>3
    <3> QED
      BY <3>4, <3>5
  <2> QED
    BY <1>2, <2>5, <2>6, CommitCall
<1>3. CASE UNCHANGED <<completion, checkedIn, user>>
  BY <1>3
<1> QED
  BY <1>1, <1>2, <1>3, NextSplit, TablesStay DEF UpdateStatus, vars, UpsertCompletion

\* Between any two commits the tables are those of a system that serves every
\* request in one atomic step.
THEOREM LedgerRefined == Spec => ImplementsLedger
<1>1. Init => Ledger!LedgerInit
  BY DEF Init, Ledger!LedgerInit
<1>2. TypeOK /\ StepInv /\ StartedInv /\ NewStopInv /\ CountInv /\ [Next]_vars
        => [Ledger!LedgerNext]_(Ledger!ledgerVars)
  BY StepSimulates
<1> QED
  BY <1>1, <1>2, TypeCorrect, StepCorrect, StartedCorrect, NewStopCorrect, CountCorrect, PTL
     DEF Spec, ImplementsLedger, Ledger!Spec
=============================================================================
