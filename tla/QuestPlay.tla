------------------------------ MODULE QuestPlay ------------------------------
(***************************************************************************)
(* Playing a quest: POST /quests/:id/start, /quests/:id/complete and       *)
(* /quests/:id/locations/:locationId/check-in, as the handlers of          *)
(* quests.service.ts run against PostgreSQL.                               *)
(*                                                                         *)
(* Every await of a handler is a point where other requests, of the same   *)
(* or of another replica, run. A request is therefore one step per         *)
(* database statement, and its writes stay its own until it commits. A     *)
(* request that dies (process crash, lost connection, the transaction's    *)
(* 10 s timeout) rolls back what it has not committed.                     *)
(***************************************************************************)
EXTENDS Integers, Sequences, FiniteSets, Gamification, RowLocks

CONSTANTS
  Users,
  Quests,
  Locations,    \* QuestLocation rows
  StopsOf,      \* StopsOf[q] : quest q's locations, fixed when q is created
  XpReward,     \* XpReward[q] : XP for finishing q
  MaxRequests,  \* bound: how many requests arrive
  NoStop        \* the location of a request that names none

ASSUME UsersAssumption == IsFiniteSet(Locations) /\ NoStop \notin Locations

ASSUME StopsAssumption ==
  /\ StopsOf \in [Quests -> SUBSET Locations]
  /\ \A q1, q2 \in Quests : q1 # q2 => StopsOf[q1] \cap StopsOf[q2] = {}

ASSUME RewardAssumption == XpReward \in [Quests -> Nat]

ASSUME RequestsAssumption == MaxRequests \in Nat /\ NoRequest \notin 1 .. MaxRequests

VARIABLES
  published,    \* published[q] : Quest.status is PUBLISHED
  completion,   \* completion[u][q] : QuestCompletion row of u and q
  checkedIn,    \* checkedIn[u] : locations u has a QuestLocationCheckIn row for
  user,         \* user[u] : the counters of u's User row
  lock,         \* row locks
  req,          \* req[r] : the handler that serves request r
  emitted       \* emitted[u] : events put on the bus about u

vars == <<published, completion, checkedIn, user, lock, req, emitted>>

Requests == 1 .. MaxRequests

\* "NONE": there is no row. No caller of the repository writes ABANDONED or EXPIRED.
CompletionStatuses == {"NONE", "STARTED", "COMPLETED"}

Completions == [status : CompletionStatuses, completedAtSet : BOOLEAN,
                checkedInLocationIds : Seq(Locations)]

\* The endpoint a request calls.
Ops == {"start", "complete", "checkIn"}

\* What a statement can lock: a row by its key, or a key about to be inserted.
CompletionRow(u, q) == [table |-> "QuestCompletion", user |-> u, key |-> q]
UserRow(u)          == [table |-> "User", user |-> u, key |-> u]
CheckInKey(u, l)    == [table |-> "QuestLocationCheckIn", user |-> u, key |-> l]

Rows == {CompletionRow(u, q) : u \in Users, q \in Quests}
          \cup {UserRow(u) : u \in Users}
          \cup {CheckInKey(u, l) : u \in Users, l \in Locations}

\* The statement a request is about to run, in the order of the handlers.
BeforeTx == {"upsert", "findCheckIn", "findActive"}
InTx     == {"findDuplicate", "createCheckIn", "pushStop", "addVisit", "countStops",
             "readUser", "readStatus", "setCompleted", "awardUser", "commit"}

\* Before a request arrives and once it has ended there is nothing to remember.
NoCall   == [step |-> "idle"]
Answered == [step |-> "answered"]

Calls == {c \in [step : BeforeTx \cup InTx \cup {"emit"}, op : Ops, user : Users,
                 quest : Quests, stop : Locations \cup {NoStop}, xpRead : Nat,
                 finalized : BOOLEAN] : c.op = "checkIn" => c.stop \in Locations}

Init ==
  /\ published = [q \in Quests |-> TRUE]
  /\ completion = [u \in Users |-> [q \in Quests |->
       [status |-> "NONE", completedAtSet |-> FALSE, checkedInLocationIds |-> <<>>]]]
  /\ checkedIn = [u \in Users |-> {}]
  /\ user = [u \in Users |-> [xp |-> 0, level |-> MIN_LEVEL, questsDone |-> 0, placesVisited |-> 0]]
  /\ lock = Unlocked(Rows)
  /\ req = [r \in Requests |-> NoCall]
  /\ emitted = [u \in Users |-> [questCompleted |-> 0, locationCheckedIn |-> 0]]

\* Requests are numbered in the order they arrive.
IsNext(r) == req[r] = NoCall /\ \A s \in Requests : s < r => req[s] # NoCall

Call(op, u, q, l, step) ==
  IF step = "answered" THEN Answered ELSE
  [step |-> step, op |-> op, user |-> u, quest |-> q, stop |-> l,
   xpRead |-> 0, finalized |-> FALSE]

At(r, step) == req[r].step = step

Goto(r, step) ==
  req' = [req EXCEPT ![r] = IF step = "answered" THEN Answered ELSE [@ EXCEPT !.step = step]]

Row(r) == completion[req[r].user][req[r].quest]

LockOfCompletion(r) == CompletionRow(req[r].user, req[r].quest)
LockOfUser(r)       == UserRow(req[r].user)
LockOfCheckIn(r)    == CheckInKey(req[r].user, req[r].stop)

\* Faulty variant: the failed transaction is left open.
RollbackKeepingLocks(r) ==
  /\ Goto(r, "answered")
  /\ UNCHANGED <<published, completion, checkedIn, user, lock, emitted>>

\* The transaction throws: nothing of it stays and the request is answered.
Rollback(r) ==
  /\ lock' = Release(lock, r)
  /\ Goto(r, "answered")
  /\ UNCHANGED <<published, completion, checkedIn, user, emitted>>

-----------------------------------------------------------------------------
(* Requests as they arrive: the handler's first read, of the quest.        *)

Receive(r, call) ==
  /\ IsNext(r)
  /\ req' = [req EXCEPT ![r] = call]
  /\ UNCHANGED <<published, completion, checkedIn, user, lock, emitted>>

ReceiveStart(r, u, q) ==
  Receive(r, Call("start", u, q, NoStop,
                  IF published[q] THEN "upsert" ELSE "answered"))

\* complete() asks only that the quest exists.
ReceiveComplete(r, u, q) == Receive(r, Call("complete", u, q, NoStop, "findActive"))

\* withinRadius stands for the haversine distance against radiusM.
ReceiveCheckIn(r, u, q, l) ==
  \E withinRadius \in BOOLEAN :
    Receive(r, Call("checkIn", u, q, l,
                    IF published[q] /\ l \in StopsOf[q] /\ withinRadius
                    THEN "findCheckIn" ELSE "answered"))

-----------------------------------------------------------------------------
(* Before the transaction.                                                 *)

\* INSERT ... ON CONFLICT DO UPDATE, a transaction of its own: it restarts a
\* completed row too, and touches neither completedAt nor checkedInLocationIds.
UpsertCompletion(r) ==
  /\ At(r, "upsert")
  /\ Free(lock, LockOfCompletion(r), r)
  /\ completion' = [completion EXCEPT ![req[r].user][req[r].quest].status = "STARTED"]
  /\ Goto(r, "answered")
  /\ UNCHANGED <<published, checkedIn, user, lock, emitted>>

\* A stop already checked in is answered 200 and changes nothing.
FindCheckIn(r) ==
  /\ At(r, "findCheckIn")
  /\ Goto(r, IF req[r].stop \in checkedIn[req[r].user] THEN "answered" ELSE "findActive")
  /\ UNCHANGED <<published, completion, checkedIn, user, lock, emitted>>

FindActive(r) ==
  /\ At(r, "findActive")
  /\ Goto(r, IF Row(r).status # "STARTED" THEN "answered"
             ELSE IF req[r].op = "checkIn" THEN "findDuplicate" ELSE "readUser")
  /\ UNCHANGED <<published, completion, checkedIn, user, lock, emitted>>

-----------------------------------------------------------------------------
(* The check-in transaction up to its count of the quest's check-ins.      *)

FindDuplicate(r) ==
  /\ At(r, "findDuplicate")
  /\ Goto(r, IF req[r].stop \in checkedIn[req[r].user] THEN "answered" ELSE "createCheckIn")
  /\ UNCHANGED <<published, completion, checkedIn, user, lock, emitted>>

\* Faulty variant: the table without @@unique([userId, locationId]).
CreateCheckInUnchecked(r) ==
  /\ At(r, "createCheckIn")
  /\ Goto(r, "pushStop")
  /\ UNCHANGED <<published, completion, checkedIn, user, lock, emitted>>

\* Faulty variant: placesVisited incremented together with the check-in, before the completion row.
CreateCheckInAndVisit(r) ==
  /\ At(r, "createCheckIn")
  /\ Free(lock, LockOfCheckIn(r), r)
  /\ Free(lock, LockOfUser(r), r)
  /\ IF req[r].stop \in checkedIn[req[r].user]
     THEN Rollback(r)
     ELSE /\ lock' = Take(Take(lock, LockOfCheckIn(r), r), LockOfUser(r), r)
          /\ Goto(r, "pushStop")
          /\ UNCHANGED <<published, completion, checkedIn, user, emitted>>

\* @@unique([userId, locationId]): an insert of the key of an open transaction
\* waits for it, and one of a committed key throws.
CreateCheckIn(r) ==
  /\ At(r, "createCheckIn")
  /\ Free(lock, LockOfCheckIn(r), r)
  /\ IF req[r].stop \in checkedIn[req[r].user]
     THEN Rollback(r)
     ELSE /\ lock' = Take(lock, LockOfCheckIn(r), r)
          /\ Goto(r, "pushStop")
          /\ UNCHANGED <<published, completion, checkedIn, user, emitted>>

PushStop(r) ==
  /\ At(r, "pushStop")
  /\ Free(lock, LockOfCompletion(r), r)
  /\ lock' = Take(lock, LockOfCompletion(r), r)
  /\ Goto(r, "addVisit")
  /\ UNCHANGED <<published, completion, checkedIn, user, emitted>>

AddVisit(r) ==
  /\ At(r, "addVisit")
  /\ Free(lock, LockOfUser(r), r)
  /\ lock' = Take(lock, LockOfUser(r), r)
  /\ Goto(r, "countStops")
  /\ UNCHANGED <<published, completion, checkedIn, user, emitted>>

\* Faulty variant: a count on this.prisma, outside tx, does not see the request's own row.
CountOutsideTx(r) == checkedIn[req[r].user] \cap StopsOf[req[r].quest]

\* The rows tx sees: the committed ones and its own.
CountedStops(r) == (checkedIn[req[r].user] \cap StopsOf[req[r].quest]) \cup {req[r].stop}

CountStops(r) ==
  /\ At(r, "countStops")
  /\ Goto(r, IF Cardinality(CountedStops(r)) >= Cardinality(StopsOf[req[r].quest])
             THEN "readUser" ELSE "commit")
  /\ UNCHANGED <<published, completion, checkedIn, user, lock, emitted>>

-----------------------------------------------------------------------------
(* finalizeQuestCompletionTx: from complete() it holds no lock when it     *)
(* reads, from the last check-in it holds both rows.                       *)

ReadUser(r) ==
  /\ At(r, "readUser")
  /\ req' = [req EXCEPT ![r].xpRead = user[req[r].user].xp, ![r].step = "readStatus"]
  /\ UNCHANGED <<published, completion, checkedIn, user, lock, emitted>>

ReadStatus(r) ==
  /\ At(r, "readStatus")
  /\ IF Row(r).status \in {"NONE", "COMPLETED"}
     THEN Rollback(r)
     ELSE /\ Goto(r, "setCompleted")
          /\ UNCHANGED <<published, completion, checkedIn, user, lock, emitted>>

\* An UPDATE by key: the status read before is not part of its WHERE clause.
SetCompleted(r) ==
  /\ At(r, "setCompleted")
  /\ Free(lock, LockOfCompletion(r), r)
  /\ lock' = Take(lock, LockOfCompletion(r), r)
  /\ Goto(r, "awardUser")
  /\ UNCHANGED <<published, completion, checkedIn, user, emitted>>

\* Faulty variant: QuestCompleted emitted from inside the transaction.
AwardUserAndEmit(r) ==
  /\ At(r, "awardUser")
  /\ Free(lock, LockOfUser(r), r)
  /\ lock' = Take(lock, LockOfUser(r), r)
  /\ req' = [req EXCEPT ![r].finalized = TRUE, ![r].step = "commit"]
  /\ emitted' = [emitted EXCEPT ![req[r].user].questCompleted = @ + 1]
  /\ UNCHANGED <<published, completion, checkedIn, user>>

AwardUser(r) ==
  /\ At(r, "awardUser")
  /\ Free(lock, LockOfUser(r), r)
  /\ lock' = Take(lock, LockOfUser(r), r)
  /\ req' = [req EXCEPT ![r].finalized = TRUE, ![r].step = "commit"]
  /\ UNCHANGED <<published, completion, checkedIn, user, emitted>>

-----------------------------------------------------------------------------
(* Commit, the events after it, and everything else that can happen.       *)

\* The row as finalizeQuestCompletionTx and the check-in leave it.
WrittenRow(r) ==
  [status |-> IF req[r].finalized THEN "COMPLETED" ELSE Row(r).status,
   completedAtSet |-> Row(r).completedAtSet \/ req[r].finalized,
   checkedInLocationIds |->
     IF req[r].op = "checkIn" THEN Append(Row(r).checkedInLocationIds, req[r].stop)
                              ELSE Row(r).checkedInLocationIds]

\* Faulty variant: one level per finished quest.
NextLevel(xp, reward) == LevelFromXp(xp) + 1

\* newLevel: from the XP read before the transaction's first write.
NewLevel(xp, reward) == LevelFromXp(xp + reward)

\* Faulty variant: the absolute write of a value computed in the handler.
AwardedXpFromRead(r) == req[r].xpRead + XpReward[req[r].quest]

\* { increment: quest.xpReward }
AwardedXp(r) == user[req[r].user].xp + XpReward[req[r].quest]

WrittenUser(r) ==
  LET u == user[req[r].user]
      visits == IF req[r].op = "checkIn" THEN u.placesVisited + 1 ELSE u.placesVisited
  IN  IF req[r].finalized
      THEN [xp            |-> AwardedXp(r),
            level         |-> NewLevel(req[r].xpRead, XpReward[req[r].quest]),
            questsDone    |-> u.questsDone + 1,
            placesVisited |-> visits]
      ELSE [u EXCEPT !.placesVisited = visits]

Commit(r) ==
  /\ At(r, "commit")
  /\ completion' = [completion EXCEPT ![req[r].user][req[r].quest] = WrittenRow(r)]
  /\ user' = [user EXCEPT ![req[r].user] = WrittenUser(r)]
  /\ checkedIn' = IF req[r].op = "checkIn"
                  THEN [checkedIn EXCEPT ![req[r].user] = @ \cup {req[r].stop}]
                  ELSE checkedIn
  /\ lock' = Release(lock, r)
  /\ Goto(r, "emit")
  /\ UNCHANGED <<published, emitted>>

\* The bus is synchronous: the events of one request are one step. LevelUp has
\* no consumer that writes what is modelled here.
Emit(r) ==
  /\ At(r, "emit")
  /\ emitted' = [emitted EXCEPT ![req[r].user] =
       [questCompleted    |-> IF req[r].finalized THEN @.questCompleted + 1
                              ELSE @.questCompleted,
        locationCheckedIn |-> IF req[r].op = "checkIn" THEN @.locationCheckedIn + 1
                              ELSE @.locationCheckedIn]]
  /\ Goto(r, "answered")
  /\ UNCHANGED <<published, completion, checkedIn, user, lock>>

\* The process, the connection or the transaction's time limit ends the request.
\* What it committed stays, and the events it had still to emit are lost.
Die(r) ==
  /\ req[r].step \notin {"idle", "answered"}
  /\ Rollback(r)

\* PATCH /quests/:id sets and leaves PUBLISHED at any time.
UpdateStatus(q) ==
  /\ published' = [published EXCEPT ![q] = ~ @]
  /\ UNCHANGED <<completion, checkedIn, user, lock, req, emitted>>

Serve(r) ==
  \/ UpsertCompletion(r) \/ FindCheckIn(r) \/ FindActive(r)
  \/ FindDuplicate(r) \/ CreateCheckIn(r) \/ PushStop(r) \/ AddVisit(r) \/ CountStops(r)
  \/ ReadUser(r) \/ ReadStatus(r) \/ SetCompleted(r) \/ AwardUser(r)
  \/ Commit(r) \/ Emit(r)

Next ==
  \/ \E r \in Requests, u \in Users, q \in Quests :
       \/ ReceiveStart(r, u, q)
       \/ ReceiveComplete(r, u, q)
       \/ \E l \in Locations : ReceiveCheckIn(r, u, q, l)
  \/ \E r \in Requests : Serve(r) \/ Die(r)
  \/ \E q \in Quests : UpdateStatus(q)

\* Node's event loop resumes every request whose awaited statement has returned,
\* and PostgreSQL hands a released row to the waiters. Nothing obliges a client
\* to call, an author to edit a quest or a process to die.
Spec == Init /\ [][Next]_vars /\ \A r \in Requests : WF_vars(Serve(r))

-----------------------------------------------------------------------------
(* Properties.                                                             *)

\* The tables and the handlers hold what their types say, levels start at 1.
TypeOK ==
  /\ published \in [Quests -> BOOLEAN]
  /\ completion \in [Users -> [Quests -> Completions]]
  /\ checkedIn \in [Users -> SUBSET Locations]
  /\ user \in [Users -> [xp : Nat, level : Nat \ {0}, questsDone : Nat, placesVisited : Nat]]
  /\ lock \in [Rows -> Requests \cup {NoRequest}]
  /\ req \in [Requests -> Calls \cup {NoCall, Answered}]
  /\ emitted \in [Users -> [questCompleted : Nat, locationCheckedIn : Nat]]

\* The three records of a visit agree in every committed state: the check-in
\* rows, User.placesVisited and QuestCompletion.checkedInLocationIds, which
\* holds each stop of the quest checked in exactly once. checkInLocation writes
\* them by three statements, beside other check-ins of the same player.
VisitsAgree ==
  \A u \in Users :
    /\ user[u].placesVisited = Cardinality(checkedIn[u])
    /\ \A q \in Quests :
         LET ids == completion[u][q].checkedInLocationIds
         IN  /\ {ids[i] : i \in DOMAIN ids} = checkedIn[u] \cap StopsOf[q]
             /\ Len(ids) = Cardinality(checkedIn[u] \cap StopsOf[q])

\* However its check-ins interleave with each other and with complete(), a
\* quest whose every stop is checked in has been completed: the last check-in
\* to commit always counts all of them. It rests on the count in
\* checkInLocation coming after the update that locks the completion row.
LastCheckInCompletes ==
  \A u \in Users, q \in Quests :
    (StopsOf[q] # {} /\ StopsOf[q] \subseteq checkedIn[u]) => completion[u][q].completedAtSet

\* The stored level, computed from XP that may be stale by the time it is
\* written, never exceeds the level the stored XP is worth.
LevelNotAboveXp == \A u \in Users : user[u].level <= LevelFromXp(user[u].xp)

\* Events tell only of what committed: the bus never hears of more completions
\* or check-ins than the User row counts, whatever rolled back or died.
EventsFollowCommits ==
  \A u \in Users : /\ emitted[u].questCompleted <= user[u].questsDone
                   /\ emitted[u].locationCheckedIn <= user[u].placesVisited

\* The row a request waits for.
WaitsFor(r, row) ==
  /\ \/ At(r, "createCheckIn") /\ row = LockOfCheckIn(r)
     \/ req[r].step \in {"upsert", "pushStop", "setCompleted"} /\ row = LockOfCompletion(r)
     \/ req[r].step \in {"addVisit", "awardUser"} /\ row = LockOfUser(r)
  /\ ~Free(lock, row, r)

\* No set of requests whose every member waits for a row of another: the
\* check-in and the completion lock their rows in one order, so PostgreSQL
\* never has to break a deadlock by aborting a player's transaction.
NoWaitCycle ==
  ~ \E S \in SUBSET Requests :
      /\ S # {}
      /\ \A r \in S : \E row \in Rows : WaitsFor(r, row) /\ lock[row] \in S

\* Every request that arrives is answered or dies: no lock outlives its request
\* and no handler waits for ever. MaxRequests arrive, so in the end none is open.
EveryRequestAnswered == <>[](\A r \in Requests : req[r] \in {NoCall, Answered})

\* The promise of the error message of complete(): a quest is finished only
\* from the STARTED state, which the same step leaves.
FinishOnlyStarted ==
  [][\A u \in Users : user'[u].questsDone > user[u].questsDone =>
       \E q \in Quests : /\ completion[u][q].status = "STARTED"
                         /\ completion'[u][q].status = "COMPLETED"]_vars

\* What a player sees of it all: the abstract ledger of module QuestLedger.
Ledger == INSTANCE QuestLedger WITH
  status  <- [u \in Users |-> [q \in Quests |-> completion[u][q].status]],
  visited <- checkedIn,
  account <- [u \in Users |-> [xp            |-> user[u].xp,
                              questsDone    |-> user[u].questsDone,
                              placesVisited |-> user[u].placesVisited]]

\* Between any two commits the tables are those of a system that serves each
\* request in one atomic step: a check-in, its visit and, exactly when it is
\* the last, its award appear together; no award overwrites another.
ImplementsLedger == Ledger!Spec
=============================================================================
