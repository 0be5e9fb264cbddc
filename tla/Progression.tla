---------------------------- MODULE Progression ----------------------------
(***************************************************************************)
(* The three writers of User.xp and User.level and how they meet:          *)
(*                                                                         *)
(*   award       finalizeQuestCompletionTx of quests.service.ts            *)
(*   evaluation  evaluateForUser and unlock of achievements.service.ts     *)
(*   referral    consumeReferralInviteTx of invites.service.ts, for the    *)
(*               inviter, whose row other requests write at the same time  *)
(*                                                                         *)
(* A task is one of them at work, one step per database statement. The     *)
(* event bus calls its listeners synchronously and nobody awaits them, so  *)
(* the evaluation an event starts goes on where the emitting task ends.    *)
(* Row locks and commits are those of QuestPlay.                           *)
(***************************************************************************)
EXTENDS Integers, Sequences, FiniteSets, Gamification, RowLocks

CONSTANTS
  Users,
  Achievements,
  Definitions,  \* the achievements in the order listAll returns them
  Metric,       \* Metric[a] : what the criteria of a measure
  Minimum,      \* Minimum[a] : the min... number of its criteria
  TargetValue,  \* TargetValue[a] : the progress of an unlocked row, 0 if the column is null
  XpBonus,      \* XpBonus[a]
  XpReward,     \* XP for finishing a quest
  MaxTasks      \* bound: how many tasks start

\* "quests" is QUEST_COUNT, or any of the types that are computed from COMPLETED
\* rows; "xp" is XP_THRESHOLD by minXp; "other" is SOCIAL and STREAK, whose numbers other
\* modules move up and down.
Metrics == {"quests", "xp", "other"}

REFERRAL_XP == 50

ASSUME DefinitionsAssumption == Definitions \in Seq(Achievements) /\ Len(Definitions) > 0

ASSUME CriteriaAssumption ==
  /\ Metric \in [Achievements -> Metrics]
  /\ Minimum \in [Achievements -> Nat \ {0}]
  /\ TargetValue \in [Achievements -> Nat]
  /\ XpBonus \in [Achievements -> Nat]

ASSUME XpAssumption == XpReward \in Nat

ASSUME TasksAssumption == MaxTasks \in Nat /\ NoRequest \notin 1 .. MaxTasks

VARIABLES
  user,         \* user[u] : XP, level and number of COMPLETED QuestCompletion rows
  achieved,     \* achieved[u][a] : UserAchievement row of u and a
  lock,         \* row locks
  task,         \* task[t] : award, evaluation or referral t
  history       \* history[u] : what was granted and announced, kept for the properties

vars == <<user, achieved, lock, task, history>>

Tasks == 1 .. MaxTasks

UserRecords == [xp : Nat, level : Nat \ {0}, questsCompleted : Nat]

HistoryRecords == [granted : Nat, referred : BOOLEAN, announced : Nat \ {0}, lost : BOOLEAN]

UserAchievementRows == [exists : BOOLEAN, unlocked : BOOLEAN, progress : Nat]

NoRow == [exists |-> FALSE, unlocked |-> FALSE, progress |-> 0]

InProgress(n) == [exists |-> TRUE, unlocked |-> FALSE, progress |-> n]

AchievementRow(u, a) == [table |-> "UserAchievement", user |-> u, key |-> a]
UserRow(u)           == [table |-> "User", user |-> u, key |-> u]

Rows == {AchievementRow(u, a) : u \in Users, a \in Achievements} \cup {UserRow(u) : u \in Users}

\* The statement a task runs next.
AwardSteps      == {"readXp", "writeAward", "commitAward", "emitAward"}
ReferralSteps   == {"readInviter", "writeBonus", "commitReferral", "emitReferral"}
EvaluationSteps == {"find", "measure", "update", "create"}
UnlockSteps     == {"readLevel", "upsert", "addXp", "commitUnlock", "readAfter"}

Idle  == [step |-> "idle"]
Ended == [step |-> "ended"]

TaskRecords == [step : AwardSteps \cup ReferralSteps \cup EvaluationSteps \cup UnlockSteps,
                user : Users, xpRead : Nat, levelRead : Nat, at : 1 .. Len(Definitions),
                seen : UserAchievementRows, progress : Nat]

TaskAt(step, u, i) == [step |-> step, user |-> u, xpRead |-> 0, levelRead |-> 0, at |-> i,
                       seen |-> NoRow, progress |-> 0]

\* What evaluations before a player's first quest leave: only friends and
\* streaks have numbers then.
EarlierRows(a) ==
  {NoRow} \cup IF Metric[a] = "other" THEN {InProgress(n) : n \in 1 .. Minimum[a] - 1} ELSE {}

Init ==
  /\ user = [u \in Users |-> [xp |-> 0, level |-> MIN_LEVEL, questsCompleted |-> 0]]
  /\ achieved \in [Users -> {rows \in [Achievements -> UNION {EarlierRows(a) : a \in Achievements}] :
                                \A a \in Achievements : rows[a] \in EarlierRows(a)}]
  /\ lock = Unlocked(Rows)
  /\ task = [t \in Tasks |-> Idle]
  /\ history = [u \in Users |-> [granted |-> 0, referred |-> FALSE, announced |-> MIN_LEVEL,
                                 lost |-> FALSE]]

At(t, step) == task[t].step = step

Goto(t, step) == task' = [task EXCEPT ![t].step = step]

Open(t) == task[t] \notin {Idle, Ended}

Player(t)      == task[t].user
Definition(t)  == Definitions[task[t].at]
Existing(t)    == achieved[Player(t)][Definition(t)]
LockOfRow(t)   == AchievementRow(Player(t), Definition(t))
LockOfUser(t)  == UserRow(Player(t))

\* The LevelUp event: the highest level u was ever told of.
Announced(u, level) == IF level > history[u].announced THEN level ELSE history[u].announced

\* Tasks are numbered in the order they start.
Start(t, u, step) ==
  /\ task[t] = Idle /\ \A s \in Tasks : s < t => task[s] # Idle
  /\ task' = [task EXCEPT ![t] = TaskAt(step, u, 1)]
  /\ UNCHANGED <<user, achieved, lock, history>>

\* complete() of a started quest, or the last check-in of one.
StartAward(t, u) == Start(t, u, "readXp")

\* A registration that has claimed u's invite.
StartReferral(t, u) == Start(t, u, "readInviter")

\* QuestLocationCheckedIn, which the last check-in emits besides QuestCompleted,
\* or FriendRequestAccepted.
StartEvaluation(t, u) == Start(t, u, "find")

\* Every open task of one process ends with it, and its transactions roll back.
Crash(t) ==
  \E S \in SUBSET {s \in Tasks : Open(s)} :
    /\ t \in S
    /\ lock' = [row \in Rows |-> IF lock[row] \in S THEN NoRequest ELSE lock[row]]
    /\ task' = [s \in Tasks |-> IF s \in S THEN Ended ELSE task[s]]
    /\ history' = [u \in Users |-> [history[u] EXCEPT !.lost =
                     @ \/ \E s \in S : Player(s) = u]]
    /\ UNCHANGED <<user, achieved>>

-----------------------------------------------------------------------------
(* An award: the level is computed from XP read before the row is locked.  *)

ReadXp(t) ==
  /\ At(t, "readXp")
  /\ task' = [task EXCEPT ![t].xpRead = user[Player(t)].xp, ![t].step = "writeAward"]
  /\ UNCHANGED <<user, achieved, lock, history>>

\* Faulty variant: LevelUp emitted from inside the transaction.
WriteAwardAndEmit(t) ==
  /\ At(t, "writeAward")
  /\ Free(lock, LockOfUser(t), t)
  /\ lock' = Take(lock, LockOfUser(t), t)
  /\ history' = [history EXCEPT ![Player(t)].announced =
                   Announced(Player(t), LevelFromXp(task[t].xpRead + XpReward))]
  /\ Goto(t, "commitAward")
  /\ UNCHANGED <<user, achieved>>

WriteAward(t) ==
  /\ At(t, "writeAward")
  /\ Free(lock, LockOfUser(t), t)
  /\ lock' = Take(lock, LockOfUser(t), t)
  /\ Goto(t, "commitAward")
  /\ UNCHANGED <<user, achieved, history>>

\* Faulty variant: the increment replaced by the sum computed from the read.
AwardedXpFromRead(t) == task[t].xpRead + XpReward

\* { increment: quest.xpReward }
AwardedXp(t) == user[Player(t)].xp + XpReward

\* Faulty variant: one level per finished quest.
AwardedNextLevel(t) == LevelFromXp(task[t].xpRead) + 1

AwardedLevel(t) == LevelFromXp(task[t].xpRead + XpReward)

\* The row this award completes is counted already if another request has
\* finished the same quest since this one read its status.
CommitAward(t) ==
  /\ At(t, "commitAward")
  /\ \E newlyCompleted \in BOOLEAN :
       /\ newlyCompleted \/ user[Player(t)].questsCompleted > 0
       /\ user' = [user EXCEPT ![Player(t)] =
            [xp              |-> AwardedXp(t),
             level           |-> AwardedLevel(t),
             questsCompleted |-> IF newlyCompleted THEN @.questsCompleted + 1
                                                   ELSE @.questsCompleted]]
  /\ history' = [history EXCEPT ![Player(t)].granted = @ + XpReward]
  /\ lock' = Release(lock, t)
  /\ Goto(t, "emitAward")
  /\ UNCHANGED achieved

\* QuestCompleted, on which evaluateForUser begins, and LevelUp.
EmitAward(t) ==
  /\ At(t, "emitAward")
  /\ task' = [task EXCEPT ![t] = TaskAt("find", Player(t), 1)]
  /\ history' = IF AwardedLevel(t) > LevelFromXp(task[t].xpRead)
                THEN [history EXCEPT ![Player(t)].announced = Announced(Player(t), AwardedLevel(t))]
                ELSE history
  /\ UNCHANGED <<user, achieved, lock>>

-----------------------------------------------------------------------------
(* A referral: XP and level are both written as computed from the read.    *)

ReadInviter(t) ==
  /\ At(t, "readInviter")
  /\ task' = [task EXCEPT ![t].xpRead = user[Player(t)].xp,
                          ![t].levelRead = user[Player(t)].level, ![t].step = "writeBonus"]
  /\ UNCHANGED <<user, achieved, lock, history>>

WriteBonus(t) ==
  /\ At(t, "writeBonus")
  /\ Free(lock, LockOfUser(t), t)
  /\ lock' = Take(lock, LockOfUser(t), t)
  /\ Goto(t, "commitReferral")
  /\ UNCHANGED <<user, achieved, history>>

InviterXp(t) == task[t].xpRead + REFERRAL_XP

CommitReferral(t) ==
  /\ At(t, "commitReferral")
  /\ user' = [user EXCEPT ![Player(t)].xp = InviterXp(t),
                          ![Player(t)].level = LevelFromXp(InviterXp(t))]
  /\ history' = [history EXCEPT ![Player(t)].granted = @ + REFERRAL_XP,
                                ![Player(t)].referred = TRUE]
  /\ lock' = Release(lock, t)
  /\ Goto(t, "emitReferral")
  /\ UNCHANGED achieved

\* FriendRequestAccepted, on which the inviter is evaluated first, and LevelUp.
EmitReferral(t) ==
  /\ At(t, "emitReferral")
  /\ task' = [task EXCEPT ![t] = TaskAt("find", Player(t), 1)]
  /\ history' = IF LevelFromXp(InviterXp(t)) > task[t].levelRead
                THEN [history EXCEPT ![Player(t)].announced =
                        Announced(Player(t), LevelFromXp(InviterXp(t)))]
                ELSE history
  /\ UNCHANGED <<user, achieved, lock>>

-----------------------------------------------------------------------------
(* An evaluation: one definition after the other.                          *)

\* The loop's next turn, or the end of the listener.
Continue(t) ==
  task' = [task EXCEPT ![t] = IF @.at = Len(Definitions) THEN Ended
                              ELSE TaskAt("find", @.user, @.at + 1)]

Find(t) ==
  /\ At(t, "find")
  /\ IF Existing(t).unlocked
     THEN Continue(t)
     ELSE task' = [task EXCEPT ![t].seen = Existing(t), ![t].step = "measure"]
  /\ UNCHANGED <<user, achieved, lock, history>>

\* What evaluateWithProgress may read for a.
Measured(u, a) ==
  CASE Metric[a] = "quests" -> {user[u].questsCompleted}
    [] Metric[a] = "xp"     -> {user[u].xp}
    [] Metric[a] = "other"  -> 0 .. Minimum[a]

\* Faulty variant: the minimum must be exceeded.
EarnedBeyond(a, n) == n > Minimum[a]

Earned(a, n) == n >= Minimum[a]

Measure(t) ==
  /\ At(t, "measure")
  /\ \E n \in Measured(Player(t), Definition(t)) :
       \/ /\ Earned(Definition(t), n)
          /\ Goto(t, "readLevel")
       \/ /\ ~ Earned(Definition(t), n) /\ n # task[t].seen.progress
          /\ task' = [task EXCEPT ![t].progress = n,
                                  ![t].step = IF task[t].seen.exists THEN "update" ELSE "create"]
       \/ /\ ~ Earned(Definition(t), n) /\ n = task[t].seen.progress
          /\ Continue(t)
  /\ UNCHANGED <<user, achieved, lock, history>>

\* Faulty variant: the row written back as it was read.
UpdateWholeRow(t) ==
  /\ At(t, "update")
  /\ Free(lock, LockOfRow(t), t)
  /\ achieved' = [achieved EXCEPT ![Player(t)][Definition(t)] =
                    [task[t].seen EXCEPT !.progress = task[t].progress]]
  /\ Continue(t)
  /\ UNCHANGED <<user, lock, history>>

\* An UPDATE of the progress alone, also of a row unlocked since it was read.
Update(t) ==
  /\ At(t, "update")
  /\ Free(lock, LockOfRow(t), t)
  /\ achieved' = [achieved EXCEPT ![Player(t)][Definition(t)] =
                    [@ EXCEPT !.progress = task[t].progress]]
  /\ Continue(t)
  /\ UNCHANGED <<user, lock, history>>

\* @@unique([userId, achievementId]): of two creates the second throws. Nobody
\* awaits the listener, so its rejection ends the process.
Create(t) ==
  /\ At(t, "create")
  /\ Free(lock, LockOfRow(t), t)
  /\ IF Existing(t).exists
     THEN Crash(t)
     ELSE /\ achieved' = [achieved EXCEPT ![Player(t)][Definition(t)] =
                            InProgress(task[t].progress)]
          /\ Continue(t)
          /\ UNCHANGED <<user, lock, history>>

-----------------------------------------------------------------------------
(* unlock()                                                                *)

ReadLevel(t) ==
  /\ At(t, "readLevel")
  /\ task' = [task EXCEPT ![t].levelRead = user[Player(t)].level, ![t].step = "upsert"]
  /\ UNCHANGED <<user, achieved, lock, history>>

\* INSERT ... ON CONFLICT DO UPDATE: it unlocks an unlocked row once more.
Upsert(t) ==
  /\ At(t, "upsert")
  /\ Free(lock, LockOfRow(t), t)
  /\ lock' = Take(lock, LockOfRow(t), t)
  /\ Goto(t, IF XpBonus[Definition(t)] > 0 THEN "addXp" ELSE "commitUnlock")
  /\ UNCHANGED <<user, achieved, history>>

\* Both updates of the user row: from the first to the commit it is t's.
AddXp(t) ==
  /\ At(t, "addXp")
  /\ Free(lock, LockOfUser(t), t)
  /\ lock' = Take(lock, LockOfUser(t), t)
  /\ Goto(t, "commitUnlock")
  /\ UNCHANGED <<user, achieved, history>>

UnlockedUser(t) ==
  LET u  == user[Player(t)]
      xp == u.xp + XpBonus[Definition(t)]
  IN  IF XpBonus[Definition(t)] > 0 THEN [u EXCEPT !.xp = xp, !.level = LevelFromXp(xp)] ELSE u

\* AchievementUnlocked, emitted right after the commit, has only the notifications
\* for a listener.
CommitUnlock(t) ==
  /\ At(t, "commitUnlock")
  /\ achieved' = [achieved EXCEPT ![Player(t)][Definition(t)] =
                    [exists |-> TRUE, unlocked |-> TRUE, progress |-> TargetValue[Definition(t)]]]
  /\ user' = [user EXCEPT ![Player(t)] = UnlockedUser(t)]
  /\ history' = [history EXCEPT ![Player(t)].granted = @ + XpBonus[Definition(t)]]
  /\ lock' = Release(lock, t)
  /\ IF XpBonus[Definition(t)] > 0 THEN Goto(t, "readAfter") ELSE Continue(t)

\* LevelUp, if the level stored now is above the one read before the transaction.
ReadAfter(t) ==
  /\ At(t, "readAfter")
  /\ history' = IF user[Player(t)].level > task[t].levelRead
                THEN [history EXCEPT ![Player(t)].announced =
                        Announced(Player(t), user[Player(t)].level)]
                ELSE history
  /\ Continue(t)
  /\ UNCHANGED <<user, achieved, lock>>

-----------------------------------------------------------------------------

\* start() on a completed quest makes its row STARTED again.
Restart(u) ==
  /\ user[u].questsCompleted > 0
  /\ user' = [user EXCEPT ![u].questsCompleted = @ - 1]
  /\ UNCHANGED <<achieved, lock, task, history>>

Run(t) ==
  \/ ReadXp(t) \/ WriteAward(t) \/ CommitAward(t) \/ EmitAward(t)
  \/ ReadInviter(t) \/ WriteBonus(t) \/ CommitReferral(t) \/ EmitReferral(t)
  \/ Find(t) \/ Measure(t) \/ Update(t) \/ Create(t)
  \/ ReadLevel(t) \/ Upsert(t) \/ AddXp(t) \/ CommitUnlock(t) \/ ReadAfter(t)

Next ==
  \/ \E t \in Tasks, u \in Users :
       StartAward(t, u) \/ StartReferral(t, u) \/ StartEvaluation(t, u)
  \/ \E t \in Tasks : Run(t) \/ Crash(t)
  \/ \E u \in Users : Restart(u)

\* Node resumes every task whose statement has returned. Nobody has to finish a
\* quest or to restart one, and no process has to crash.
Spec == Init /\ [][Next]_vars /\ \A t \in Tasks : WF_vars(Run(t))

-----------------------------------------------------------------------------
(* Properties.                                                             *)

\* Tables and tasks hold what their types say, levels start at 1.
TypeOK ==
  /\ user \in [Users -> UserRecords]
  /\ achieved \in [Users -> [Achievements -> UserAchievementRows]]
  /\ lock \in [Rows -> Tasks \cup {NoRequest}]
  /\ task \in [Tasks -> TaskRecords \cup {Idle, Ended}]
  /\ history \in [Users -> HistoryRecords]

\* Awards and bonuses that commit in any order all arrive in User.xp, none twice
\* and none overwritten, until a referral writes the inviter's XP as an absolute
\* value. Even then XP is never made out of nothing.
XpAccounted ==
  \A u \in Users : /\ user[u].xp <= history[u].granted
                   /\ ~ history[u].referred => user[u].xp = history[u].granted

\* Whatever levels finalizations compute from stale XP, and whatever levels
\* bonuses store in between, the stored level is not above what the XP is worth,
\* as long as XP is only incremented.
LevelNotAboveXp ==
  \A u \in Users : ~ history[u].referred => user[u].level <= LevelFromXp(user[u].xp)

\* LevelUp never tells of a level the player's committed XP does not reach: not
\* of an award that rolls back, nor of a level that was read too early.
LevelUpTruthful ==
  \A u \in Users : ~ history[u].referred => history[u].announced <= LevelFromXp(user[u].xp)

\* An unlocked achievement stays unlocked, though another evaluation may hold a
\* copy of its row from before and still write to it.
UnlockIsFinal ==
  [][\A u \in Users, a \in Achievements : achieved[u][a].unlocked => achieved'[u][a].unlocked]_vars

\* A player who has for good completed enough quests gets the achievement, unless
\* a task about the player died: of the evaluations that overlap, the one that
\* began after the last of these completions sees them all.
EarnedIsUnlocked ==
  \A u \in Users, a \in Achievements :
    (Metric[a] = "quests" /\ \E i \in DOMAIN Definitions : Definitions[i] = a)
      => (<>[](user[u].questsCompleted >= Minimum[a])
            => <>(achieved[u][a].unlocked \/ history[u].lost))

\* events.types.ts says of LevelUp that it is emitted when a user crosses a level
\* boundary: once the tasks are over, the level of a player's XP was announced.
CrossingAnnounced ==
  \A u \in Users :
    ((\A t \in Tasks : ~ Open(t)) /\ ~ history[u].lost)
      => history[u].announced >= LevelFromXp(user[u].xp)
=============================================================================
