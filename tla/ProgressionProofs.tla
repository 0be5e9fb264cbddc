------------------------- MODULE ProgressionProofs -------------------------
(***************************************************************************)
(* What awards, evaluations and referrals leave in User.xp and User.level, *)
(* for any number of players, achievements and tasks and any XP amounts.   *)
(*                                                                         *)
(* Types come first. The XP theorem rests on ReadInv: XP read by an open   *)
(* task is XP that was granted and, as long as XP is only incremented, no  *)
(* more than what is stored. The level theorems follow from it and from    *)
(* the monotony of the curve.                                              *)
(***************************************************************************)
EXTENDS Progression, FiniteSetTheorems, WellFoundedInduction, TLAPS

AllSteps == AwardSteps \cup ReferralSteps \cup EvaluationSteps \cup UnlockSteps

-----------------------------------------------------------------------------
(* The XP curve, for every amount of XP.                                   *)

\* levelFromXp never answers a level below 1.
LEMMA LevelType ==
  ASSUME NEW xp \in Nat
  PROVE  LevelFromXp(xp) \in Nat \ {0}
<1> DEFINE fit == {n \in 1 .. (xp \div XpStep) : XpStep * (n * n) <= xp}
<1>1. IsFiniteSet(1 .. (xp \div XpStep))
  BY FS_Interval DEF XpStep
<1>2. Cardinality(fit) \in Nat
  <2>1. fit \in SUBSET (1 .. (xp \div XpStep))
    OBVIOUS
  <2> QED
    BY <1>1, <2>1, FS_Subset, FS_CardinalityType
<1> QED
  BY <1>2 DEF LevelFromXp, Root, MIN_LEVEL

\* More XP never means a lower level: a square that fits in less fits in more.
THEOREM LevelMonotone ==
  ASSUME NEW a \in Nat, NEW b \in Nat, a <= b
  PROVE  LevelFromXp(a) <= LevelFromXp(b)
<1> DEFINE fit(xp) == {n \in 1 .. (xp \div XpStep) : XpStep * (n * n) <= xp}
<1>1. CASE a = 0
  <2>1. LevelFromXp(a) = 1
    BY <1>1 DEF LevelFromXp, MIN_LEVEL
  <2> QED
    BY <2>1, LevelType
<1>2. CASE a > 0
  <2>1. fit(a) \in SUBSET fit(b)
    <3>1. a \div XpStep <= b \div XpStep
      BY SMT DEF XpStep
    <3>2. ASSUME NEW n \in 1 .. (a \div XpStep), XpStep * (n * n) <= a
          PROVE  n \in 1 .. (b \div XpStep) /\ XpStep * (n * n) <= b
      <4>1. n * n \in Nat
        OBVIOUS
      <4> QED
        BY <3>1, <3>2, <4>1, SMT DEF XpStep
    <3> QED
      BY <3>2
  <2>2. IsFiniteSet(fit(b))
    <3>1. IsFiniteSet(1 .. (b \div XpStep))
      BY FS_Interval DEF XpStep
    <3>2. fit(b) \in SUBSET (1 .. (b \div XpStep))
      OBVIOUS
    <3> QED
      BY <3>1, <3>2, FS_Subset
  <2>3. LevelFromXp(a) = Cardinality(fit(a)) + 1 /\ LevelFromXp(b) = Cardinality(fit(b)) + 1
    BY <1>2 DEF LevelFromXp, Root
  <2> HIDE DEF fit
  <2>4. IsFiniteSet(fit(a)) /\ Cardinality(fit(a)) <= Cardinality(fit(b))
    BY <2>1, <2>2, FS_Subset
  <2>5. Cardinality(fit(a)) \in Nat /\ Cardinality(fit(b)) \in Nat
    BY <2>2, <2>4, FS_CardinalityType
  <2> QED
    BY <2>3, <2>4, <2>5
<1> QED
  BY <1>1, <1>2

\* Among the natural numbers there is the root of xp / 100: the least n whose
\* successor's square does not fit any more.
LEMMA RootExists ==
  ASSUME NEW xp \in Nat
  PROVE  \E n \in Nat : XpStep * (n * n) <= xp /\ xp < XpStep * ((n + 1) * (n + 1))
<1> DEFINE Above == {n \in Nat : xp < XpStep * ((n + 1) * (n + 1))}
<1>1. xp \in Above
  <2>1. (xp + 1) * (xp + 1) >= xp + 1
    BY SMT
  <2> QED
    BY <2>1, SMT DEF XpStep
<1>2. PICK n \in Above : \A m \in Above : ~ (<<m, n>> \in OpToRel(<, Nat))
  <2> HIDE DEF Above
  <2>1. Above \subseteq Nat
    BY DEF Above
  <2> QED
    BY <1>1, <2>1, NatLessThanWellFounded, WFMin
<1>3. \A m \in Above : ~ (m < n)
  BY <1>2 DEF OpToRel
<1>4. XpStep * (n * n) <= xp
  <2>1. CASE n = 0
    BY <2>1 DEF XpStep
  <2>2. CASE n # 0
    <3>1. n - 1 \in Nat /\ n - 1 < n
      BY <2>2
    <3>2. ~ (xp < XpStep * ((n - 1 + 1) * (n - 1 + 1)))
      BY <3>1, <1>3
    <3>3. n - 1 + 1 = n
      OBVIOUS
    <3> QED
      BY <3>2, <3>3, SMT DEF XpStep
  <2> QED
    BY <2>1, <2>2
<1> QED
  BY <1>4

\* The numbers whose square fits are those up to the root, so counting them gives it.
LEMMA RootIsFloor ==
  ASSUME NEW xp \in Nat
  PROVE  /\ Root(xp) \in Nat
         /\ XpStep * (Root(xp) * Root(xp)) <= xp
         /\ xp < XpStep * ((Root(xp) + 1) * (Root(xp) + 1))
<1>1. PICK r \in Nat : XpStep * (r * r) <= xp /\ xp < XpStep * ((r + 1) * (r + 1))
  BY RootExists
<1>2. ASSUME NEW n \in Nat, n <= r
      PROVE  n * n <= r * r
  <2>1. PICK d \in Nat : r = n + d
    <3>1. r - n \in Nat /\ r = n + (r - n)
      BY <1>2
    <3> QED
      BY <3>1
  <2>2. r * r = n * n + 2 * (n * d) + d * d /\ n * d \in Nat /\ d * d \in Nat
    BY <2>1, SMT
  <2> QED
    BY <2>2, SMT
<1>3. ASSUME NEW n \in Nat, n > r
      PROVE  n * n >= (r + 1) * (r + 1)
  <2>1. PICK d \in Nat : n = r + 1 + d
    <3>1. n - (r + 1) \in Nat /\ n = r + 1 + (n - (r + 1))
      BY <1>3
    <3> QED
      BY <3>1
  <2>2. n * n = (r + 1) * (r + 1) + 2 * ((r + 1) * d) + d * d
        /\ (r + 1) * d \in Nat /\ d * d \in Nat
    BY <2>1, SMT
  <2> QED
    BY <2>2, SMT
<1>4. ASSUME NEW n \in Nat
      PROVE  XpStep * (n * n) <= xp <=> n <= r
  <2>1. n * n \in Nat /\ r * r \in Nat /\ (r + 1) * (r + 1) \in Nat
    OBVIOUS
  <2> QED
    BY <1>1, <1>2, <1>3, <2>1, SMT DEF XpStep
<1>5. ASSUME NEW n \in 1 .. r
      PROVE  n \in 1 .. (xp \div XpStep)
  <2>1. XpStep * (n * n) <= xp
    BY <1>4
  <2>2. n * n >= n
    <3>1. PICK k \in Nat : n = k + 1
      <4>1. n - 1 \in Nat /\ n = n - 1 + 1
        OBVIOUS
      <4> QED
        BY <4>1
    <3>2. n * n = k * k + k + n /\ k * k \in Nat
      BY <3>1, SMT
    <3> QED
      BY <3>2
  <2> QED
    BY <2>1, <2>2, SMT DEF XpStep
<1>6. {n \in 1 .. (xp \div XpStep) : XpStep * (n * n) <= xp} = 1 .. r
  <2>1. 1 .. (xp \div XpStep) \subseteq Nat
    BY DEF XpStep
  <2> QED
    BY <1>4, <1>5, <2>1
<1>7. Root(xp) = r
  <2>1. Cardinality(1 .. r) = r
    BY FS_Interval
  <2> QED
    BY <1>6, <2>1 DEF Root
<1> QED
  BY <1>1, <1>7

\* levelFromXp brackets: the level reached is the one whose XP range holds xp.
\* It is what makes xpIntoLevel and xpToNextLevel of the profile non-negative.
THEOREM LevelBracketsXp ==
  ASSUME NEW xp \in Nat
  PROVE  /\ LevelFromXp(xp) \in Nat \ {0}
         /\ XpForLevel(LevelFromXp(xp)) <= xp
         /\ xp < XpForLevel(LevelFromXp(xp) + 1)
<1>1. CASE xp = 0
  <2>1. LevelFromXp(xp) = 1
    BY <1>1 DEF LevelFromXp, MIN_LEVEL
  <2> QED
    BY <1>1, <2>1 DEF XpForLevel, MIN_LEVEL, XpStep
<1>2. CASE xp > 0
  <2> DEFINE n == Root(xp)
  <2>1. n \in Nat /\ XpStep * (n * n) <= xp /\ xp < XpStep * ((n + 1) * (n + 1))
    BY RootIsFloor
  <2>2. LevelFromXp(xp) = n + 1
    BY <1>2 DEF LevelFromXp
  <2> HIDE DEF n
  <2>3. n + 1 - 1 = n /\ n + 1 + 1 - 1 = n + 1 /\ ~ (n + 1 < 1) /\ ~ (n + 1 + 1 < 1)
    BY <2>1
  <2>4. XpForLevel(n + 1) = XpStep * (n * n)
    BY <2>1, <2>3, SMT DEF XpForLevel, MIN_LEVEL, XpStep
  <2>5. XpForLevel(n + 1 + 1) = XpStep * ((n + 1) * (n + 1))
    BY <2>1, <2>3, SMT DEF XpForLevel, MIN_LEVEL, XpStep
  <2> QED
    BY <2>1, <2>2, <2>4, <2>5
<1> QED
  BY <1>1, <1>2

-----------------------------------------------------------------------------
(* Types, and what is granted.                                              *)

\* A task at a statement is a record of a player and a definition.
LEMMA OpenType ==
  ASSUME TypeOK, NEW t \in Tasks, task[t].step \notin {"idle", "ended"}
  PROVE  /\ task[t] \in TaskRecords
         /\ Open(t)
         /\ task[t].user \in Users
         /\ Definition(t) \in Achievements
<1>1. task[t] \in TaskRecords /\ Open(t)
  BY DEF TypeOK, Idle, Ended, Open
<1>2. task[t].user \in Users /\ task[t].at \in 1 .. Len(Definitions)
  BY <1>1 DEF TaskRecords
<1>3. Definitions[task[t].at] \in Achievements
  BY <1>2, DefinitionsAssumption
<1> QED
  BY <1>1, <1>2, <1>3 DEF Definition

\* A task that begins at a statement is a task.
LEMMA TaskAtType ==
  ASSUME NEW step \in AllSteps, NEW u \in Users, NEW i \in 1 .. Len(Definitions)
  PROVE  TaskAt(step, u, i) \in TaskRecords
BY DEF TaskAt, TaskRecords, AllSteps, NoRow, UserAchievementRows

\* Moving a task on keeps the tasks well formed.
LEMMA GotoType ==
  ASSUME TypeOK, NEW t \in Tasks, task[t] \in TaskRecords, NEW step \in AllSteps, Goto(t, step)
  PROVE  task' \in [Tasks -> TaskRecords \cup {Idle, Ended}]
<1>1. [task[t] EXCEPT !.step = step] \in TaskRecords
  BY DEF TaskRecords, AllSteps
<1> QED
  BY <1>1 DEF Goto, TypeOK

\* So does going on to the next definition.
LEMMA ContinueType ==
  ASSUME TypeOK, NEW t \in Tasks, task[t] \in TaskRecords, Continue(t)
  PROVE  task' \in [Tasks -> TaskRecords \cup {Idle, Ended}]
<1>1. task[t].user \in Users /\ task[t].at \in 1 .. Len(Definitions)
  BY DEF TaskRecords
<1>2. task[t].at # Len(Definitions) => task[t].at + 1 \in 1 .. Len(Definitions)
  BY <1>1, DefinitionsAssumption
<1>3. task[t].at # Len(Definitions)
        => TaskAt("find", task[t].user, task[t].at + 1) \in TaskRecords
  BY <1>1, <1>2, TaskAtType DEF AllSteps, EvaluationSteps
<1> QED
  BY <1>3 DEF Continue, TypeOK

\* Taking and releasing row locks yields a lock table.
LEMMA LockType ==
  ASSUME TypeOK, NEW t \in Tasks, NEW row
  PROVE  /\ Take(lock, row, t) \in [Rows -> Tasks \cup {NoRequest}]
         /\ Release(lock, t) \in [Rows -> Tasks \cup {NoRequest}]
BY DEF TypeOK, Take, Release

\* A LevelUp event leaves a level in the history.
LEMMA AnnounceType ==
  ASSUME TypeOK, NEW u \in Users, NEW level \in Nat \ {0}
  PROVE  [history EXCEPT ![u].announced = Announced(u, level)] \in [Users -> HistoryRecords]
<1>1. Announced(u, level) \in Nat \ {0}
  BY DEF TypeOK, HistoryRecords, Announced
<1>2. [history[u] EXCEPT !.announced = Announced(u, level)] \in HistoryRecords
  BY <1>1 DEF TypeOK, HistoryRecords
<1> QED
  BY <1>2 DEF TypeOK

\* Granting XP counts up.
LEMMA GrantType ==
  ASSUME TypeOK, NEW u \in Users, NEW n \in Nat
  PROVE  [history EXCEPT ![u].granted = @ + n] \in [Users -> HistoryRecords]
<1>1. [history[u] EXCEPT !.granted = @ + n] \in HistoryRecords
  BY DEF TypeOK, HistoryRecords
<1> QED
  BY <1>1 DEF TypeOK

\* Writing one UserAchievement row keeps the type of the table.
LEMMA RowType ==
  ASSUME TypeOK, NEW u \in Users, NEW a \in Achievements, NEW row \in UserAchievementRows
  PROVE  [achieved EXCEPT ![u][a] = row] \in [Users -> [Achievements -> UserAchievementRows]]
BY DEF TypeOK

\* The user row after an award has the types of the columns.
LEMMA AwardUserType ==
  ASSUME TypeOK, NEW t \in Tasks, CommitAward(t)
  PROVE  user' \in [Users -> UserRecords]
<1>1. task[t] \in TaskRecords /\ task[t].user \in Users
  BY OpenType DEF CommitAward, At
<1>2. task[t].xpRead + XpReward \in Nat
  BY <1>1, XpAssumption DEF TaskRecords
<1>3. AwardedLevel(t) \in Nat \ {0}
  BY <1>2, LevelType DEF AwardedLevel
<1>4. user[task[t].user] \in UserRecords
  BY <1>1 DEF TypeOK
<1>5. AwardedXp(t) \in Nat
  BY <1>4, XpAssumption DEF AwardedXp, Player, UserRecords
<1> QED
  BY <1>1, <1>3, <1>4, <1>5 DEF CommitAward, Player, TypeOK, UserRecords

\* So has the inviter's after a referral.
LEMMA ReferralUserType ==
  ASSUME TypeOK, NEW t \in Tasks, CommitReferral(t)
  PROVE  user' \in [Users -> UserRecords]
<1>1. task[t] \in TaskRecords /\ task[t].user \in Users
  BY OpenType DEF CommitReferral, At
<1>2. InviterXp(t) \in Nat
  BY <1>1 DEF InviterXp, TaskRecords, REFERRAL_XP
<1>3. LevelFromXp(InviterXp(t)) \in Nat \ {0}
  BY <1>2, LevelType
<1>4. [user[task[t].user] EXCEPT !.xp = InviterXp(t), !.level = LevelFromXp(InviterXp(t))]
        \in UserRecords
  BY <1>1, <1>2, <1>3 DEF TypeOK, UserRecords
<1> QED
  BY <1>1, <1>4 DEF CommitReferral, Player, TypeOK

\* So has the player's after an unlock.
LEMMA UnlockUserType ==
  ASSUME TypeOK, NEW t \in Tasks, CommitUnlock(t)
  PROVE  user' \in [Users -> UserRecords]
<1>1. task[t].user \in Users /\ Definition(t) \in Achievements
  BY OpenType DEF CommitUnlock, At
<1>2. user[task[t].user] \in UserRecords
  BY <1>1 DEF TypeOK
<1>3. user[task[t].user].xp + XpBonus[Definition(t)] \in Nat
  BY <1>1, <1>2, CriteriaAssumption DEF UserRecords
<1>4. LevelFromXp(user[task[t].user].xp + XpBonus[Definition(t)]) \in Nat \ {0}
  BY <1>3, LevelType
<1>5. UnlockedUser(t) \in UserRecords
  BY <1>2, <1>3, <1>4 DEF UnlockedUser, Player, UserRecords
<1> QED
  BY <1>1, <1>5 DEF CommitUnlock, Player, TypeOK

\* A crash ends tasks, frees rows and marks what was lost.
LEMMA CrashType ==
  ASSUME TypeOK, NEW t \in Tasks, Crash(t)
  PROVE  TypeOK'
<1>1. PICK S \in SUBSET {s \in Tasks : Open(s)} :
        /\ lock' = [row \in Rows |-> IF lock[row] \in S THEN NoRequest ELSE lock[row]]
        /\ task' = [s \in Tasks |-> IF s \in S THEN Ended ELSE task[s]]
        /\ history' = [u \in Users |-> [history[u] EXCEPT !.lost =
                         @ \/ \E s \in S : Player(s) = u]]
        /\ UNCHANGED <<user, achieved>>
  BY DEF Crash
<1>2. lock' \in [Rows -> Tasks \cup {NoRequest}]
  BY <1>1 DEF TypeOK
<1>3. task' \in [Tasks -> TaskRecords \cup {Idle, Ended}]
  BY <1>1 DEF TypeOK
<1>4. ASSUME NEW u \in Users, NEW b \in BOOLEAN
      PROVE  [history[u] EXCEPT !.lost = b] \in HistoryRecords
  BY DEF TypeOK, HistoryRecords
<1>5. \A u \in Users : history[u].lost \in BOOLEAN
  BY DEF TypeOK, HistoryRecords
<1>6. history' \in [Users -> HistoryRecords]
  <2>1. ASSUME NEW u \in Users
        PROVE  (history[u].lost \/ \E s \in S : Player(s) = u) \in BOOLEAN
    BY <1>5
  <2> QED
    BY <1>1, <1>4, <2>1
<1> QED
  BY <1>1, <1>2, <1>3, <1>6 DEF TypeOK

\* Every step of a task keeps the types.
LEMMA RunType ==
  ASSUME TypeOK, NEW t \in Tasks, Run(t)
  PROVE  TypeOK'
<1> USE DEF AllSteps, AwardSteps, ReferralSteps, EvaluationSteps, UnlockSteps
<1>1. CASE ReadXp(t)
  <2>1. task[t] \in TaskRecords /\ task[t].user \in Users
    BY <1>1, OpenType DEF ReadXp, At
  <2>2. user[task[t].user].xp \in Nat
    BY <2>1 DEF TypeOK, UserRecords
  <2>3. [task[t] EXCEPT !.xpRead = user[task[t].user].xp, !.step = "writeAward"] \in TaskRecords
    BY <2>1, <2>2 DEF TaskRecords
  <2> QED
    BY <1>1, <2>3 DEF ReadXp, Player, TypeOK
<1>2. CASE WriteAward(t)
  <2>1. task' \in [Tasks -> TaskRecords \cup {Idle, Ended}]
    BY <1>2, OpenType, GotoType DEF WriteAward, At
  <2> QED
    BY <1>2, <2>1, LockType DEF WriteAward, TypeOK
<1>3. CASE CommitAward(t)
  <2>1. task' \in [Tasks -> TaskRecords \cup {Idle, Ended}] /\ task[t].user \in Users
    BY <1>3, OpenType, GotoType DEF CommitAward, At
  <2>2. history' \in [Users -> HistoryRecords]
    BY <1>3, <2>1, XpAssumption, GrantType DEF CommitAward, Player
  <2> QED
    BY <1>3, <2>1, <2>2, LockType, AwardUserType DEF CommitAward, TypeOK
<1>4. CASE EmitAward(t)
  <2>1. task[t] \in TaskRecords /\ task[t].user \in Users
    BY <1>4, OpenType DEF EmitAward, At
  <2>2. TaskAt("find", task[t].user, 1) \in TaskRecords
    BY <2>1, TaskAtType, DefinitionsAssumption
  <2>3. task[t].xpRead + XpReward \in Nat
    BY <2>1, XpAssumption DEF TaskRecords
  <2>4. AwardedLevel(t) \in Nat \ {0}
    BY <2>3, LevelType DEF AwardedLevel
  <2> QED
    BY <1>4, <2>1, <2>2, <2>4, AnnounceType DEF EmitAward, Player, TypeOK
<1>5. CASE ReadInviter(t)
  <2>1. task[t] \in TaskRecords /\ task[t].user \in Users
    BY <1>5, OpenType DEF ReadInviter, At
  <2>2. user[task[t].user].xp \in Nat /\ user[task[t].user].level \in Nat
    BY <2>1 DEF TypeOK, UserRecords
  <2>3. [task[t] EXCEPT !.xpRead = user[task[t].user].xp, !.levelRead = user[task[t].user].level,
                        !.step = "writeBonus"] \in TaskRecords
    BY <2>1, <2>2 DEF TaskRecords
  <2> QED
    BY <1>5, <2>3 DEF ReadInviter, Player, TypeOK
<1>6. CASE WriteBonus(t)
  <2>1. task' \in [Tasks -> TaskRecords \cup {Idle, Ended}]
    BY <1>6, OpenType, GotoType DEF WriteBonus, At
  <2> QED
    BY <1>6, <2>1, LockType DEF WriteBonus, TypeOK
<1>7. CASE CommitReferral(t)
  <2>1. task' \in [Tasks -> TaskRecords \cup {Idle, Ended}] /\ task[t].user \in Users
    BY <1>7, OpenType, GotoType DEF CommitReferral, At
  <2>2. history' \in [Users -> HistoryRecords]
    <3>1. history[task[t].user] \in HistoryRecords /\ REFERRAL_XP \in Nat
      BY <2>1 DEF TypeOK, REFERRAL_XP
    <3>2. [history[task[t].user] EXCEPT !.granted = @ + REFERRAL_XP] \in HistoryRecords
      BY <3>1 DEF HistoryRecords
    <3>3. [history[task[t].user] EXCEPT !.granted = @ + REFERRAL_XP, !.referred = TRUE]
            \in HistoryRecords
      BY <3>2 DEF HistoryRecords
    <3> QED
      BY <1>7, <2>1, <3>3 DEF CommitReferral, Player, TypeOK
  <2> QED
    BY <1>7, <2>1, <2>2, LockType, ReferralUserType DEF CommitReferral, TypeOK
<1>8. CASE EmitReferral(t)
  <2>1. task[t] \in TaskRecords /\ task[t].user \in Users
    BY <1>8, OpenType DEF EmitReferral, At
  <2>2. TaskAt("find", task[t].user, 1) \in TaskRecords
    BY <2>1, TaskAtType, DefinitionsAssumption
  <2>3. InviterXp(t) \in Nat
    BY <2>1 DEF InviterXp, TaskRecords, REFERRAL_XP
  <2>4. LevelFromXp(InviterXp(t)) \in Nat \ {0}
    BY <2>3, LevelType
  <2> QED
    BY <1>8, <2>1, <2>2, <2>4, AnnounceType DEF EmitReferral, Player, TypeOK
<1>9. CASE Find(t)
  <2>1. task[t] \in TaskRecords /\ task[t].user \in Users /\ Definition(t) \in Achievements
    BY <1>9, OpenType DEF Find, At
  <2>2. Existing(t) \in UserAchievementRows
    BY <2>1 DEF Existing, Player, TypeOK
  <2>3. [task[t] EXCEPT !.seen = Existing(t), !.step = "measure"] \in TaskRecords
    BY <2>1, <2>2 DEF TaskRecords
  <2>4. task' \in [Tasks -> TaskRecords \cup {Idle, Ended}]
    BY <1>9, <2>1, <2>3, ContinueType DEF Find, TypeOK
  <2> QED
    BY <1>9, <2>4 DEF Find, TypeOK
<1>10. CASE Measure(t)
  <2>1. task[t] \in TaskRecords /\ task[t].user \in Users /\ Definition(t) \in Achievements
    BY <1>10, OpenType DEF Measure, At
  <2>2. PICK n \in Measured(Player(t), Definition(t)) :
          \/ Goto(t, "readLevel")
          \/ task' = [task EXCEPT ![t].progress = n,
                                  ![t].step = IF task[t].seen.exists THEN "update" ELSE "create"]
          \/ Continue(t)
    BY <1>10 DEF Measure
  <2>3. Measured(Player(t), Definition(t)) \subseteq Nat
    BY <2>1, CriteriaAssumption DEF Measured, Player, TypeOK, Metrics, UserRecords
  <2>4. [task[t] EXCEPT !.progress = n,
                        !.step = IF task[t].seen.exists THEN "update" ELSE "create"] \in TaskRecords
    BY <2>1, <2>2, <2>3 DEF TaskRecords
  <2>5. task' \in [Tasks -> TaskRecords \cup {Idle, Ended}]
    BY <2>1, <2>2, <2>4, ContinueType, GotoType DEF TypeOK
  <2> QED
    BY <1>10, <2>5 DEF Measure, TypeOK
<1>11. CASE Update(t)
  <2>1. task[t] \in TaskRecords /\ task[t].user \in Users /\ Definition(t) \in Achievements
    BY <1>11, OpenType DEF Update, At
  <2>2. task' \in [Tasks -> TaskRecords \cup {Idle, Ended}]
    BY <1>11, <2>1, ContinueType DEF Update
  <2>3. achieved[task[t].user][Definition(t)] \in UserAchievementRows /\ task[t].progress \in Nat
    BY <2>1 DEF TypeOK, TaskRecords
  <2>4. [achieved[task[t].user][Definition(t)] EXCEPT !.progress = task[t].progress]
          \in UserAchievementRows
    BY <2>3 DEF UserAchievementRows
  <2>5. achieved' \in [Users -> [Achievements -> UserAchievementRows]]
    BY <1>11, <2>1, <2>4, RowType DEF Update, Player
  <2> QED
    BY <1>11, <2>2, <2>5 DEF Update, TypeOK
<1>12. CASE Create(t) /\ ~ Existing(t).exists
  <2>1. task[t] \in TaskRecords /\ task[t].user \in Users /\ Definition(t) \in Achievements
    BY <1>12, OpenType DEF Create, At
  <2>2. task' \in [Tasks -> TaskRecords \cup {Idle, Ended}]
    BY <1>12, <2>1, ContinueType DEF Create
  <2>3. task[t].progress \in Nat
    BY <2>1 DEF TaskRecords
  <2>4. InProgress(task[t].progress) \in UserAchievementRows
    BY <2>3 DEF InProgress, UserAchievementRows
  <2>5. achieved' \in [Users -> [Achievements -> UserAchievementRows]]
    BY <1>12, <2>1, <2>4, RowType DEF Create, Player
  <2> QED
    BY <1>12, <2>2, <2>5 DEF Create, TypeOK
<1>13. CASE Crash(t)
  BY <1>13, CrashType
<1>14. CASE ReadLevel(t)
  <2>1. task[t] \in TaskRecords /\ task[t].user \in Users
    BY <1>14, OpenType DEF ReadLevel, At
  <2>2. user[task[t].user].level \in Nat
    BY <2>1 DEF TypeOK, UserRecords
  <2>3. [task[t] EXCEPT !.levelRead = user[task[t].user].level, !.step = "upsert"] \in TaskRecords
    BY <2>1, <2>2 DEF TaskRecords
  <2> QED
    BY <1>14, <2>3 DEF ReadLevel, Player, TypeOK
<1>15. CASE Upsert(t)
  <2>1. task[t] \in TaskRecords
    BY <1>15, OpenType DEF Upsert, At
  <2>2. task' \in [Tasks -> TaskRecords \cup {Idle, Ended}]
    BY <1>15, <2>1, GotoType DEF Upsert
  <2> QED
    BY <1>15, <2>2, LockType DEF Upsert, TypeOK
<1>16. CASE AddXp(t)
  <2>1. task' \in [Tasks -> TaskRecords \cup {Idle, Ended}]
    BY <1>16, OpenType, GotoType DEF AddXp, At
  <2> QED
    BY <1>16, <2>1, LockType DEF AddXp, TypeOK
<1>17. CASE CommitUnlock(t)
  <2>1. task[t] \in TaskRecords /\ task[t].user \in Users /\ Definition(t) \in Achievements
    BY <1>17, OpenType DEF CommitUnlock, At
  <2>2. task' \in [Tasks -> TaskRecords \cup {Idle, Ended}]
    BY <1>17, <2>1, GotoType, ContinueType DEF CommitUnlock
  <2>3. [exists |-> TRUE, unlocked |-> TRUE, progress |-> TargetValue[Definition(t)]]
          \in UserAchievementRows
    BY <2>1, CriteriaAssumption DEF UserAchievementRows
  <2>4. achieved' \in [Users -> [Achievements -> UserAchievementRows]]
    BY <1>17, <2>1, <2>3, RowType DEF CommitUnlock, Player
  <2>5. history' \in [Users -> HistoryRecords]
    <3>1. XpBonus[Definition(t)] \in Nat
      BY <2>1, CriteriaAssumption
    <3> QED
      BY <1>17, <2>1, <3>1, GrantType DEF CommitUnlock, Player
  <2> QED
    BY <1>17, <2>2, <2>4, <2>5, LockType, UnlockUserType DEF CommitUnlock, TypeOK
<1>18. CASE ReadAfter(t)
  <2>1. task[t] \in TaskRecords /\ task[t].user \in Users
    BY <1>18, OpenType DEF ReadAfter, At
  <2>2. task' \in [Tasks -> TaskRecords \cup {Idle, Ended}]
    BY <1>18, <2>1, ContinueType DEF ReadAfter
  <2>3. user[task[t].user].level \in Nat \ {0}
    BY <2>1 DEF TypeOK, UserRecords
  <2> QED
    BY <1>18, <2>1, <2>2, <2>3, AnnounceType DEF ReadAfter, Player, TypeOK
<1> QED
  BY <1>1, <1>2, <1>3, <1>4, <1>5, <1>6, <1>7, <1>8, <1>9, <1>10, <1>11, <1>12, <1>13, <1>14,
     <1>15, <1>16, <1>17, <1>18 DEF Run, Create

\* Whatever tasks start, overlap and crash, tables and tasks keep their types.
THEOREM TypeCorrect == Spec => []TypeOK
<1>1. Init => TypeOK
  <2> SUFFICES ASSUME Init PROVE TypeOK
    OBVIOUS
  <2>1. ASSUME NEW a \in Achievements
        PROVE  EarlierRows(a) \subseteq UserAchievementRows
    <3>1. NoRow \in UserAchievementRows
      BY DEF NoRow, UserAchievementRows
    <3>2. ASSUME NEW n \in 1 .. Minimum[a] - 1
          PROVE  InProgress(n) \in UserAchievementRows
      BY CriteriaAssumption DEF InProgress, UserAchievementRows
    <3> QED
      BY <3>1, <3>2 DEF EarlierRows
  <2>2. achieved \in [Users -> [Achievements -> UserAchievementRows]]
    BY <2>1 DEF Init
  <2>3. user \in [Users -> UserRecords] /\ history \in [Users -> HistoryRecords]
    BY DEF Init, MIN_LEVEL, UserRecords, HistoryRecords
  <2> QED
    BY <2>2, <2>3 DEF Init, TypeOK, Unlocked
<1>2. TypeOK /\ [Next]_vars => TypeOK'
  <2> SUFFICES ASSUME TypeOK, [Next]_vars PROVE TypeOK'
    OBVIOUS
  <2>1. ASSUME NEW t \in Tasks, NEW u \in Users, NEW step \in AllSteps, Start(t, u, step)
        PROVE  TypeOK'
    <3>1. TaskAt(step, u, 1) \in TaskRecords
      BY TaskAtType, DefinitionsAssumption
    <3> QED
      BY <2>1, <3>1 DEF Start, TypeOK
  <2>2. ASSUME NEW t \in Tasks, NEW u \in Users,
               StartAward(t, u) \/ StartReferral(t, u) \/ StartEvaluation(t, u)
        PROVE  TypeOK'
    BY <2>1, <2>2 DEF StartAward, StartReferral, StartEvaluation, AllSteps, AwardSteps,
       ReferralSteps, EvaluationSteps
  <2>3. ASSUME NEW t \in Tasks, Crash(t)
        PROVE  TypeOK'
    BY <2>3, CrashType
  <2>4. ASSUME NEW u \in Users, Restart(u)
        PROVE  TypeOK'
    BY <2>4 DEF Restart, TypeOK, UserRecords
  <2>5. CASE UNCHANGED vars
    BY <2>5 DEF vars, TypeOK
  <2> QED
    BY <2>2, <2>3, <2>4, <2>5, RunType DEF Next
<1> QED
  BY <1>1, <1>2, PTL DEF Spec

-----------------------------------------------------------------------------
(* What one step does to a task.                                           *)

Running(t) == task[t].step \notin {"idle", "ended"}

Emitting == {"emitAward", "emitReferral"}

\* The task starts, or goes on to another definition, with nothing read.
Fresh(t) == task'[t].xpRead = 0 /\ task'[t].user \in Users /\ task'[t].step \notin Emitting

\* It keeps player and XP read.
Kept(t) == Running(t) /\ task'[t].user = task[t].user /\ task'[t].xpRead = task[t].xpRead

\* It reads the XP.
Reads(t) == /\ Running(t) /\ task'[t].user = task[t].user
            /\ task'[t].xpRead = user[task[t].user].xp
            /\ task'[t].step \notin Emitting
            /\ UNCHANGED <<user, history>>

\* Goto changes the step of its task and nothing else.
LEMMA GotoKept ==
  ASSUME TypeOK, NEW t \in Tasks, task[t] \in TaskRecords, Running(t), NEW step, Goto(t, step)
  PROVE  Kept(t) /\ task'[t].step = step
<1>1. [task[t] EXCEPT !.step = step].xpRead = task[t].xpRead
      /\ [task[t] EXCEPT !.step = step].user = task[t].user
      /\ [task[t] EXCEPT !.step = step].step = step
  BY DEF TaskRecords
<1> QED
  BY <1>1 DEF Goto, TypeOK, Kept

\* Continue ends the task or starts afresh.
LEMMA ContinueFresh ==
  ASSUME TypeOK, NEW t \in Tasks, task[t] \in TaskRecords, Continue(t)
  PROVE  ~ Running(t)' \/ Fresh(t)
BY DEF Continue, TypeOK, TaskRecords, Running, Ended, Fresh, TaskAt, Emitting

\* A task is moved by its own steps only, and by crashes.
LEMMA OthersStay ==
  ASSUME TypeOK, NEW t \in Tasks, NEW s \in Tasks, s # t, Run(t), ~ Crash(t)
  PROVE  task'[s] = task[s]
<1>1. ASSUME NEW step, Goto(t, step) PROVE task'[s] = task[s]
  BY <1>1 DEF Goto, TypeOK
<1>2. ASSUME Continue(t) PROVE task'[s] = task[s]
  BY <1>2 DEF Continue, TypeOK
<1> QED
  BY <1>1, <1>2 DEF Run, ReadXp, WriteAward, CommitAward, EmitAward, ReadInviter, WriteBonus,
     CommitReferral, EmitReferral, Find, Measure, Update, Create, ReadLevel, Upsert, AddXp,
     CommitUnlock, ReadAfter, TypeOK

\* What a step of the task itself does to it.
LEMMA OwnStep ==
  ASSUME TypeOK, NEW t \in Tasks, Run(t), ~ Crash(t), Running(t)'
  PROVE  /\ Running(t)
         /\ \/ Fresh(t) \/ Reads(t) \/ (Kept(t) /\ task'[t].step \notin Emitting)
            \/ (CommitAward(t) /\ Kept(t) /\ task'[t].step = "emitAward")
            \/ (CommitReferral(t) /\ Kept(t) /\ task'[t].step = "emitReferral")
<1>0. Running(t)
  BY DEF Run, ReadXp, WriteAward, CommitAward, EmitAward, ReadInviter, WriteBonus,
     CommitReferral, EmitReferral, Find, Measure, Update, Create, ReadLevel, Upsert, AddXp,
     CommitUnlock, ReadAfter, At, Running
<1>1. task[t] \in TaskRecords /\ task[t].user \in Users
  BY <1>0, OpenType DEF Running
<1>2. ASSUME NEW step, step \notin Emitting, Goto(t, step)
      PROVE  Kept(t) /\ task'[t].step \notin Emitting
  BY <1>0, <1>1, <1>2, GotoKept
<1>3. CASE ReadXp(t)
  <2>1. [task[t] EXCEPT !.xpRead = user[task[t].user].xp, !.step = "writeAward"].xpRead
            = user[task[t].user].xp
        /\ [task[t] EXCEPT !.xpRead = user[task[t].user].xp, !.step = "writeAward"].user
            = task[t].user
        /\ [task[t] EXCEPT !.xpRead = user[task[t].user].xp, !.step = "writeAward"].step
            = "writeAward"
    BY <1>1 DEF TaskRecords
  <2> QED
    BY <1>0, <1>3, <2>1 DEF ReadXp, Player, TypeOK, Reads, Emitting
<1>4. CASE ReadInviter(t)
  <2> DEFINE new == [task[t] EXCEPT !.xpRead = user[task[t].user].xp,
                                    !.levelRead = user[task[t].user].level, !.step = "writeBonus"]
  <2>1. new.xpRead = user[task[t].user].xp /\ new.user = task[t].user /\ new.step = "writeBonus"
    BY <1>1 DEF TaskRecords
  <2>2. task'[t] = new
    BY <1>4 DEF ReadInviter, Player, TypeOK
  <2> QED
    BY <1>0, <1>4, <2>1, <2>2 DEF ReadInviter, Reads, Emitting
<1>5. CASE CommitAward(t)
  BY <1>0, <1>1, <1>5, GotoKept DEF CommitAward
<1>6. CASE CommitReferral(t)
  BY <1>0, <1>1, <1>6, GotoKept DEF CommitReferral
<1>7. CASE EmitAward(t) \/ EmitReferral(t)
  <2>1. task'[t] = TaskAt("find", task[t].user, 1)
    BY <1>7 DEF EmitAward, EmitReferral, Player, TypeOK
  <2> QED
    BY <1>0, <1>1, <2>1 DEF Fresh, TaskAt, Emitting
<1>8. CASE Find(t)
  <2>1. [task[t] EXCEPT !.seen = Existing(t), !.step = "measure"].xpRead = task[t].xpRead
        /\ [task[t] EXCEPT !.seen = Existing(t), !.step = "measure"].user = task[t].user
        /\ [task[t] EXCEPT !.seen = Existing(t), !.step = "measure"].step = "measure"
    BY <1>1 DEF TaskRecords
  <2> QED
    BY <1>0, <1>1, <1>8, <2>1, ContinueFresh DEF Find, TypeOK, Kept, Emitting
<1>9. CASE Measure(t)
  <2>1. PICK n :
          \/ Goto(t, "readLevel")
          \/ task' = [task EXCEPT ![t].progress = n,
                                  ![t].step = IF task[t].seen.exists THEN "update" ELSE "create"]
          \/ Continue(t)
    BY <1>9 DEF Measure
  <2> DEFINE new == [task[t] EXCEPT !.progress = n,
                                    !.step = IF task[t].seen.exists THEN "update" ELSE "create"]
  <2>2. new.xpRead = task[t].xpRead /\ new.user = task[t].user /\ new.step \in {"update", "create"}
    BY <1>1 DEF TaskRecords
  <2>3. CASE task' = [task EXCEPT ![t].progress = n,
                        ![t].step = IF task[t].seen.exists THEN "update" ELSE "create"]
    <3>1. task'[t] = new
      BY <2>3 DEF TypeOK
    <3> QED
      BY <1>0, <2>2, <3>1 DEF Kept, Emitting
  <2>4. CASE Goto(t, "readLevel")
    BY <1>0, <1>2, <2>4 DEF Emitting
  <2> QED
    BY <1>0, <1>1, <2>1, <2>3, <2>4, ContinueFresh
<1>10. CASE ReadLevel(t)
  <2> DEFINE new == [task[t] EXCEPT !.levelRead = user[task[t].user].level, !.step = "upsert"]
  <2>1. new.xpRead = task[t].xpRead /\ new.user = task[t].user /\ new.step = "upsert"
    BY <1>1 DEF TaskRecords
  <2>2. task'[t] = new
    BY <1>10 DEF ReadLevel, Player, TypeOK
  <2> QED
    BY <1>0, <2>1, <2>2 DEF Kept, Emitting
<1>11. CASE Update(t) \/ Create(t) \/ ReadAfter(t)
  BY <1>0, <1>1, <1>11, ContinueFresh DEF Update, Create, ReadAfter
<1>12. CASE WriteAward(t) \/ WriteBonus(t) \/ Upsert(t) \/ AddXp(t) \/ CommitUnlock(t)
  BY <1>0, <1>1, <1>2, <1>12, ContinueFresh DEF WriteAward, WriteBonus, Upsert, AddXp,
     CommitUnlock, Emitting
<1> QED
  BY <1>3, <1>4, <1>5, <1>6, <1>7, <1>8, <1>9, <1>10, <1>11, <1>12 DEF Run

\* What any step of the system does to a task that runs after it.
LEMMA TaskStep ==
  ASSUME TypeOK, [Next]_vars, NEW t \in Tasks, Running(t)'
  PROVE  \/ Fresh(t) \/ Reads(t) \/ (Kept(t) /\ task'[t].step \notin Emitting)
         \/ task'[t] = task[t]
         \/ (CommitAward(t) /\ Kept(t) /\ task'[t].step = "emitAward")
         \/ (CommitReferral(t) /\ Kept(t) /\ task'[t].step = "emitReferral")
<1>1. ASSUME NEW s \in Tasks, Run(s), ~ Crash(s)
      PROVE  task'[t] = task[t] \/ s = t
  BY <1>1, OthersStay
<1>2. ASSUME NEW s \in Tasks, Crash(s)
      PROVE  task'[t] = task[t]
  BY <1>2 DEF Crash, Running, Ended
<1>3. ASSUME NEW s \in Tasks, NEW u \in Users, NEW step \in AllSteps \ Emitting, Start(s, u, step)
      PROVE  task'[t] = task[t] \/ Fresh(t)
  BY <1>3 DEF Start, TypeOK, TaskAt, Fresh
<1>4. ASSUME NEW s \in Tasks, NEW u \in Users,
             StartAward(s, u) \/ StartReferral(s, u) \/ StartEvaluation(s, u)
      PROVE  task'[t] = task[t] \/ Fresh(t)
  BY <1>3, <1>4 DEF StartAward, StartReferral, StartEvaluation, AllSteps, AwardSteps,
     ReferralSteps, EvaluationSteps, Emitting
<1>5. ASSUME NEW u \in Users, Restart(u)
      PROVE  task'[t] = task[t]
  BY <1>5 DEF Restart
<1>6. CASE UNCHANGED vars
  BY <1>6 DEF vars
<1> QED
  BY <1>1, <1>2, <1>4, <1>5, <1>6, OwnStep DEF Next

-----------------------------------------------------------------------------
(* XP.                                                                     *)

\* What an open task has read of its player's XP.
ReadOK(t) ==
  Running(t) =>
    LET u == task[t].user
    IN  /\ task[t].xpRead <= history[u].granted
        /\ ~ history[u].referred => task[t].xpRead <= user[u].xp
        /\ (task[t].step = "emitAward" /\ ~ history[u].referred)
             => task[t].xpRead + XpReward <= user[u].xp
        /\ task[t].step = "emitReferral" => history[u].referred

ReadInv == \A t \in Tasks : ReadOK(t)

\* Task t commits a referral of u.
Overwrites(t, u) ==
  /\ CommitReferral(t)
  /\ task[t].user = u
  /\ user'[u].xp = task[t].xpRead + REFERRAL_XP
  /\ history'[u].granted = history[u].granted + REFERRAL_XP
  /\ history'[u].referred

\* Stored and granted XP grow by the same amount.
Grows(u, n) ==
  /\ user'[u].xp = user[u].xp + n
  /\ history'[u].granted = history[u].granted + n
  /\ history'[u].referred = history[u].referred

\* The columns and counters are numbers.
LEMMA Numbers ==
  ASSUME TypeOK, NEW u \in Users
  PROVE  /\ user[u].xp \in Nat /\ user[u].level \in Nat \ {0}
         /\ history[u].granted \in Nat /\ history[u].announced \in Nat \ {0}
         /\ history[u].referred \in BOOLEAN
BY DEF TypeOK, UserRecords, HistoryRecords

XpChange(u) == (\E n \in Nat : Grows(u, n)) \/ (\E t \in Tasks : Overwrites(t, u))

\* What one step does to the XP of a player.
LEMMA WritesXp ==
  ASSUME TypeOK, [Next]_vars, NEW u \in Users
  PROVE  XpChange(u)
<1>1. user'[u].xp = user[u].xp /\ history'[u].granted = history[u].granted
        /\ history'[u].referred = history[u].referred => Grows(u, 0)
  BY Numbers DEF Grows
<1>2. ASSUME user'[u].xp = user[u].xp, UNCHANGED history
      PROVE  Grows(u, 0)
  BY <1>1, <1>2
<1>3. ASSUME NEW v \in Users, NEW level,
             history' = [history EXCEPT ![v].announced = Announced(v, level)], UNCHANGED user
      PROVE  Grows(u, 0)
  <2>1. [history[u] EXCEPT !.announced = Announced(v, level)].granted = history[u].granted
        /\ [history[u] EXCEPT !.announced = Announced(v, level)].referred = history[u].referred
    BY DEF TypeOK, HistoryRecords
  <2> QED
    BY <1>1, <1>3, <2>1 DEF TypeOK
<1>4. ASSUME NEW t \in Tasks, Crash(t)
      PROVE  Grows(u, 0)
  <2>1. PICK S : history' = [v \in Users |-> [history[v] EXCEPT !.lost =
                               @ \/ \E s \in S : Player(s) = v]]
    BY <1>4 DEF Crash
  <2>2. \A b : [history[u] EXCEPT !.lost = b].granted = history[u].granted
               /\ [history[u] EXCEPT !.lost = b].referred = history[u].referred
    BY DEF TypeOK, HistoryRecords
  <2> QED
    BY <1>1, <1>4, <2>1, <2>2 DEF Crash
<1>5. ASSUME NEW t \in Tasks, CommitAward(t)
      PROVE  \E n \in Nat : Grows(u, n)
  <2>1. task[t].user \in Users
    BY <1>5, OpenType DEF CommitAward, At
  <2>2. user'[u].xp = IF u = task[t].user THEN user[u].xp + XpReward ELSE user[u].xp
    BY <1>5, <2>1 DEF CommitAward, AwardedXp, Player, TypeOK
  <2>3. [history[u] EXCEPT !.granted = @ + XpReward].granted = history[u].granted + XpReward
        /\ [history[u] EXCEPT !.granted = @ + XpReward].referred = history[u].referred
    BY DEF TypeOK, HistoryRecords
  <2>4. u = task[t].user => Grows(u, XpReward)
    BY <1>5, <2>2, <2>3 DEF CommitAward, Player, TypeOK, Grows
  <2>5. u # task[t].user => Grows(u, 0)
    BY <1>1, <1>5, <2>2 DEF CommitAward, Player, TypeOK
  <2> QED
    BY <2>4, <2>5, XpAssumption
<1>6. ASSUME NEW t \in Tasks, CommitUnlock(t)
      PROVE  \E n \in Nat : Grows(u, n)
  <2> DEFINE n == XpBonus[Definition(t)]
  <2>1. task[t].user \in Users /\ n \in Nat
    BY <1>6, OpenType, CriteriaAssumption DEF CommitUnlock, At
  <2>2. user'[u].xp = IF u = task[t].user THEN UnlockedUser(t).xp ELSE user[u].xp
    BY <1>6, <2>1 DEF CommitUnlock, Player, TypeOK
  <2>3. ASSUME NEW x, NEW level, NEW r \in UserRecords
        PROVE  [r EXCEPT !.xp = x, !.level = level].xp = x
    BY DEF UserRecords
  <2>4. u = task[t].user => UnlockedUser(t).xp = user[u].xp + n
    BY <2>1, <2>3, Numbers DEF UnlockedUser, Player, TypeOK
  <2>5. [history[u] EXCEPT !.granted = @ + n].granted = history[u].granted + n
        /\ [history[u] EXCEPT !.granted = @ + n].referred = history[u].referred
    BY DEF TypeOK, HistoryRecords
  <2>6. u = task[t].user => Grows(u, n)
    BY <1>6, <2>2, <2>4, <2>5 DEF CommitUnlock, Player, TypeOK, Grows
  <2>7. u # task[t].user => Grows(u, 0)
    BY <1>1, <1>6, <2>2 DEF CommitUnlock, Player, TypeOK
  <2> QED
    BY <2>1, <2>6, <2>7
<1>7. ASSUME NEW t \in Tasks, CommitReferral(t)
      PROVE  Overwrites(t, u) \/ Grows(u, 0)
  <2>1. task[t].user \in Users
    BY <1>7, OpenType DEF CommitReferral, At
  <2>2. ASSUME NEW x, NEW level
        PROVE  [user[u] EXCEPT !.xp = x, !.level = level].xp = x
    BY DEF TypeOK, UserRecords
  <2>3. ASSUME NEW n
        PROVE  [history[u] EXCEPT !.granted = n, !.referred = TRUE].granted = n
               /\ [history[u] EXCEPT !.granted = n, !.referred = TRUE].referred
    <3>1. [history[u] EXCEPT !.granted = n] \in [granted : {n}, referred : BOOLEAN,
                                                 announced : Nat \ {0}, lost : BOOLEAN]
      BY DEF TypeOK, HistoryRecords
    <3> QED
      BY <3>1
  <2>4. CASE u = task[t].user
    BY <1>7, <2>1, <2>2, <2>3, <2>4 DEF CommitReferral, Player, InviterXp, TypeOK, Overwrites
  <2>5. CASE u # task[t].user
    BY <1>1, <1>7, <2>5 DEF CommitReferral, Player, TypeOK
  <2> QED
    BY <2>4, <2>5
<1>8. ASSUME NEW v \in Users, Restart(v)
      PROVE  Grows(u, 0)
  <2>1. [user[u] EXCEPT !.questsCompleted = @ - 1].xp = user[u].xp
    BY DEF TypeOK, UserRecords
  <2> QED
    BY <1>2, <1>8, <2>1 DEF Restart, TypeOK
<1>9. ASSUME NEW t \in Tasks, Run(t), ~ Crash(t), ~ CommitAward(t), ~ CommitUnlock(t),
             ~ CommitReferral(t)
      PROVE  Grows(u, 0)
  <2>1. CASE EmitAward(t) \/ EmitReferral(t) \/ ReadAfter(t)
    <3>1. task[t].user \in Users
      BY <2>1, OpenType DEF EmitAward, EmitReferral, ReadAfter, At
    <3> QED
      BY <1>2, <1>3, <2>1, <3>1 DEF EmitAward, EmitReferral, ReadAfter, Player
  <2> QED
    BY <1>2, <1>9, <2>1 DEF Run, ReadXp, WriteAward, ReadInviter, WriteBonus, Find, Measure,
       Update, Create, ReadLevel, Upsert, AddXp
<1>10. ASSUME NEW t \in Tasks, NEW v \in Users,
              StartAward(t, v) \/ StartReferral(t, v) \/ StartEvaluation(t, v)
       PROVE  Grows(u, 0)
  BY <1>2, <1>10 DEF StartAward, StartReferral, StartEvaluation, Start
<1>11. CASE UNCHANGED vars
  BY <1>2, <1>11 DEF vars, XpChange
<1> QED
  BY <1>4, <1>5, <1>6, <1>7, <1>8, <1>9, <1>10, <1>11 DEF Next, XpChange

\* XP is only ever added to, except by a referral.
LEMMA XpGrows ==
  ASSUME TypeOK, [Next]_vars, NEW u \in Users
  PROVE  /\ history[u].granted <= history'[u].granted
         /\ history[u].referred => history'[u].referred
         /\ ~ history'[u].referred => user[u].xp <= user'[u].xp
<1>1. ASSUME NEW n \in Nat, Grows(u, n)
      PROVE  /\ history[u].granted <= history'[u].granted
             /\ history[u].referred => history'[u].referred
             /\ user[u].xp <= user'[u].xp
  BY <1>1, Numbers DEF Grows
<1>2. ASSUME NEW t \in Tasks, Overwrites(t, u)
      PROVE  history[u].granted <= history'[u].granted /\ history'[u].referred
  BY <1>2, Numbers DEF Overwrites, REFERRAL_XP
<1>3. CASE \E n \in Nat : Grows(u, n)
  BY <1>1, <1>3
<1>4. CASE \E t \in Tasks : Overwrites(t, u)
  BY <1>2, <1>4
<1>5. (\E n \in Nat : Grows(u, n)) \/ (\E t \in Tasks : Overwrites(t, u))
  BY WritesXp DEF XpChange
<1> QED
  BY <1>3, <1>4, <1>5, Zenon

\* An award adds its XP to what is stored when it commits.
LEMMA AwardGrows ==
  ASSUME TypeOK, NEW t \in Tasks, CommitAward(t)
  PROVE  /\ task[t] \in TaskRecords /\ Running(t) /\ task[t].user \in Users
         /\ user'[task[t].user].xp = user[task[t].user].xp + XpReward
         /\ user'[task[t].user].level = AwardedLevel(t)
<1>1. task[t] \in TaskRecords /\ Running(t) /\ task[t].user \in Users
  BY OpenType DEF CommitAward, At, Running
<1> QED
  BY <1>1 DEF CommitAward, AwardedXp, Player, TypeOK

\* A referral marks its player.
LEMMA ReferralMarks ==
  ASSUME TypeOK, NEW t \in Tasks, CommitReferral(t)
  PROVE  history'[task[t].user].referred
<1>1. task[t].user \in Users
  BY OpenType DEF CommitReferral, At
<1>2. ASSUME NEW h \in HistoryRecords, NEW n
      PROVE  [h EXCEPT !.granted = n, !.referred = TRUE].referred
  <2>1. [h EXCEPT !.granted = n] \in [granted : {n}, referred : BOOLEAN,
                                      announced : Nat \ {0}, lost : BOOLEAN]
    BY DEF HistoryRecords
  <2> QED
    BY <2>1
<1> QED
  BY <1>1, <1>2 DEF CommitReferral, Player, TypeOK

\* What a task has read stays below what is granted, and below what is stored
\* until a referral is committed.
LEMMA ReadStep ==
  ASSUME TypeOK, TypeOK', XpAccounted, ReadInv, [Next]_vars
  PROVE  ReadInv'
<1> SUFFICES ASSUME NEW t \in Tasks, Running(t)'
             PROVE  LET u == task'[t].user
                    IN  /\ task'[t].xpRead <= history'[u].granted
                        /\ ~ history'[u].referred => task'[t].xpRead <= user'[u].xp
                        /\ (task'[t].step = "emitAward" /\ ~ history'[u].referred)
                             => task'[t].xpRead + XpReward <= user'[u].xp
                        /\ task'[t].step = "emitReferral" => history'[u].referred
  BY DEF ReadInv, ReadOK
<1> DEFINE u == task'[t].user
<1>1. CASE Fresh(t)
  <2>1. /\ user'[u].xp \in Nat
        /\ history'[u].granted \in Nat
    BY <1>1 DEF Fresh, TypeOK, UserRecords, HistoryRecords
  <2> QED
    BY <1>1, <2>1 DEF Fresh, Emitting
<1>2. ASSUME Running(t)
      PROVE  task[t] \in TaskRecords /\ task[t].user \in Users /\ task[t].xpRead \in Nat
  BY <1>2, OpenType DEF Running, TaskRecords
<1>3. CASE Reads(t)
  BY <1>2, <1>3, Numbers DEF Reads, Emitting, XpAccounted
<1>4. ASSUME Kept(t)
      PROVE  /\ u \in Users /\ Running(t)
             /\ task'[t].xpRead <= history'[u].granted
             /\ ~ history'[u].referred => task'[t].xpRead <= user'[u].xp
             /\ history[u].referred => history'[u].referred
             /\ ~ history'[u].referred => user[u].xp <= user'[u].xp
  <2>1. Running(t) /\ u = task[t].user /\ task'[t].xpRead = task[t].xpRead
    BY <1>4 DEF Kept
  <2>2. u \in Users /\ task[t].xpRead \in Nat
    BY <1>2, <2>1
  <2>3. /\ task[t].xpRead <= history[u].granted
        /\ ~ history[u].referred => task[t].xpRead <= user[u].xp
    BY <2>1 DEF ReadInv, ReadOK
  <2>4. /\ history[u].granted <= history'[u].granted
        /\ history[u].referred => history'[u].referred
        /\ ~ history'[u].referred => user[u].xp <= user'[u].xp
    BY <2>2, XpGrows
  <2>5. /\ user[u].xp \in Nat /\ history[u].granted \in Nat
        /\ user'[u].xp \in Nat /\ history'[u].granted \in Nat
    BY <2>2 DEF TypeOK, UserRecords, HistoryRecords
  <2> QED
    BY <2>1, <2>2, <2>3, <2>4, <2>5
<1>5. CASE Kept(t) /\ task'[t].step \notin Emitting
  BY <1>4, <1>5 DEF Emitting
<1>6. CASE task'[t] = task[t]
  <2>1. Kept(t) /\ task'[t].step = task[t].step
    BY <1>6 DEF Kept, Running
  <2>2. /\ (task[t].step = "emitAward" /\ ~ history[u].referred)
             => task[t].xpRead + XpReward <= user[u].xp
        /\ task[t].step = "emitReferral" => history[u].referred
    BY <1>6, <2>1 DEF Kept, ReadInv, ReadOK
  <2>3. /\ user[u].xp \in Nat /\ user'[u].xp \in Nat /\ task[t].xpRead + XpReward \in Nat
    BY <1>2, <1>4, <2>1, XpAssumption DEF TypeOK, UserRecords
  <2> QED
    BY <1>4, <1>6, <2>1, <2>2, <2>3
<1>7. CASE CommitAward(t) /\ Kept(t) /\ task'[t].step = "emitAward"
  <2>1. u = task[t].user /\ task'[t].xpRead = task[t].xpRead /\ task[t].xpRead \in Nat
        /\ user[u].xp \in Nat
    BY <1>2, <1>7, Numbers DEF Kept
  <2>2. user'[u].xp = user[u].xp + XpReward
    BY <1>7, <2>1, AwardGrows
  <2>3. ~ history'[u].referred => task[t].xpRead <= user[u].xp
    BY <1>4, <1>7, <2>1 DEF Kept, ReadInv, ReadOK
  <2> QED
    BY <1>4, <1>7, <2>1, <2>2, <2>3, XpAssumption
<1>8. CASE CommitReferral(t) /\ Kept(t) /\ task'[t].step = "emitReferral"
  BY <1>4, <1>8, ReferralMarks DEF Kept
<1> QED
  BY <1>1, <1>3, <1>5, <1>6, <1>7, <1>8, TaskStep

\* Stored XP is the XP granted, until a referral overwrites it, and never more.
LEMMA AccountStep ==
  ASSUME TypeOK, XpAccounted, ReadInv, [Next]_vars
  PROVE  XpAccounted'
<1> SUFFICES ASSUME NEW u \in Users
             PROVE  /\ user'[u].xp <= history'[u].granted
                    /\ ~ history'[u].referred => user'[u].xp = history'[u].granted
  BY DEF XpAccounted
<1>1. /\ user[u].xp <= history[u].granted
      /\ ~ history[u].referred => user[u].xp = history[u].granted
  BY DEF XpAccounted
<1>2. ASSUME NEW n \in Nat, Grows(u, n)
      PROVE  /\ user'[u].xp <= history'[u].granted
             /\ ~ history'[u].referred => user'[u].xp = history'[u].granted
  BY <1>1, <1>2, Numbers DEF Grows
<1>3. ASSUME NEW t \in Tasks, Overwrites(t, u)
      PROVE  user'[u].xp <= history'[u].granted /\ history'[u].referred
  <2>1. task[t] \in TaskRecords /\ Running(t)
    BY <1>3, OpenType DEF Overwrites, CommitReferral, At, Running
  <2>2. task[t].xpRead <= history[u].granted /\ task[t].xpRead \in Nat
    BY <1>3, <2>1 DEF Overwrites, ReadInv, ReadOK, TaskRecords
  <2> QED
    BY <1>3, <2>2, Numbers DEF Overwrites, REFERRAL_XP
<1>4. CASE \E n \in Nat : Grows(u, n)
  BY <1>2, <1>4
<1>5. CASE \E t \in Tasks : Overwrites(t, u)
  BY <1>3, <1>5
<1>6. (\E n \in Nat : Grows(u, n)) \/ (\E t \in Tasks : Overwrites(t, u))
  BY WritesXp DEF XpChange
<1> QED
  BY <1>4, <1>5, <1>6, Zenon

XpInv == XpAccounted /\ ReadInv

\* XpInv is an invariant of the system.
LEMMA XpInvCorrect == Spec => []XpInv
<1>1. Init => XpInv
  BY DEF Init, XpInv, XpAccounted, ReadInv, ReadOK, Running, Idle
<1>2. TypeOK /\ TypeOK' /\ XpInv /\ [Next]_vars => XpInv'
  BY ReadStep, AccountStep DEF XpInv
<1> QED
  BY <1>1, <1>2, TypeCorrect, PTL DEF Spec

\* Of any number of awards, bonuses and referrals of any amounts, in whatever
\* order their statements run, no XP is made up, and none is lost but to a
\* referral.
THEOREM XpCorrect == Spec => []XpAccounted
BY XpInvCorrect, PTL DEF XpInv

-----------------------------------------------------------------------------
(* Levels.                                                                 *)

\* What one step does to the stored level.
LEMMA LevelStep ==
  ASSUME TypeOK, [Next]_vars, NEW u \in Users
  PROVE  \/ user'[u].level = user[u].level /\ user'[u].xp = user[u].xp
         \/ user'[u].level = LevelFromXp(user'[u].xp)
         \/ \E t \in Tasks : CommitAward(t) /\ task[t].user = u
         \/ history'[u].referred
<1>1. ASSUME NEW t \in Tasks, CommitAward(t)
      PROVE  task[t].user = u \/ user'[u] = user[u]
  BY <1>1, OpenType DEF CommitAward, At, Player, TypeOK
<1>2. ASSUME NEW t \in Tasks, CommitUnlock(t)
      PROVE  user'[u] = user[u] \/ user'[u].level = LevelFromXp(user'[u].xp)
  <2>1. task[t].user \in Users
    BY <1>2, OpenType DEF CommitUnlock, At
  <2>2. ASSUME NEW x, NEW level
        PROVE  [user[u] EXCEPT !.xp = x, !.level = level].xp = x
               /\ [user[u] EXCEPT !.xp = x, !.level = level].level = level
    <3>1. [user[u] EXCEPT !.xp = x] \in [xp : {x}, level : Nat \ {0}, questsCompleted : Nat]
      BY DEF TypeOK, UserRecords
    <3> QED
      BY <3>1
  <2>3. u = task[t].user => user'[u] = UnlockedUser(t)
    BY <1>2, <2>1 DEF CommitUnlock, Player, TypeOK
  <2>4. u # task[t].user => user'[u] = user[u]
    BY <1>2, <2>1 DEF CommitUnlock, Player, TypeOK
  <2>5. u = task[t].user =>
          \/ UnlockedUser(t) = user[u]
          \/ UnlockedUser(t) = [user[u] EXCEPT
               !.xp = user[u].xp + XpBonus[Definition(t)],
               !.level = LevelFromXp(user[u].xp + XpBonus[Definition(t)])]
    BY Zenon DEF UnlockedUser, Player
  <2>6. u = task[t].user =>
          UnlockedUser(t) = user[u] \/ UnlockedUser(t).level = LevelFromXp(UnlockedUser(t).xp)
    <3>1. CASE UnlockedUser(t) = user[u]
      BY <3>1
    <3>2. CASE UnlockedUser(t) = [user[u] EXCEPT
                 !.xp = user[u].xp + XpBonus[Definition(t)],
                 !.level = LevelFromXp(user[u].xp + XpBonus[Definition(t)])]
      BY <2>2, <3>2
    <3> QED
      BY <2>5, <3>1, <3>2
  <2> QED
    BY <2>3, <2>4, <2>6
<1>3. ASSUME NEW t \in Tasks, CommitReferral(t)
      PROVE  history'[u].referred \/ user'[u] = user[u]
  <2>1. task[t].user \in Users
    BY <1>3, OpenType DEF CommitReferral, At
  <2> QED
    BY <1>3, <2>1, ReferralMarks DEF CommitReferral, Player, TypeOK
<1>4. ASSUME NEW v \in Users, Restart(v)
      PROVE  user'[u].level = user[u].level /\ user'[u].xp = user[u].xp
  BY <1>4 DEF Restart, TypeOK, UserRecords
<1>5. ASSUME NEW t \in Tasks, Run(t) \/ Crash(t), ~ CommitAward(t), ~ CommitUnlock(t),
             ~ CommitReferral(t)
      PROVE  UNCHANGED user
  BY <1>5 DEF Run, Crash, ReadXp, WriteAward, EmitAward, ReadInviter, WriteBonus, EmitReferral,
     Find, Measure, Update, Create, ReadLevel, Upsert, AddXp, ReadAfter
<1>6. ASSUME NEW t \in Tasks, NEW v \in Users,
             StartAward(t, v) \/ StartReferral(t, v) \/ StartEvaluation(t, v)
      PROVE  UNCHANGED user
  BY <1>6 DEF StartAward, StartReferral, StartEvaluation, Start
<1>7. CASE UNCHANGED vars
  BY <1>7 DEF vars
<1> QED
  BY <1>1, <1>2, <1>3, <1>4, <1>5, <1>6, <1>7 DEF Next

\* The level an award writes is at most the one its XP is worth at the commit.
LEMMA AwardLevel ==
  ASSUME TypeOK, ReadInv, NEW t \in Tasks, CommitAward(t), ~ history[task[t].user].referred
  PROVE  user'[task[t].user].level <= LevelFromXp(user'[task[t].user].xp)
<1>1. task[t] \in TaskRecords /\ Running(t) /\ task[t].user \in Users
  BY AwardGrows
<1>2. task[t].xpRead \in Nat /\ user[task[t].user].xp \in Nat
  BY <1>1, Numbers DEF TaskRecords
<1>3. task[t].xpRead <= user[task[t].user].xp
  BY <1>1 DEF ReadInv, ReadOK
<1>4. LevelFromXp(task[t].xpRead + XpReward) <= LevelFromXp(user[task[t].user].xp + XpReward)
  BY <1>2, <1>3, XpAssumption, LevelMonotone
<1> QED
  BY <1>4, AwardGrows DEF AwardedLevel

\* Awards compute levels from XP that may be stale, bonuses store levels in
\* between: the stored level is never above the one the stored XP is worth, for
\* a player no referral of whom has committed.
THEOREM LevelCorrect == Spec => []LevelNotAboveXp
<1>1. Init => LevelNotAboveXp
  BY DEF Init, LevelNotAboveXp, LevelFromXp, MIN_LEVEL
<1>2. TypeOK /\ TypeOK' /\ XpInv /\ LevelNotAboveXp /\ [Next]_vars => LevelNotAboveXp'
  <2> SUFFICES ASSUME TypeOK, TypeOK', XpInv, LevelNotAboveXp, [Next]_vars, NEW u \in Users,
                      ~ history'[u].referred
               PROVE  user'[u].level <= LevelFromXp(user'[u].xp)
    BY DEF LevelNotAboveXp
  <2>1. ~ history[u].referred
    BY XpGrows
  <2>2. user[u].level <= LevelFromXp(user[u].xp)
    BY <2>1 DEF LevelNotAboveXp
  <2>3. CASE user'[u].level = LevelFromXp(user'[u].xp)
    <3>1. user'[u].level \in Nat
      BY DEF TypeOK, UserRecords
    <3> QED
      BY <2>3, <3>1
  <2>4. CASE user'[u].level = user[u].level /\ user'[u].xp = user[u].xp
    BY <2>2, <2>4
  <2>5. ASSUME NEW t \in Tasks, CommitAward(t), task[t].user = u
        PROVE  user'[u].level <= LevelFromXp(user'[u].xp)
    BY <2>1, <2>5, AwardLevel DEF XpInv
  <2> QED
    BY <2>3, <2>4, <2>5, LevelStep
<1> QED
  BY <1>1, <1>2, TypeCorrect, XpInvCorrect, PTL DEF Spec

\* Nothing is announced to u, or a level that a task of u has computed.
AnnounceCase(u) ==
  \/ history'[u].announced = history[u].announced
  \/ /\ UNCHANGED user
     /\ \E t \in Tasks :
          /\ task[t].user = u /\ Running(t)
          /\ \/ /\ task[t].step = "emitAward"
                /\ history'[u].announced = Announced(u, AwardedLevel(t))
             \/ task[t].step = "emitReferral"
             \/ history'[u].announced = Announced(u, user[u].level)

\* What one step announces.
LEMMA AnnounceStep ==
  ASSUME TypeOK, [Next]_vars, NEW u \in Users
  PROVE  AnnounceCase(u)
<1>1. ASSUME NEW v \in Users, NEW level,
             history' = [history EXCEPT ![v].announced = Announced(v, level)]
      PROVE  /\ u = v => history'[u].announced = Announced(u, level)
             /\ u # v => history'[u] = history[u]
  BY <1>1 DEF TypeOK, HistoryRecords
<1>2. ASSUME NEW t \in Tasks, EmitAward(t) \/ EmitReferral(t) \/ ReadAfter(t)
      PROVE  Running(t) /\ task[t].user \in Users /\ UNCHANGED user
  BY <1>2, OpenType DEF EmitAward, EmitReferral, ReadAfter, At, Running
<1>3. ASSUME NEW t \in Tasks, EmitAward(t)
      PROVE  history'[u].announced = history[u].announced
             \/ (task[t].user = u /\ task[t].step = "emitAward"
                   /\ history'[u].announced = Announced(u, AwardedLevel(t)))
  <2>1. task[t].user \in Users /\ task[t].step = "emitAward"
    BY <1>2, <1>3 DEF EmitAward, At
  <2>2. CASE history' = history
    BY <2>2
  <2>3. CASE history' = [history EXCEPT ![task[t].user].announced =
                           Announced(task[t].user, AwardedLevel(t))]
    BY <1>1, <2>1, <2>3
  <2> QED
    BY <1>3, <2>2, <2>3 DEF EmitAward, Player
<1>4. ASSUME NEW t \in Tasks, EmitReferral(t)
      PROVE  history'[u].announced = history[u].announced
             \/ (task[t].user = u /\ task[t].step = "emitReferral")
  BY <1>1, <1>2, <1>4 DEF EmitReferral, At, Player
<1>5. ASSUME NEW t \in Tasks, ReadAfter(t)
      PROVE  history'[u].announced = history[u].announced
             \/ (task[t].user = u /\ history'[u].announced = Announced(u, user[u].level))
  <2>1. task[t].user \in Users
    BY <1>2, <1>5
  <2>2. CASE history' = history
    BY <2>2
  <2>3. CASE history' = [history EXCEPT ![task[t].user].announced =
                           Announced(task[t].user, user[task[t].user].level)]
    BY <1>1, <2>1, <2>3
  <2> QED
    BY <1>5, <2>2, <2>3 DEF ReadAfter, Player
<1>6. ASSUME NEW v \in Users, NEW n
      PROVE  [history EXCEPT ![v].granted = n][u].announced = history[u].announced
  BY DEF TypeOK, HistoryRecords
<1>7. ASSUME NEW t \in Tasks, CommitAward(t) \/ CommitUnlock(t)
      PROVE  history'[u].announced = history[u].announced
  <2>1. task[t].user \in Users
    BY <1>7, OpenType DEF CommitAward, CommitUnlock, At
  <2>2. PICK n : history' = [history EXCEPT ![task[t].user].granted = n]
    BY <1>7 DEF CommitAward, CommitUnlock, Player
  <2> QED
    BY <1>6, <2>1, <2>2
<1>8. ASSUME NEW t \in Tasks, CommitReferral(t)
      PROVE  history'[u].announced = history[u].announced
  <2>1. task[t].user \in Users
    BY <1>8, OpenType DEF CommitReferral, At
  <2>2. ASSUME NEW n
        PROVE  [history[u] EXCEPT !.granted = n, !.referred = TRUE].announced
                 = history[u].announced
    BY DEF TypeOK, HistoryRecords
  <2> QED
    BY <1>8, <2>1, <2>2 DEF CommitReferral, Player, TypeOK
<1>9. ASSUME NEW t \in Tasks, Crash(t)
      PROVE  history'[u].announced = history[u].announced
  <2>1. PICK S : history' = [v \in Users |-> [history[v] EXCEPT !.lost =
                               @ \/ \E s \in S : Player(s) = v]]
    BY <1>9 DEF Crash
  <2>2. \A b : [history[u] EXCEPT !.lost = b].announced = history[u].announced
    BY DEF TypeOK, HistoryRecords
  <2> QED
    BY <2>1, <2>2
<1>10. ASSUME NEW t \in Tasks, Run(t), ~ Crash(t), ~ CommitAward(t), ~ CommitUnlock(t),
              ~ CommitReferral(t), ~ EmitAward(t), ~ EmitReferral(t), ~ ReadAfter(t)
       PROVE  UNCHANGED history
  BY <1>10 DEF Run, ReadXp, WriteAward, ReadInviter, WriteBonus, Find, Measure, Update, Create,
     ReadLevel, Upsert, AddXp
<1>11. ASSUME NEW v \in Users,
              Restart(v) \/ \E t \in Tasks :
                StartAward(t, v) \/ StartReferral(t, v) \/ StartEvaluation(t, v)
       PROVE  UNCHANGED history
  BY <1>11 DEF StartAward, StartReferral, StartEvaluation, Start, Restart
<1>12. CASE UNCHANGED vars
  BY <1>12 DEF vars, AnnounceCase
<1>13. ASSUME NEW t \in Tasks, Run(t)
       PROVE  AnnounceCase(u)
  <2>1. CASE EmitAward(t)
    BY <1>2, <1>3, <2>1 DEF AnnounceCase
  <2>2. CASE EmitReferral(t)
    BY <1>2, <1>4, <2>2 DEF AnnounceCase
  <2>3. CASE ReadAfter(t)
    BY <1>2, <1>5, <2>3 DEF AnnounceCase
  <2> QED
    BY <1>7, <1>8, <1>9, <1>10, <1>13, <2>1, <2>2, <2>3 DEF AnnounceCase
<1>14. ASSUME UNCHANGED history
       PROVE  AnnounceCase(u)
  BY <1>14 DEF AnnounceCase
<1>15. ASSUME NEW t \in Tasks, Crash(t)
       PROVE  AnnounceCase(u)
  BY <1>9, <1>15 DEF AnnounceCase
<1>16. ASSUME Next
       PROVE  AnnounceCase(u)
  BY <1>11, <1>13, <1>14, <1>15, <1>16 DEF Next
<1> QED
  BY <1>12, <1>16

\* A LevelUp event never names a level above what the committed XP is worth,
\* whatever rolls back and however stale the XP its level was computed from.
THEOREM LevelUpCorrect == Spec => []LevelUpTruthful
<1>1. Init => LevelUpTruthful
  BY DEF Init, LevelUpTruthful, LevelFromXp, MIN_LEVEL
<1>2. TypeOK /\ TypeOK' /\ XpInv /\ LevelNotAboveXp /\ LevelUpTruthful /\ [Next]_vars
        => LevelUpTruthful'
  <2> SUFFICES ASSUME TypeOK, TypeOK', XpInv, LevelNotAboveXp, LevelUpTruthful, [Next]_vars,
                      NEW u \in Users, ~ history'[u].referred
               PROVE  history'[u].announced <= LevelFromXp(user'[u].xp)
    BY DEF LevelUpTruthful
  <2>1. ~ history[u].referred /\ user[u].xp <= user'[u].xp
    BY XpGrows
  <2>2. user[u].xp \in Nat /\ user'[u].xp \in Nat
    BY DEF TypeOK, UserRecords
  <2>3. LevelFromXp(user[u].xp) <= LevelFromXp(user'[u].xp)
    BY <2>1, <2>2, LevelMonotone
  <2>4. history[u].announced <= LevelFromXp(user[u].xp)
    BY <2>1 DEF LevelUpTruthful
  <2>5. /\ LevelFromXp(user[u].xp) \in Nat /\ LevelFromXp(user'[u].xp) \in Nat
        /\ history[u].announced \in Nat
    BY <2>2, LevelType, Numbers
  <2>6. CASE history'[u].announced = history[u].announced
    BY <2>3, <2>4, <2>5, <2>6
  <2>7. ASSUME NEW level, level <= LevelFromXp(user[u].xp), UNCHANGED user,
               history'[u].announced = Announced(u, level)
        PROVE  history'[u].announced <= LevelFromXp(user'[u].xp)
    BY <2>4, <2>7 DEF Announced
  <2>8. ASSUME NEW t \in Tasks, task[t].user = u, Running(t)
        PROVE  /\ task[t].step = "emitAward" => AwardedLevel(t) <= LevelFromXp(user[u].xp)
               /\ task[t].step # "emitReferral"
    <3>1. task[t].xpRead \in Nat
      BY <2>8, OpenType DEF Running, TaskRecords
    <3>2. task[t].step = "emitAward" => task[t].xpRead + XpReward <= user[u].xp
      BY <2>1, <2>8 DEF XpInv, ReadInv, ReadOK
    <3>3. task[t].step # "emitReferral"
      BY <2>1, <2>8 DEF XpInv, ReadInv, ReadOK
    <3> QED
      BY <2>2, <3>1, <3>2, <3>3, XpAssumption, LevelMonotone DEF AwardedLevel
  <2>9. user[u].level <= LevelFromXp(user[u].xp)
    BY <2>1 DEF LevelNotAboveXp
  <2> QED
    BY <2>6, <2>7, <2>8, <2>9, AnnounceStep DEF AnnounceCase
<1> QED
  BY <1>1, <1>2, TypeCorrect, XpInvCorrect, LevelCorrect, PTL DEF Spec

-----------------------------------------------------------------------------
(* Unlocked achievements.                                                  *)

\* A row that does not exist is not unlocked.
RowInv == \A u \in Users, a \in Achievements : achieved[u][a].unlocked => achieved[u][a].exists

\* The row of u and a stays as locked as it was, is created or is unlocked.
RowCase(u, a) ==
  \/ /\ achieved'[u][a].unlocked = achieved[u][a].unlocked
     /\ achieved'[u][a].exists = achieved[u][a].exists
  \/ ~ achieved[u][a].exists /\ ~ achieved'[u][a].unlocked
  \/ achieved'[u][a].exists /\ achieved'[u][a].unlocked

\* What one step does to a UserAchievement row.
LEMMA RowStep ==
  ASSUME TypeOK, [Next]_vars, NEW u \in Users, NEW a \in Achievements
  PROVE  RowCase(u, a)
<1>1. ASSUME NEW t \in Tasks, Update(t) \/ Create(t) \/ CommitUnlock(t)
      PROVE  task[t].user \in Users /\ Definition(t) \in Achievements
  BY <1>1, OpenType DEF Update, Create, CommitUnlock, At
<1>2. ASSUME NEW t \in Tasks, Update(t)
      PROVE  /\ achieved'[u][a].unlocked = achieved[u][a].unlocked
             /\ achieved'[u][a].exists = achieved[u][a].exists
  <2>1. \A n : /\ [achieved[u][a] EXCEPT !.progress = n].unlocked = achieved[u][a].unlocked
               /\ [achieved[u][a] EXCEPT !.progress = n].exists = achieved[u][a].exists
    BY DEF TypeOK, UserAchievementRows
  <2> QED
    BY <1>1, <1>2, <2>1 DEF Update, Player, TypeOK
<1>3. ASSUME NEW t \in Tasks, Create(t), ~ Crash(t)
      PROVE  achieved'[u][a] = achieved[u][a]
             \/ (~ achieved[u][a].exists /\ ~ achieved'[u][a].unlocked)
  <2>1. CASE u = task[t].user /\ a = Definition(t)
    BY <1>1, <1>3, <2>1 DEF Create, Existing, InProgress, Player, TypeOK
  <2>2. CASE u # task[t].user
    BY <1>1, <1>3, <2>2 DEF Create, Player, TypeOK
  <2>3. CASE u = task[t].user /\ a # Definition(t)
    BY <1>1, <1>3, <2>3 DEF Create, Player, TypeOK
  <2> QED
    BY <2>1, <2>2, <2>3
<1>4. ASSUME NEW t \in Tasks, CommitUnlock(t)
      PROVE  achieved'[u][a] = achieved[u][a]
             \/ (achieved'[u][a].exists /\ achieved'[u][a].unlocked)
  <2>1. CASE u = task[t].user /\ a = Definition(t)
    BY <1>1, <1>4, <2>1 DEF CommitUnlock, Player, TypeOK
  <2>2. CASE u # task[t].user
    BY <1>1, <1>4, <2>2 DEF CommitUnlock, Player, TypeOK
  <2>3. CASE u = task[t].user /\ a # Definition(t)
    BY <1>1, <1>4, <2>3 DEF CommitUnlock, Player, TypeOK
  <2> QED
    BY <2>1, <2>2, <2>3
<1>5. ASSUME NEW t \in Tasks, Run(t) \/ Crash(t), ~ Update(t), ~ CommitUnlock(t),
             ~ (Create(t) /\ ~ Crash(t))
      PROVE  UNCHANGED achieved
  BY <1>5 DEF Run, Crash, ReadXp, WriteAward, CommitAward, EmitAward, ReadInviter, WriteBonus,
     CommitReferral, EmitReferral, Find, Measure, ReadLevel, Upsert, AddXp, ReadAfter
<1>6. ASSUME NEW v \in Users,
             Restart(v) \/ \E t \in Tasks :
               StartAward(t, v) \/ StartReferral(t, v) \/ StartEvaluation(t, v)
      PROVE  UNCHANGED achieved
  BY <1>6 DEF StartAward, StartReferral, StartEvaluation, Start, Restart
<1>7. CASE UNCHANGED vars
  BY <1>7 DEF vars, RowCase
<1>8. ASSUME NEW t \in Tasks, Run(t) \/ Crash(t)
      PROVE  RowCase(u, a)
  BY <1>2, <1>3, <1>4, <1>5, <1>8 DEF RowCase
<1>9. ASSUME UNCHANGED achieved
      PROVE  RowCase(u, a)
  BY <1>9 DEF RowCase
<1>10. ASSUME Next
       PROVE  RowCase(u, a)
  BY <1>6, <1>8, <1>9, <1>10 DEF Next
<1> QED
  BY <1>7, <1>10

\* No evaluation, whatever copy of the row it holds, takes an unlocked
\* achievement back.
THEOREM UnlockCorrect == Spec => UnlockIsFinal
<1>1. Init => RowInv
  BY DEF Init, RowInv, EarlierRows, NoRow, InProgress
<1>2. TypeOK /\ RowInv /\ [Next]_vars => RowInv'
  BY RowStep DEF RowInv, RowCase
<1>3. TypeOK /\ RowInv /\ [Next]_vars
        => [\A u \in Users, a \in Achievements :
              achieved[u][a].unlocked => achieved'[u][a].unlocked]_vars
  BY RowStep DEF RowInv, RowCase
<1> QED
  BY <1>1, <1>2, <1>3, TypeCorrect, PTL DEF Spec, UnlockIsFinal
=============================================================================
