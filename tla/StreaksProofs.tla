--------------------------- MODULE StreaksProofs ---------------------------
(***************************************************************************)
(* A streak is no longer than the days it was earned on, and the nightly   *)
(* job spares who is active, for any length of the windows, any number of  *)
(* overlapping finalizations and any bound on the streak.                  *)
(***************************************************************************)
EXTENDS Streaks, TLAPS

(* Types. *)

\* computeStreak yields a streak.
LEMMA StreakType ==
  ASSUME NEW current \in Nat, NEW age \in Nat
  PROVE  /\ Streak(current, age) \in Nat
         /\ Streak(current, age) <= current + 1
BY DEF Streak, Larger

\* The ages a finalization writes, and those that stand for none, are moments.
LEMMA AgesFit ==
  /\ Never \in Nat
  /\ {0, 1, Old, Never} \subseteq 0 .. Never
BY TicksAssumption DEF Never, Old

\* A moment that is aged by a tick is a moment.
LEMMA OlderType ==
  ASSUME NEW age \in 0 .. Never
  PROVE  /\ Older(age) \in 0 .. Never
         /\ Older(age) <= age + 1
BY TicksAssumption DEF Older, UpTo, Never, Old

\* A finalization at work is a record of what it is about to write.
LEMMA OpenType ==
  ASSUME TypeOK, NEW f \in Finalizations, finalization[f].open
  PROVE  finalization[f] \in Open
<1>1. finalization[f] \in Open \cup {Idle}
  BY DEF TypeOK
<1>2. ~ Idle.open
  BY DEF Idle
<1> QED
  BY <1>1, <1>2

\* A count of days that stops at the bound.
LEMMA UpToType ==
  ASSUME NEW n \in 0 .. MaxStreak
  PROVE  UpTo(MaxStreak, n + 1) \in 1 .. MaxStreak
BY BoundsAssumption DEF UpTo

LEMMA ReadUserType ==
  ASSUME TypeOK, NEW f \in Finalizations, ReadUser(f)
  PROVE  TypeOK'
<1>0. lastAge \in Nat /\ streakDays \in Nat /\ longestStreakDays \in 0 .. MaxStreak
  BY TicksAssumption, BoundsAssumption DEF TypeOK, Never, Old
<1>1. Streak(streakDays, lastAge) \in 0 .. MaxStreak
  BY <1>0, StreakType, BoundsAssumption DEF ReadUser
<1>2. Longest \in 0 .. MaxStreak
  BY <1>0, <1>1 DEF Longest, Larger
<1>3. [open |-> TRUE, streak |-> Streak(streakDays, lastAge), longest |-> Longest,
        age |-> 0, outdated |-> FALSE] \in Open
  BY <1>1, <1>2 DEF Open
<1>4. finalization' \in [Finalizations -> Open \cup {Idle}]
  BY <1>3 DEF ReadUser, TypeOK
<1>5. UpTo(MaxStreak, calendar.days + 1) \in 0 .. MaxStreak
  BY UpToType, BoundsAssumption DEF TypeOK, Calendars
<1>6. calendar' \in Calendars
  BY <1>5 DEF ReadUser, TypeOK, Calendars
<1> QED
  BY <1>4, <1>6 DEF TypeOK, ReadUser

LEMMA WriteUserType ==
  ASSUME TypeOK, NEW f \in Finalizations, WriteUser(f)
  PROVE  TypeOK'
<1>1. finalization[f] \in Open
  BY OpenType DEF WriteUser
<1>2. ASSUME NEW g \in Finalizations, finalization[g].open
      PROVE  [finalization[g] EXCEPT !.outdated = TRUE] \in Open
  <2>1. finalization[g] \in Open
    BY <1>2, OpenType
  <2> QED
    BY <2>1 DEF Open
<1>3. finalization' \in [Finalizations -> Open \cup {Idle}]
  BY <1>2 DEF WriteUser
<1>4. lastAge' \in 0 .. Never
  BY <1>1, AgesFit DEF WriteUser, Open
<1>5. streakDays' \in 0 .. MaxStreak /\ longestStreakDays' \in 0 .. MaxStreak
  BY <1>1 DEF WriteUser, Open
<1>6. finalization[f].outdated \in BOOLEAN
  BY <1>1 DEF Open
<1>7. calendar' \in Calendars
  BY <1>6 DEF WriteUser, TypeOK, Calendars
<1> QED
  BY <1>3, <1>4, <1>5, <1>7 DEF TypeOK, WriteUser

LEMMA TickType ==
  ASSUME TypeOK, Tick
  PROVE  TypeOK'
<1>1. clock' \in 0 .. TicksPerDay - 1
  BY TicksAssumption DEF TypeOK, Tick
<1>2. lastAge' \in 0 .. Never
  BY OlderType DEF TypeOK, Tick
<1>3. ASSUME NEW f \in Finalizations, finalization[f].open
      PROVE  [finalization[f] EXCEPT !.age = 1] \in Open
  <2>1. finalization[f] \in Open
    BY <1>3, OpenType
  <2> QED
    BY <2>1 DEF Open
<1>4. finalization' \in [Finalizations -> Open \cup {Idle}]
  BY <1>3 DEF Tick
<1>5. UpTo(MaxStreak, calendar.run + 1) \in 0 .. MaxStreak
  BY UpToType, BoundsAssumption DEF TypeOK, Calendars
<1>6. calendar' \in Calendars
  <2>1. CASE clock' = 0
    <3>1. calendar' = [calendar EXCEPT
                         !.run = IF calendar.today THEN UpTo(MaxStreak, calendar.run + 1) ELSE 0,
                         !.today = FALSE]
      BY <2>1 DEF Tick
    <3>2. calendar \in Calendars
      BY DEF TypeOK
    <3>3. 0 \in 0 .. MaxStreak
      BY BoundsAssumption
    <3>4. (IF calendar.today THEN UpTo(MaxStreak, calendar.run + 1) ELSE 0) \in 0 .. MaxStreak
      BY <1>5, <3>3
    <3> QED
      BY <3>1, <3>2, <3>4 DEF Calendars
  <2>2. CASE clock' # 0
    BY <2>2 DEF Tick, TypeOK
  <2> QED
    BY <2>1, <2>2
<1>7. due' \in BOOLEAN /\ UNCHANGED <<streakDays, longestStreakDays>>
  BY DEF Tick
<1> QED
  BY <1>1, <1>2, <1>4, <1>6, <1>7 DEF TypeOK

LEMMA RolloverType ==
  ASSUME TypeOK, Rollover \/ MissRollover
  PROVE  TypeOK'
<1>1. streakDays' \in 0 .. MaxStreak
  BY BoundsAssumption DEF TypeOK, Rollover, MissRollover
<1>2. due' \in BOOLEAN /\ UNCHANGED <<clock, longestStreakDays, lastAge, finalization, calendar>>
  BY DEF Rollover, MissRollover
<1> QED
  BY <1>1, <1>2 DEF TypeOK

\* Every variable keeps its type (every statement of a finalization, the nightly job,
\* and time).
THEOREM TypeCorrect == Spec => []TypeOK
<1>1. Init => TypeOK
  <2> SUFFICES ASSUME Init PROVE TypeOK
    OBVIOUS
  <2>1. clock \in 0 .. TicksPerDay - 1
    BY TicksAssumption DEF Init
  <2>2. streakDays \in 0 .. MaxStreak /\ longestStreakDays \in 0 .. MaxStreak
    BY BoundsAssumption DEF Init
  <2>3. lastAge \in 0 .. Never
    BY AgesFit DEF Init
  <2>4. calendar \in Calendars
    BY BoundsAssumption DEF Init, Calendars
  <2> QED
    BY <2>1, <2>2, <2>3, <2>4 DEF Init, TypeOK
<1>2. TypeOK /\ [Next]_vars => TypeOK'
  <2> SUFFICES ASSUME TypeOK, [Next]_vars PROVE TypeOK'
    OBVIOUS
  <2>1. CASE UNCHANGED vars
    BY <2>1 DEF vars, TypeOK
  <2>2. ASSUME NEW f \in Finalizations, ReadUser(f) PROVE TypeOK'
    BY <2>2, ReadUserType
  <2>3. ASSUME NEW f \in Finalizations, WriteUser(f) PROVE TypeOK'
    BY <2>3, WriteUserType
  <2>4. CASE Rollover \/ MissRollover
    BY <2>4, RolloverType
  <2>5. CASE Tick
    BY <2>5, TickType
  <2> QED
    BY <2>1, <2>2, <2>3, <2>4, <2>5 DEF Next
<1> QED
  BY <1>1, <1>2, PTL DEF Spec

-----------------------------------------------------------------------------
(* The invariants.                                                         *)

\* What the bound on streaks rests on: a day that has seen a completion counts already,
\* and until one of that day is written, the streak leaves room for it. What is about
\* to be written obeys the same bounds.
EarnInv ==
  /\ StreakEarned
  /\ calendar.today => calendar.days > 0
  /\ (calendar.today /\ lastAge > clock + 1) =>
       streakDays < calendar.days \/ calendar.days = MaxStreak
  /\ \A f \in Finalizations : finalization[f].open =>
       /\ finalization[f].streak <= calendar.days
       /\ finalization[f].streak <= finalization[f].longest

\* f read its user since midnight.
OpenToday(f) == finalization[f].open /\ finalization[f].age <= clock

\* What the nightly job rests on: once today has seen a completion, lastQuestCompletedAt
\* is of today, or will be, unless a finalization that was overtaken set it back; and one
\* that is still at work from yesterday was overtaken by then.
SpareInv ==
  /\ due => clock = 0
  /\ calendar.today =>
       calendar.overtaken \/ lastAge <= clock \/ \E f \in Finalizations : OpenToday(f)
  /\ calendar.today =>
       \/ \E f \in Finalizations : OpenToday(f)
       \/ \A f \in Finalizations :
            (finalization[f].open /\ ~ finalization[f].outdated) => finalization[f].age <= clock
  /\ (due /\ calendar.run > 0) =>
       calendar.overtaken \/ lastAge <= TicksPerDay \/ \E f \in Finalizations : finalization[f].open

-----------------------------------------------------------------------------
(* Streaks are earned.                                                     *)

\* What a finalization reads is earned with the day it reads on.
LEMMA ReadUserEarn ==
  ASSUME TypeOK, EarnInv, NEW f \in Finalizations, ReadUser(f)
  PROVE  EarnInv'
<1> DEFINE streak == Streak(streakDays, lastAge)
<1>0. /\ clock \in Nat /\ clock < TicksPerDay
      /\ lastAge \in Nat /\ streakDays \in Nat /\ longestStreakDays \in Nat
      /\ calendar.days \in 0 .. MaxStreak /\ calendar.today \in BOOLEAN
  BY TicksAssumption, BoundsAssumption, AgesFit DEF TypeOK, Calendars
<1>1. streak \in Nat /\ streak <= MaxStreak
  BY <1>0, StreakType DEF ReadUser
<1>2. calendar'.today /\ calendar'.days =
        (IF calendar.today THEN calendar.days ELSE UpTo(MaxStreak, calendar.days + 1))
  BY DEF ReadUser, TypeOK, Calendars
<1>3. calendar'.days \in 1 .. MaxStreak /\ calendar.days <= calendar'.days
  <2>1. CASE calendar.today
    BY <1>0, <1>2, <2>1 DEF EarnInv
  <2>2. CASE ~ calendar.today
    BY <1>0, <1>2, <2>2, BoundsAssumption DEF UpTo
  <2> QED
    BY <2>1, <2>2
<1>4. streakDays <= calendar.days /\ streakDays <= longestStreakDays
  BY DEF EarnInv, StreakEarned
<1>5. lastAge > clock + 1 => streakDays < calendar'.days \/ calendar'.days = MaxStreak
  <2>1. CASE calendar.today
    BY <1>0, <1>2, <2>1 DEF EarnInv
  <2>2. CASE ~ calendar.today
    BY <1>0, <1>2, <1>4, <2>2, BoundsAssumption DEF UpTo
  <2> QED
    BY <2>1, <2>2
<1>6. streak <= calendar'.days
  <2>1. CASE lastAge = Never
    BY <1>0, <1>3, <1>4, <2>1 DEF Streak, Larger
  <2>2. CASE lastAge # Never /\ lastAge <= STREAK_WINDOW_HOURS
    BY <1>0, <1>3, <1>4, <2>2 DEF Streak
  <2>3. CASE lastAge # Never /\ lastAge > STREAK_WINDOW_HOURS /\ lastAge <= STREAK_RESET_HOURS
    <3>1. lastAge > clock + 1
      BY <1>0, <2>3, TicksAssumption
    <3>2. streak = streakDays + 1
      BY <1>0, <2>3, TicksAssumption DEF Streak
    <3> QED
      BY <1>0, <1>1, <1>3, <1>5, <3>1, <3>2
  <2>4. CASE lastAge # Never /\ lastAge > STREAK_RESET_HOURS
    BY <1>0, <1>3, <2>4, TicksAssumption DEF Streak
  <2> QED
    BY <1>0, <2>1, <2>2, <2>3, <2>4, TicksAssumption
<1>7. Longest \in Nat /\ streak <= Longest
  BY <1>0, <1>1 DEF Longest, Larger
<1>8. ASSUME NEW g \in Finalizations, finalization'[g].open
      PROVE  finalization'[g].streak <= calendar'.days /\ finalization'[g].streak <= finalization'[g].longest
  <2>1. CASE g = f
    <3>1. finalization'[g].streak = streak /\ finalization'[g].longest = Longest
      BY <2>1 DEF ReadUser, TypeOK
    <3> QED
      BY <1>6, <1>7, <3>1
  <2>2. CASE g # f
    <3>1. finalization'[g] = finalization[g]
      BY <2>2 DEF ReadUser, TypeOK
    <3>2. finalization[g].streak \in Nat
      <4>1. finalization[g] \in Open
        BY <1>8, <3>1, OpenType
      <4>2. finalization[g].streak \in 0 .. MaxStreak
        BY <4>1 DEF Open
      <4> QED
        BY <4>2
    <3> QED
      BY <1>0, <1>3, <1>8, <3>1, <3>2 DEF EarnInv
  <2> QED
    BY <2>1, <2>2
<1>9. UNCHANGED <<clock, streakDays, longestStreakDays, lastAge>>
  BY DEF ReadUser
<1>10. StreakEarned'
  BY <1>0, <1>3, <1>4, <1>9 DEF StreakEarned
<1>11. calendar'.days > 0
  BY <1>3
<1> QED
  BY <1>5, <1>8, <1>9, <1>10, <1>11 DEF EarnInv

\* What is written is one of what was read.
LEMMA WriteUserEarn ==
  ASSUME TypeOK, EarnInv, NEW f \in Finalizations, WriteUser(f)
  PROVE  EarnInv'
<1>1. finalization[f] \in Open
  BY OpenType DEF WriteUser
<1>2. calendar'.today = calendar.today /\ calendar'.days = calendar.days
  BY DEF WriteUser, TypeOK, Calendars
<1>3. StreakEarned'
  BY <1>2 DEF WriteUser, EarnInv, StreakEarned
<1>4. ~ (lastAge' > clock' + 1)
  BY <1>1 DEF WriteUser, Open, TypeOK
<1>5. ASSUME NEW g \in Finalizations, finalization'[g].open
      PROVE  finalization'[g].streak <= calendar'.days /\ finalization'[g].streak <= finalization'[g].longest
  <2>1. g # f /\ finalization[g].open /\ finalization'[g] = [finalization[g] EXCEPT !.outdated = TRUE]
    BY <1>5 DEF WriteUser, Idle
  <2>2. finalization[g] \in Open
    BY <2>1, OpenType
  <2>3. finalization'[g].streak = finalization[g].streak /\ finalization'[g].longest = finalization[g].longest
    BY <2>1, <2>2 DEF Open
  <2> QED
    BY <1>2, <2>1, <2>3 DEF EarnInv
<1> QED
  BY <1>2, <1>3, <1>4, <1>5 DEF EarnInv

\* Time takes room from nobody: a last completion that is older than today was so before.
LEMMA TickEarn ==
  ASSUME TypeOK, EarnInv, Tick
  PROVE  EarnInv'
<1>1. calendar'.days = calendar.days
  BY DEF Tick, TypeOK, Calendars
<1>2. calendar'.today => calendar.today /\ clock' = clock + 1
  <2>1. CASE clock' = 0
    BY <2>1 DEF Tick, TypeOK, Calendars
  <2>2. CASE clock' # 0
    BY <2>2, TicksAssumption DEF Tick, TypeOK
  <2> QED
    BY <2>1, <2>2
<1>3. StreakEarned'
  BY <1>1 DEF Tick, EarnInv, StreakEarned
<1>4. (calendar'.today /\ lastAge' > clock' + 1) => lastAge > clock + 1
  <2> SUFFICES ASSUME calendar'.today, lastAge' > clock' + 1 PROVE lastAge > clock + 1
    OBVIOUS
  <2>1. lastAge' = Older(lastAge) /\ lastAge \in 0 .. Never /\ clock \in Nat
    BY DEF Tick, TypeOK
  <2>2. lastAge' <= lastAge + 1 /\ lastAge' \in Nat /\ lastAge \in Nat
    BY <2>1, OlderType, AgesFit
  <2> QED
    BY <1>2, <2>1, <2>2
<1>5. ASSUME NEW g \in Finalizations, finalization'[g].open
      PROVE  finalization'[g].streak <= calendar'.days /\ finalization'[g].streak <= finalization'[g].longest
  <2>1. finalization[g].open /\ finalization'[g] = [finalization[g] EXCEPT !.age = 1]
    BY <1>5 DEF Tick, Idle
  <2>2. finalization[g] \in Open
    BY <2>1, OpenType
  <2>3. finalization'[g].streak = finalization[g].streak /\ finalization'[g].longest = finalization[g].longest
    BY <2>1, <2>2 DEF Open
  <2> QED
    BY <1>1, <2>1, <2>3 DEF EarnInv
<1>6. streakDays' = streakDays
  BY DEF Tick
<1> QED
  BY <1>1, <1>2, <1>3, <1>4, <1>5, <1>6 DEF EarnInv

\* A streak of none is always earned.
LEMMA RolloverEarn ==
  ASSUME TypeOK, EarnInv, Rollover \/ MissRollover
  PROVE  EarnInv'
<1>1. streakDays' \in {0, streakDays}
  BY DEF Rollover, MissRollover
<1>2. UNCHANGED <<clock, longestStreakDays, lastAge, finalization, calendar>>
  BY DEF Rollover, MissRollover
<1>3. longestStreakDays \in Nat /\ calendar.days \in Nat /\ streakDays \in Nat
  BY BoundsAssumption DEF TypeOK, Calendars
<1>4. StreakEarned'
  BY <1>1, <1>2, <1>3 DEF EarnInv, StreakEarned
<1>5. (calendar.today /\ lastAge > clock + 1) => streakDays' < calendar.days \/ calendar.days = MaxStreak
  BY <1>1, <1>3 DEF EarnInv
<1> QED
  BY <1>2, <1>4, <1>5 DEF EarnInv

\* A streak is no longer than the days a quest was completed on, nor than the longest
\* streak (computeStreak inside finalizations that overlap in any way).
THEOREM EarnedCorrect == Spec => []StreakEarned
<1>1. Init => EarnInv
  <2> SUFFICES ASSUME Init PROVE EarnInv
    OBVIOUS
  <2>1. ~ calendar.today /\ calendar.days = 0 /\ streakDays = 0 /\ longestStreakDays = 0
    BY DEF Init
  <2>2. \A f \in Finalizations : ~ finalization[f].open
    BY DEF Init, Idle
  <2> QED
    BY <2>1, <2>2 DEF EarnInv, StreakEarned
<1>2. TypeOK /\ EarnInv /\ [Next]_vars => EarnInv'
  <2> SUFFICES ASSUME TypeOK, EarnInv, [Next]_vars PROVE EarnInv'
    OBVIOUS
  <2>1. CASE UNCHANGED vars
    BY <2>1 DEF vars, EarnInv, StreakEarned
  <2>2. ASSUME NEW f \in Finalizations, ReadUser(f) PROVE EarnInv'
    BY <2>2, ReadUserEarn
  <2>3. ASSUME NEW f \in Finalizations, WriteUser(f) PROVE EarnInv'
    BY <2>3, WriteUserEarn
  <2>4. CASE Rollover \/ MissRollover
    BY <2>4, RolloverEarn
  <2>5. CASE Tick
    BY <2>5, TickEarn
  <2> QED
    BY <2>1, <2>2, <2>3, <2>4, <2>5 DEF Next
<1>3. EarnInv => StreakEarned
  BY DEF EarnInv
<1> QED
  BY <1>1, <1>2, <1>3, TypeCorrect, PTL DEF Spec

-----------------------------------------------------------------------------
(* The nightly job spares who is active.                                   *)

\* A finalization that has just read its user is of today.
LEMMA ReadUserSpare ==
  ASSUME TypeOK, SpareInv, NEW f \in Finalizations, ReadUser(f)
  PROVE  SpareInv'
<1>1. finalization'[f].open /\ finalization'[f].age = 0
  BY DEF ReadUser, TypeOK
<1>2. UNCHANGED <<clock, due, lastAge>> /\ clock \in Nat
  BY DEF ReadUser, TypeOK
<1>3. OpenToday(f)'
  BY <1>1, <1>2 DEF OpenToday
<1> QED
  BY <1>1, <1>2, <1>3 DEF SpareInv

\* One that writes first makes all others outdated; one that was not overtaken is of the
\* day the last of the completions is of.
LEMMA WriteUserSpare ==
  ASSUME TypeOK, SpareInv, NEW f \in Finalizations, WriteUser(f)
  PROVE  SpareInv'
<1>1. finalization[f] \in Open /\ finalization[f].open
  BY OpenType DEF WriteUser
<1>2. /\ UNCHANGED <<clock, due>> /\ lastAge' = finalization[f].age
      /\ calendar'.today = calendar.today /\ calendar'.run = calendar.run
      /\ calendar'.overtaken = finalization[f].outdated
  BY DEF WriteUser, TypeOK, Calendars
<1>3. ASSUME NEW g \in Finalizations, g # f, finalization[g].open
      PROVE  finalization'[g].open /\ finalization'[g].age = finalization[g].age
  <2>1. finalization'[g] = [finalization[g] EXCEPT !.outdated = TRUE]
    BY <1>3 DEF WriteUser
  <2>2. finalization[g] \in Open
    BY <1>3, OpenType
  <2> QED
    BY <2>1, <2>2 DEF Open
<1>4. ASSUME NEW g \in Finalizations, finalization'[g].open
      PROVE  finalization'[g].outdated
  <2>1. g # f /\ finalization[g].open /\ finalization'[g] = [finalization[g] EXCEPT !.outdated = TRUE]
    BY <1>4 DEF WriteUser, Idle
  <2>2. finalization[g] \in Open
    BY <2>1, OpenType
  <2> QED
    BY <2>1, <2>2 DEF Open
<1>5. calendar.today =>
        finalization[f].outdated \/ finalization[f].age <= clock \/ \E g \in Finalizations : OpenToday(g)'
  <2> SUFFICES ASSUME calendar.today, ~ finalization[f].outdated, ~ (finalization[f].age <= clock)
               PROVE  \E g \in Finalizations : OpenToday(g)'
    BY <1>1 DEF Open
  <2>1. PICK g \in Finalizations : OpenToday(g)
    BY <1>1 DEF SpareInv
  <2>2. g # f
    BY <2>1 DEF OpenToday
  <2> QED
    BY <1>2, <1>3, <2>1, <2>2 DEF OpenToday
<1>6. finalization[f].age <= TicksPerDay
  <2>1. finalization[f].age \in {0, 1}
    BY <1>1 DEF Open
  <2>2. TicksPerDay \in Nat /\ 1 <= TicksPerDay
    BY TicksAssumption
  <2> QED
    BY <2>1, <2>2
<1> QED
  BY <1>2, <1>4, <1>5, <1>6 DEF SpareInv

\* A tick within the day ages all alike; that of midnight closes the day.
LEMMA TickSpare ==
  ASSUME TypeOK, SpareInv, Tick
  PROVE  SpareInv'
<1>0. /\ clock \in 0 .. TicksPerDay - 1 /\ calendar \in Calendars
      /\ due' = (clock' = 0) /\ clock' = (clock + 1) % TicksPerDay
      /\ lastAge \in 0 .. Never /\ lastAge' = Older(lastAge)
  BY DEF Tick, TypeOK
<1>1. ASSUME NEW g \in Finalizations, finalization[g].open
      PROVE  finalization'[g].open /\ finalization'[g].age = 1
  <2>1. finalization'[g] = [finalization[g] EXCEPT !.age = 1]
    BY <1>1 DEF Tick
  <2>2. finalization[g] \in Open
    BY <1>1, OpenType
  <2> QED
    BY <1>1, <2>1, <2>2 DEF Open
<1>2. ASSUME NEW g \in Finalizations, finalization'[g].open
      PROVE  finalization'[g].age = 1
  <2>1. finalization[g].open
    BY <1>2 DEF Tick, Idle
  <2> QED
    BY <1>1, <2>1
<1>3. lastAge <= clock => lastAge' <= clock + 1
  BY <1>0, OlderType, AgesFit, TicksAssumption
<1>4. CASE clock' # 0
  <2>0. clock' = clock + 1
    BY <1>0, <1>4, TicksAssumption
  <2>1. clock' = clock + 1 /\ calendar' = calendar /\ ~ due'
    BY <1>0, <1>4, <2>0 DEF Tick
  <2>2. ASSUME NEW g \in Finalizations, OpenToday(g) PROVE OpenToday(g)'
    BY <1>0, <1>1, <2>1, <2>2 DEF OpenToday
  <2>3. \A g \in Finalizations : finalization'[g].open => finalization'[g].age <= clock'
    BY <1>0, <1>2, <2>1
  <2> QED
    BY <1>3, <2>1, <2>2, <2>3 DEF SpareInv
<1>5. CASE clock' = 0
  <2>1. clock + 1 = TicksPerDay
    BY <1>0, <1>5, TicksAssumption
  <2>2. /\ ~ calendar'.today /\ calendar'.overtaken = calendar.overtaken
        /\ ~ calendar.today => calendar'.run = 0
    BY <1>0, <1>5 DEF Tick, Calendars
  <2>3. calendar.today =>
          calendar'.overtaken \/ lastAge' <= TicksPerDay \/ \E g \in Finalizations : finalization'[g].open
    BY <1>1, <1>3, <2>1, <2>2 DEF SpareInv, OpenToday
  <2> QED
    BY <1>5, <2>2, <2>3 DEF SpareInv
<1> QED
  BY <1>4, <1>5

\* The job itself changes nothing of this.
LEMMA RolloverSpare ==
  ASSUME TypeOK, SpareInv, Rollover \/ MissRollover
  PROVE  SpareInv'
BY DEF SpareInv, OpenToday, Rollover, MissRollover

\* The job takes the streak of nobody who completed a quest on the day before
\* (resetStaleStreaksUtc, in the night it runs).
THEOREM ResetCorrect == Spec => ResetSparesActive
<1> DEFINE Spared == (calendar.run > 0 /\ streakDays > 0 /\ streakDays' = 0)
                       => calendar.overtaken \/ \E f \in Finalizations : finalization[f].open
<1>1. Init => SpareInv
  <2> SUFFICES ASSUME Init PROVE SpareInv
    OBVIOUS
  <2>1. ~ calendar.today /\ calendar.run = 0 /\ ~ due /\ clock = 0
    BY DEF Init
  <2> QED
    BY <2>1 DEF SpareInv
<1>2. TypeOK /\ SpareInv /\ [Next]_vars => SpareInv'
  <2> SUFFICES ASSUME TypeOK, SpareInv, [Next]_vars PROVE SpareInv'
    OBVIOUS
  <2>1. CASE UNCHANGED vars
    BY <2>1 DEF vars, SpareInv, OpenToday
  <2>2. ASSUME NEW f \in Finalizations, ReadUser(f) PROVE SpareInv'
    BY <2>2, ReadUserSpare
  <2>3. ASSUME NEW f \in Finalizations, WriteUser(f) PROVE SpareInv'
    BY <2>3, WriteUserSpare
  <2>4. CASE Rollover \/ MissRollover
    BY <2>4, RolloverSpare
  <2>5. CASE Tick
    BY <2>5, TickSpare
  <2> QED
    BY <2>1, <2>2, <2>3, <2>4, <2>5 DEF Next
<1>3. TypeOK /\ SpareInv /\ [Next]_vars => [Spared]_vars
  <2> SUFFICES ASSUME TypeOK, SpareInv, Next, calendar.run > 0, streakDays > 0, streakDays' = 0
               PROVE  calendar.overtaken \/ \E f \in Finalizations : finalization[f].open
    OBVIOUS
  <2>0. streakDays \in Nat /\ lastAge \in Nat
    BY BoundsAssumption, AgesFit DEF TypeOK
  <2>1. ASSUME NEW f \in Finalizations, WriteUser(f)
        PROVE  \E g \in Finalizations : finalization[g].open
    BY <2>1 DEF WriteUser
  <2>2. CASE Rollover
    <3>1. due /\ Stale(lastAge)
      BY <2>0, <2>2 DEF Rollover
    <3>2. clock = 0
      BY <3>1 DEF SpareInv
    <3>3. lastAge > TicksPerDay
      BY <2>0, <3>1, <3>2, TicksAssumption DEF Stale, Never, Old
    <3> QED
      BY <2>0, <3>1, <3>3, TicksAssumption DEF SpareInv
  <2>3. ASSUME UNCHANGED streakDays PROVE FALSE
    BY <2>0, <2>3
  <2> QED
    BY <2>1, <2>2, <2>3 DEF Next, ReadUser, MissRollover, Tick
<1> QED
  BY <1>1, <1>2, <1>3, TypeCorrect, PTL DEF Spec, ResetSparesActive
=============================================================================
