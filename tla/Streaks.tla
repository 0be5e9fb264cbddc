------------------------------ MODULE Streaks ------------------------------
(***************************************************************************)
(* A user's streak: finalizeQuestCompletionTx reads it, computeStreak says *)
(* what it becomes, and the user row is written later in the transaction;  *)
(* resetStaleStreaksUtc of streak-rollover.service.ts clears it at         *)
(* midnight. Row locks order the writes, so each is one action. One that   *)
(* rolls back has written nothing and is as if it had not been.            *)
(*                                                                         *)
(* Time goes on for ever in ticks; a completion is as old as the ticks     *)
(* since. A transaction takes seconds (PrismaService allows it ten), so    *)
(* one tick at most falls into it.                                         *)
(***************************************************************************)
EXTENDS Integers

CONSTANTS
  TicksPerDay,
  STREAK_WINDOW_HOURS,  \* in ticks, as the next
  STREAK_RESET_HOURS,
  MaxFinalizations,     \* bound: the finalizations at work at one time
  MaxStreak             \* bound: no completion lengthens the streak further

ASSUME TicksAssumption ==
  /\ TicksPerDay \in Nat \ {0}
  /\ STREAK_WINDOW_HOURS \in Nat /\ STREAK_RESET_HOURS \in Nat
  /\ TicksPerDay < STREAK_WINDOW_HOURS /\ STREAK_WINDOW_HOURS < STREAK_RESET_HOURS

ASSUME BoundsAssumption == MaxFinalizations \in Nat /\ MaxStreak \in Nat \ {0}

VARIABLES
  clock,              \* ticks since midnight, UTC
  due,                \* the nightly job of this midnight has not run yet
  streakDays,
  longestStreakDays,
  lastAge,            \* age of lastQuestCompletedAt, Never if it is null, else Old at most
  finalization,       \* finalization[f] : what f is about to write
  calendar            \* the days a quest was completed on, and whether the last write
                      \* was of a finalization that another one overtook; for the properties

vars == <<clock, due, streakDays, longestStreakDays, lastAge, finalization, calendar>>

Finalizations == 1 .. MaxFinalizations

\* Older than this is all the same to the code.
Old   == STREAK_RESET_HOURS + TicksPerDay
Never == Old + 1

Idle == [open |-> FALSE]

Open == [open : {TRUE}, streak : 0 .. MaxStreak, longest : 0 .. MaxStreak, age : {0, 1},
         outdated : BOOLEAN]

Calendars == [run : 0 .. MaxStreak, today : BOOLEAN, days : 0 .. MaxStreak, overtaken : BOOLEAN]

Init ==
  /\ clock = 0 /\ due = FALSE
  /\ streakDays = 0 /\ longestStreakDays = 0 /\ lastAge = Never
  /\ finalization = [f \in Finalizations |-> Idle]
  /\ calendar = [run |-> 0, today |-> FALSE, days |-> 0, overtaken |-> FALSE]

Larger(a, b) == IF a > b THEN a ELSE b

UpTo(limit, n) == IF n > limit THEN limit ELSE n

Older(age) == IF age = Never THEN Never ELSE UpTo(Old, age + 1)

\* Faulty variant: every completion inside the window counts.
StreakPerQuest(current, age) ==
  IF age = Never THEN Larger(1, current)
  ELSE IF age <= STREAK_RESET_HOURS THEN current + 1
  ELSE 1

\* Faulty variant: a completion too soon takes a day off.
StreakDecaying(current, age) ==
  IF age = Never THEN Larger(1, current)
  ELSE IF age <= STREAK_WINDOW_HOURS THEN current - 1
  ELSE IF age <= STREAK_RESET_HOURS THEN current + 1
  ELSE 1

\* computeStreak
Streak(current, age) ==
  IF age = Never THEN Larger(1, current)
  ELSE IF age <= STREAK_WINDOW_HOURS THEN current
  ELSE IF age <= STREAK_RESET_HOURS THEN current + 1
  ELSE 1

Longest == Larger(longestStreakDays, Streak(streakDays, lastAge))

\* The streak is read and the new one computed; lastQuestCompletedAt is to be now.
ReadUser(f) ==
  /\ ~ finalization[f].open
  /\ Streak(streakDays, lastAge) <= MaxStreak
  /\ finalization' = [finalization EXCEPT ![f] =
       [open |-> TRUE, streak |-> Streak(streakDays, lastAge), longest |-> Longest,
        age |-> 0, outdated |-> FALSE]]
  /\ calendar' = [calendar EXCEPT !.today = TRUE,
                    !.days = IF calendar.today THEN @ ELSE UpTo(MaxStreak, @ + 1)]
  /\ UNCHANGED <<clock, due, streakDays, longestStreakDays, lastAge>>

\* The update of the user row and the commit, whatever the row says by now.
WriteUser(f) ==
  /\ finalization[f].open
  /\ streakDays' = finalization[f].streak
  /\ longestStreakDays' = finalization[f].longest
  /\ lastAge' = finalization[f].age
  /\ finalization' = [g \in Finalizations |->
       IF g = f THEN Idle
       ELSE IF finalization[g].open THEN [finalization[g] EXCEPT !.outdated = TRUE]
       ELSE Idle]
  /\ calendar' = [calendar EXCEPT !.overtaken = finalization[f].outdated]
  /\ UNCHANGED <<clock, due>>

\* Faulty variant: the job clears what was completed before the day that begins.
StaleToday(age) == age = Never \/ age > clock

\* Faulty variant: only who has completed no quest at all.
StaleNever(age) == age = Never

\* Before the start of yesterday.
Stale(age) == age = Never \/ age > clock + TicksPerDay

\* resetStaleStreaksUtc
Rollover ==
  /\ due
  /\ streakDays' = IF Stale(lastAge) THEN 0 ELSE streakDays
  /\ due' = FALSE
  /\ UNCHANGED <<clock, longestStreakDays, lastAge, finalization, calendar>>

\* A process that is down at midnight never makes up for the job.
MissRollover ==
  /\ due
  /\ due' = FALSE
  /\ UNCHANGED <<clock, streakDays, longestStreakDays, lastAge, finalization, calendar>>

\* Time passes a finalization once; the job of a midnight runs before the next tick.
Tick ==
  /\ ~ due
  /\ \A f \in Finalizations : finalization[f].open => finalization[f].age = 0
  /\ clock' = (clock + 1) % TicksPerDay
  /\ due' = (clock' = 0)
  /\ lastAge' = Older(lastAge)
  /\ finalization' = [f \in Finalizations |->
       IF finalization[f].open THEN [finalization[f] EXCEPT !.age = 1] ELSE Idle]
  /\ calendar' = IF clock' = 0
                 THEN [calendar EXCEPT !.run = IF calendar.today THEN UpTo(MaxStreak, @ + 1) ELSE 0,
                                       !.today = FALSE]
                 ELSE calendar
  /\ UNCHANGED <<streakDays, longestStreakDays>>

Next ==
  \/ \E f \in Finalizations : ReadUser(f) \/ WriteUser(f)
  \/ Rollover \/ MissRollover \/ Tick

\* Time goes on, a transaction ends, and a process that keeps being up at midnight
\* runs the job one night. Nobody has to finish a quest.
Spec ==
  /\ Init /\ [][Next]_vars
  /\ WF_vars(Tick) /\ SF_vars(Rollover)
  /\ \A f \in Finalizations : WF_vars(WriteUser(f))

-----------------------------------------------------------------------------
(* Properties.                                                             *)

TypeOK ==
  /\ clock \in 0 .. TicksPerDay - 1 /\ due \in BOOLEAN
  /\ streakDays \in 0 .. MaxStreak /\ longestStreakDays \in 0 .. MaxStreak
  /\ lastAge \in 0 .. Never
  /\ finalization \in [Finalizations -> Open \cup {Idle}]
  /\ calendar \in Calendars

\* A streak is no longer than the days a quest was completed on, nor than the longest,
\* which finalizations write as an absolute value each.
StreakEarned == streakDays <= calendar.days /\ streakDays <= longestStreakDays

\* The job takes the streak of nobody who completed a quest on the day before, or has
\* one being written. A finalization that another one overtook may set
\* lastQuestCompletedAt back across a midnight; then the job is misled.
ResetSparesActive ==
  [][calendar.run > 0 /\ streakDays > 0 /\ streakDays' = 0
       => calendar.overtaken \/ \E f \in Finalizations : finalization[f].open]_vars

\* Somebody who stops completing quests loses the streak.
StreakEnds ==
  <>[](\A f \in Finalizations : ~ finalization[f].open) => <>[](streakDays = 0)

\* The achievement "Maintain a 3-day quest streak." of seed.ts: who has completed a
\* quest on three days running has a streak of three.
DailyQuestsCount ==
  (calendar.run + (IF calendar.today THEN 1 ELSE 0) >= 3
     /\ \A f \in Finalizations : ~ finalization[f].open)
   => streakDays >= 3
=============================================================================
