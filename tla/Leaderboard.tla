---------------------------- MODULE Leaderboard ----------------------------
(***************************************************************************)
(* GET /leaderboard: leaderboard.service.ts reads the top of the ranking   *)
(* with one statement of leaderboard.repository.ts and, for a viewer who   *)
(* is not in it, the viewer's rank with another; users go on playing in    *)
(* between. Days are counted from 1970-01-01, a Thursday.                  *)
(***************************************************************************)
EXTENDS Integers, FiniteSetsExt, Gamification

CONSTANTS
  Players,       \* as numbers, in the order they registered
  Residents,     \* the players of the city that can be asked for
  FirstDay, LastDay,  \* bound: the days the clock goes through
  MonthStarts,   \* the days a month begins
  QUEST_XP,      \* what a quest is worth here
  MaxPlayed,     \* bound: the quests and bonuses of all players together
  TopLimit       \* the query's limit

ASSUME LeaderboardAssumption ==
  /\ Residents \subseteq Players /\ Players \subseteq Nat /\ IsFiniteSet(Players)
  /\ FirstDay \in Nat /\ LastDay \in Nat /\ TopLimit \in 1 .. 100 /\ QUEST_XP \in Nat
  /\ \E d \in MonthStarts : d <= FirstDay

VARIABLES
  day,
  active,  \* the users of status ACTIVE
  xp,
  done,    \* done[u] : u's completions, by day and number within the day
  lookup   \* the query: what it asks, what it has read

leaderboardVars == <<day, active, xp, done, lookup>>

Days == FirstDay .. LastDay

Scopes  == {"GLOBAL", "CITY"}
Periods == {"ALL_TIME", "MONTH", "WEEK"}

NoEntry   == [rank |-> 0]
NewLookup == [step |-> "idle", changed |-> FALSE]

LeaderboardInit ==
  /\ day = FirstDay
  /\ active = Players
  /\ xp = [u \in Players |-> 0]
  /\ done = [u \in Players |-> {}]
  /\ lookup = NewLookup

-----------------------------------------------------------------------------
(* What goes on meanwhile.                                                 *)

Played == MapThenSumSet(LAMBDA u : xp[u], Players) \div QUEST_XP

Changing == lookup' = [lookup EXCEPT !.changed = TRUE]

FinishQuest ==
  \E u \in Players :
    /\ Played < MaxPlayed
    /\ xp' = [xp EXCEPT ![u] = @ + QUEST_XP]
    /\ done' = [done EXCEPT ![u] = @ \cup {<<day, 1 + Cardinality({c \in @ : c[1] = day})>>}]
    /\ Changing
    /\ UNCHANGED <<day, active>>

\* The bonus of an invite or an achievement is XP without a quest.
GrantBonus ==
  \E u \in Players :
    /\ Played < MaxPlayed
    /\ xp' = [xp EXCEPT ![u] = @ + QUEST_XP]
    /\ Changing
    /\ UNCHANGED <<day, active, done>>

Suspend ==
  /\ \E u \in active : active' = active \ {u}
  /\ Changing
  /\ UNCHANGED <<day, xp, done>>

LeaderboardTick ==
  /\ day < LastDay
  /\ day' = day + 1
  /\ UNCHANGED <<active, xp, done, lookup>>

-----------------------------------------------------------------------------
(* The query.                                                              *)

\* getUTCDay: 0 is Sunday.
WeekDay(d) == (d + 4) % 7

Monday(d) == d + (IF WeekDay(d) = 0 THEN -6 ELSE 1 - WeekDay(d))

\* leaderboardPeriodStartUtc; null, the beginning of time, is 0.
PeriodStart(period, d) ==
  CASE period = "ALL_TIME" -> 0
    [] period = "MONTH"    -> Max({m \in MonthStarts : m <= d})
    [] period = "WEEK"     -> Monday(d)

\* The service asks for a city, trimmed and in lower case, with scope CITY only.
ReceiveLookup ==
  /\ lookup.step = "idle"
  /\ \E scope \in Scopes, period \in Periods, viewer \in Players :
       lookup' = [step |-> "top", scope |-> scope, period |-> period, viewer |-> viewer,
                  asked |-> day, since |-> PeriodStart(period, day),
                  entries |-> {}, mine |-> NoEntry, changed |-> FALSE]
  /\ UNCHANGED <<day, active, xp, done>>

\* The rows of a statement: all active users of the scope, also those without a quest.
Ranked(scope) == IF scope = "CITY" THEN active \cap Residents ELSE active

\* Faulty variant: the viewer is ranked among all users.
RankedAmongAll(scope) == active

RankedForViewer(scope) == Ranked(scope)

\* xp of a row: the user's, or the sum over the period's completions.
Score(u) ==
  IF lookup.period = "ALL_TIME" THEN xp[u]
  ELSE Cardinality({c \in done[u] : c[1] >= lookup.since}) * QUEST_XP

\* ORDER BY xp DESC, level DESC, createdAt ASC
Ahead(p, q) ==
  \/ Score(p) > Score(q)
  \/ Score(p) = Score(q) /\ LevelFromXp(xp[p]) > LevelFromXp(xp[q])
  \/ Score(p) = Score(q) /\ LevelFromXp(xp[p]) = LevelFromXp(xp[q]) /\ p < q

\* ROW_NUMBER
Row(u, users) ==
  [rank |-> 1 + Cardinality({p \in users : Ahead(p, u)}), user |-> u, xp |-> Score(u)]

ReadTop ==
  /\ lookup.step = "top"
  /\ LET rows == {Row(u, Ranked(lookup.scope)) : u \in Ranked(lookup.scope)}
         top  == {e \in rows : e.rank <= TopLimit}
         own  == {e \in top : e.user = lookup.viewer}
     IN  lookup' = [lookup EXCEPT !.entries = top, !.changed = FALSE,
                      !.step = IF own = {} THEN "mine" ELSE "answered",
                      !.mine = IF own = {} THEN NoEntry ELSE CHOOSE e \in own : TRUE]
  /\ UNCHANGED <<day, active, xp, done>>

\* findMyRank: the same ranking, by another statement and later.
ReadMine ==
  /\ lookup.step = "mine"
  /\ LET users == RankedForViewer(lookup.scope)
     IN  lookup' = [lookup EXCEPT !.step = "answered",
           !.mine = IF lookup.viewer \in users THEN Row(lookup.viewer, users) ELSE NoEntry]
  /\ UNCHANGED <<day, active, xp, done>>

LeaderboardNext ==
  \/ FinishQuest \/ GrantBonus \/ Suspend \/ LeaderboardTick
  \/ ReceiveLookup \/ ReadTop \/ ReadMine

-----------------------------------------------------------------------------
(* Properties.                                                             *)

\* The doc comment of leaderboardPeriodStartUtc: "ISO week starting Monday 00:00 UTC".
SameWeek(c, d) == (c + 3) \div 7 = (d + 3) \div 7

\* The two statements of an answer make one ranking of the period that was asked for:
\* the entries take the first ranks, one each, and the viewer's rank goes on where they
\* end; only what changed in between can make it one of theirs. Weekly scores are of
\* the ISO week the query came in.
LeaderboardAgrees ==
  lookup.step \in {"mine", "answered"} =>
    /\ {e.rank : e \in lookup.entries} = 1 .. Cardinality(lookup.entries)
    /\ Cardinality({e.user : e \in lookup.entries}) = Cardinality(lookup.entries)
    /\ (lookup.step = "answered" /\ lookup.mine \notin lookup.entries \cup {NoEntry}) =>
         lookup.changed \/ (lookup.mine.rank > TopLimit /\ Cardinality(lookup.entries) = TopLimit)
    /\ lookup.period = "WEEK" =>
         \A d \in Days : d <= lookup.asked =>
           (d >= lookup.since) <=> SameWeek(d, lookup.asked)
=============================================================================
