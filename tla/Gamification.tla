---------------------------- MODULE Gamification ----------------------------
(***************************************************************************)
(* The XP curve of src/src/common/gamification/xp.ts: pure functions that  *)
(* the quest, achievement and invite services share.                       *)
(*                                                                         *)
(* XP columns are 32-bit integers and 100 * n^2 is exact in a double, so   *)
(* Math.floor(Math.sqrt(xp / 100)) is the exact integer root below.        *)
(***************************************************************************)
EXTENDS Integers, FiniteSets

MIN_LEVEL == 1

XpStep == 100

\* floor(sqrt(xp / 100)): the numbers whose square, in steps of 100, is not above xp.
Root(xp) == Cardinality({n \in 1 .. (xp \div XpStep) : XpStep * (n * n) <= xp})

\* Faulty variant: a curve that starts at level 0, as Math.floor(Math.sqrt(xp / 100)) alone does.
LevelFromXpZeroBased(xp) == IF xp <= 0 THEN 0 ELSE Root(xp)

LevelFromXp(xp) == IF xp <= 0 THEN MIN_LEVEL ELSE Root(xp) + 1

\* Cumulative XP at which a level starts.
XpForLevel(level) ==
  LET clamped == IF level < MIN_LEVEL THEN MIN_LEVEL ELSE level
  IN  XpStep * ((clamped - 1) * (clamped - 1))

\* What the profile's progress bar shows. progressRatio, the quotient of
\* xpIntoLevel and the level's span, is left to the reader.
ProgressFromXp(xp) ==
  LET safeXp == IF xp < 0 THEN 0 ELSE xp
      level  == LevelFromXp(safeXp)
  IN  [level             |-> level,
       currentXp         |-> safeXp,
       xpForCurrentLevel |-> XpForLevel(level),
       xpForNextLevel    |-> XpForLevel(level + 1),
       xpIntoLevel       |-> safeXp - XpForLevel(level),
       xpToNextLevel     |-> XpForLevel(level + 1) - safeXp]
=============================================================================
