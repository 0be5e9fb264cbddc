SPECIFICATION Spec
CONSTANTS
  TicksPerDay = 4
  STREAK_WINDOW_HOURS = 6
  STREAK_RESET_HOURS = 8
  MaxFinalizations = 2
  MaxStreak = 3
INVARIANTS
  DailyQuestsCount
