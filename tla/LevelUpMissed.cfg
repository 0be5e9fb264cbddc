SPECIFICATION Spec
CONSTANTS
  u1 = u1
  firstQuest = firstQuest
  collector = collector
  friendly = friendly
  NoRequest = NoRequest
  Users = {u1}
  Achievements = {firstQuest, collector, friendly}
  Definitions <- InOrder
  Metric <- Metrics1
  Minimum <- Minimum1
  TargetValue <- Targets
  XpBonus <- Bonuses
  XpReward = 100
  MaxTasks = 2
CHECK_DEADLOCK FALSE
INVARIANTS
  CrossingAnnounced
