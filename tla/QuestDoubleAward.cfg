SPECIFICATION Spec
CONSTANTS
  u1 = u1
  q1 = q1
  l1 = l1
  l2 = l2
  NoStop = NoStop
  NoRequest = NoRequest
  Users = {u1}
  Quests = {q1}
  Locations = {l1, l2}
  StopsOf <- TwoStops
  XpReward <- Reward50
  MaxRequests = 3
PROPERTIES
  FinishOnlyStarted
