SPECIFICATION Spec
CONSTANTS
  friend = friend
  Friends = {friend}
  Activities = {1, 2, 3}
  QuestRows = {1}
  FriendOf <- Owners
  Writers = {writer1, writer2}
  FirstMoment = 1
  LastMoment = 2
  PageLimits = {1, 2}
  Players = {1, 2, 3}
  Residents = {2, 3}
  FirstDay = 9
  LastDay = 11
  MonthStarts = {1, 10}
  QUEST_XP = 100
  MaxPlayed = 2
  TopLimit = 1
  row1 = row1
  row2 = row2
  CompletionRows = {row1, row2}
  QuestOf <- PortalQuests
  TopQuestLimit = 1
  PortalLastTime = 5
  FirstReport = 3
  MonthBegin = 2
  PeriodLength = 2
  MaxRows = 3
  MaxValue = 3
  MaxChanges = 2
  Limits = {1, 2}
  PING = 2
  ONLINE = 4
  QUESTING = 6
  LastHalfMinute = 10
  CategoryOf <- QuestCategories
  art = art
  NoCategory = none
  MaxDone = 3
  quest1 = quest1
  quest2 = quest2
  MapQuests = {quest1, quest2}
  Hard = {quest1}
  Spots = {1, 2, 3, 4, 5}
  Latitude <- SpotLatitude
  Longitude <- SpotLongitude
  VerifiedSpots = {3}
  Radii = {5000, 100000}
  LatDelta <- BoxHeight
  LngDelta <- BoxWidth
  Haversine <- SpotDistance
  BOX_LIMIT = 1
  PIN_LIMIT = 3
INVARIANT FeedComplete
SYMMETRY SameWriters
CHECK_DEADLOCK FALSE
