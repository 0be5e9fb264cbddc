SPECIFICATION Spec
CONSTANTS
  ann = ann
  mail1 = mail1
  mail2 = mail2
  NoRequest = NoRequest
  Inviters = {ann}
  Emails = {mail1, mail2}
  MaxRequests = 3
  MaxInvites = 4
  LastDay = 1
  INVITE_EXPIRY = 0
  MAX_INVITES_PER_UTC_DAY = 1
CHECK_DEADLOCK FALSE
INVARIANTS
  ClaimedWithAccount
  CancelHolds
  DailyLimit
PROPERTIES
  SingleUse
