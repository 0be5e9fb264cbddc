SPECIFICATION Spec
CONSTANTS
  MaxRequests = 3
  LastSecond = 2
  EXPIRES_IN = 2
CHECK_DEADLOCK FALSE
INVARIANTS
  LogoutEndsChain
  ExchangedOnce
  RefusedIfReplaced
