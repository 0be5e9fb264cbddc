SPECIFICATION Spec
CONSTANTS
  alice = alice
  bob = bob
  r1 = r1
  r2 = r2
  r3 = r3
  Users = {alice, bob}
  Requests = {r1, r2, r3}
  Clients = {alice}
  MaxIds = 3
SYMMETRY Symmetry
CHECK_DEADLOCK FALSE
INVARIANTS
  TypeOK
  BlockStands
  FriendsAgreed
  PairStoredOnce
  NothingMissed
