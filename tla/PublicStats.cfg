SPECIFICATION Spec
CONSTANTS
  author = author
  player = player
  slug1 = slug1
  slug2 = slug2
  r1 = r1
  r2 = r2
  c1 = c1
  c2 = c2
  Users = {author, player}
  Moderators = {}
  Owners = {author}
  Slugs = {slug1, slug2}
  Scores = {1, 5}
  Requests = {r1, r2}
  MaxQuests = 2
  StatsCalls = {c1, c2}
  CACHE_TTL_MS = 2
  LastTime = 2
SYMMETRY Symmetry
INVARIANTS
  RatingsAgree
  PublishedDated
  StatsFresh
CHECK_DEADLOCK FALSE
