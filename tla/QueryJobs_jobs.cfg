SPECIFICATION FairSpec
CONSTANTS
  Workers = {w1}
  JobIds = {j1, j2, j3}
  Admins = {a1}
  Users = {u1, u2}
  Texts = {t1}
  Limits <- MCLimits
  DefaultRows = 1
  Binds = {b0}
  NoBinds = b0
  TTLs <- MCTTLs
  JobTTL = 1
  MaxEntries = 1
  MaxPerUser = 1
  MaxTotal = 2
  None = None
INVARIANTS
  TypeOK
  AnswersMatch
  CacheIsBounded
  BackgroundWithinLimits
PROPERTIES
  JobsAreKept
  ImplementsBoard
