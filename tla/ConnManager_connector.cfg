SPECIFICATION FairSpec
CONSTANTS
  Slots = {s1, s2}
  Admins = {a1}
  Profiles = {p1}
  Configs = {c1, c2}
  Users = {u1}
  PoolIds <- MCPoolIds
  Threshold = 2
  Cooldown = 2
  None = None
INVARIANTS
  TypeOK
  PoolsAreOwned
  RightPool
  BlockedOnlyAfterFailures
  RegistryIsExact
PROPERTIES
  BreakersRecover
