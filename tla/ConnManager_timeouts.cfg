SPECIFICATION CountedSpec
CONSTANTS
  Slots = {s1}
  Admins = {a1}
  Profiles = {p1}
  Configs = {c1}
  Users = {u1}
  PoolIds <- MCPoolIds
  Threshold = 3
  Cooldown = 1
  None = None
PROPERTIES
  RepeatedFailuresBlock
