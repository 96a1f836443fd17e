SPECIFICATION Spec
CONSTANTS
  Workers = {w1}
  JobIds = {j1}
  Admins = {a1}
  Users = {u1}
  Texts = {t1}
  Limits = {0}
  DefaultRows = 1
  Binds = {b0, b1}
  NoBinds = b0
  TTLs <- MCTTLs
  JobTTL = 1
  MaxEntries = 1
  MaxPerUser = 1
  MaxTotal = 2
  None = None
INVARIANTS
  AnswersHaveOwnBinds
