SPECIFICATION Spec
CONSTANTS
  Workers = {w1, w2}
  Users = {u1, u2}
  First = u1
  Creds = {c1}
  KeyLives <- MCKeyLives
  Edits <- MCFewEdits
  None = None
INVARIANTS
  AdminAlwaysRemains
