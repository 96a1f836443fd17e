SPECIFICATION Spec
CONSTANTS
  Workers = {w1, w2}
  Users = {u1, u2}
  First = u1
  Creds = {c1, c2}
  KeyLives <- MCKeyLives
  Edits <- MCEdits
  None = None
SYMMETRY WorkerSymmetry
INVARIANTS
  TypeOK
  AdminRemains
  ReplacedKeysAreRevoked
PROPERTIES
  RevokedStaysOut
  DeactivatedStaysOut
