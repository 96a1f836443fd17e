SPECIFICATION LockedSpec
CONSTANTS
  Workers = {w1, w2}
  Datasets = {phys, rel}
  Required = {phys}
  Lenient = {rel}
  Phys = phys
  Rel = rel
  Rules = rel
  t1 = t1
  t2 = t2
  r12 = r12
  Malformed = Malformed
  Entries <- MCEntries
  Needs <- MCNeeds
  SchemaOf <- MCSchemaOf
  Inputs <- MCInputs
  Snapshots <- MCSnapshots
  InitFiles <- MCInitFiles
  InDB = TRUE
  Faults = TRUE
  Crashes = FALSE
  Ops = {"put", "restore", "remove", "reload", "recompile"}
  MaxClock = 1
  Absent = {NoFile}
  Torn = {CutShort}
  Free = Free
SYMMETRY WorkerSymmetry
INVARIANTS
  TypeOK
  LockDiscipline
  DBAlwaysDecodes
  IdleAgreement
PROPERTIES
  RejectedPutRestores
  ChangeIsReversible
  ReloadFollowsDB
  ImplementsAtomicStore
