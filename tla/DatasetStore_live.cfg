SPECIFICATION FairSpec
CONSTANTS
  Workers = {w1, w2}
  Datasets = {phys, rel}
  Required = {phys}
  Lenient = {rel}
  Phys = phys
  Rel = rel
  Rules = rel
  t1 = t1
  t2 = t2
  r12 = r12
  Malformed = Malformed
  Entries <- MCEntries
  Needs <- MCNeeds
  SchemaOf <- MCSchemaOf
  Inputs <- MCOneInput
  Snapshots <- MCRelSnapshots
  InitFiles <- MCFullFiles
  InDB = FALSE
  Faults = TRUE
  Crashes = TRUE
  Ops = {"put", "restore", "remove", "reload", "sync", "learn"}
  MaxClock = 0
  Absent = {NoFile}
  Torn = {CutShort}
  Free = Free
PROPERTIES
  RequestsFinish
CHECK_DEADLOCK FALSE
