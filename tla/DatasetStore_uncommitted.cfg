SPECIFICATION Spec
CONSTANTS
  Workers = {w1, w2}
  Datasets = {phys, rel}
  Required = {phys}
  Lenient = {rel}
  Phys = phys
  Rel = rel
  Rules = rel
  t1 = t1
  t2 = t2
  r12 = r12
  Malformed = Malformed
  Entries <- MCEntries
  Needs <- MCNeeds
  SchemaOf <- MCSchemaOf
  Inputs <- MCInputs
  Snapshots <- MCSnapshots
  InitFiles <- MCInitFiles
  InDB = TRUE
  Faults = FALSE
  Crashes = FALSE
  Ops = {"put", "sync"}
  MaxClock = 0
  Absent = {NoFile}
  Torn = {CutShort}
  Free = Free
INVARIANTS
  DBAlwaysCompiles
