SPECIFICATION Spec
CONSTANTS
  Workers = {w1, w2}
  Datasets = {phys, rel, rules}
  Required = {phys}
  Lenient = {rel}
  Phys = phys
  Rel = rel
  Rules = rules
  t1 = t1
  t2 = t2
  r12 = r12
  Malformed = Malformed
  Entries <- MCEntries
  Needs <- MCNeeds
  SchemaOf <- MCSchemaOf
  Inputs <- MCLearnInput
  Snapshots <- MCSnapshots
  InitFiles <- MCFullFiles
  InDB = TRUE
  Faults = FALSE
  Crashes = FALSE
  Ops = {"reload", "learn"}
  MaxClock = 0
  Absent = {NoFile}
  Torn = {CutShort}
  Free = Free
PROPERTIES
  LearnedRulesStay
