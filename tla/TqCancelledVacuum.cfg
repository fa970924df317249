SPECIFICATION Spec
CHECK_DEADLOCK FALSE
CONSTANTS
  t1 = t1
  t2 = t2
  t3 = t3
  Backends = {b1}
  Vacuum = v
  Tids = {t1, t2}
  BuiltTids <- BuiltOne
  BuiltSizes = {1}
  NodeLevel <- Flat
  M = 1
  CodeCap = 2
  AdjCap = 4
  MaxNew = 1
  MaxScans = 2
  MaxDeletes = 1
  MaxVacuums = 2
  MaxCancels = 1
  CancelAt = {"vacCode", "vacAdj"}
INVARIANTS RightRow
