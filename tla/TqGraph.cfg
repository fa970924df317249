SPECIFICATION Spec
CHECK_DEADLOCK FALSE
CONSTANTS
  t1 = t1
  t2 = t2
  t3 = t3
  Backends = {b1, b2}
  Vacuum = v
  Tids = {t1, t2, t3}
  BuiltTids <- BuiltTwo
  BuiltSizes = {0, 2}
  NodeLevel <- Tall
  M = 1
  CodeCap = 2
  AdjCap = 4
  MaxNew = 2
  MaxScans = 2
  MaxDeletes = 1
  MaxVacuums = 1
  MaxCancels = 1
  CancelAt = {"loadAdj", "link", "code", "vacLock"}
SYMMETRY BackendSymmetry
INVARIANTS TypeOK CacheCurrent RightRow ScanComplete LinksOk
