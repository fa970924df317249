SPECIFICATION Spec
CHECK_DEADLOCK FALSE
CONSTANTS
  Inserters = {i1, i2}
  Scanners = {}
  Vacuum = v
  Tids = {1, 2, 3, 4}
  TidVal <- TwoValues
  BuiltTids <- Built2
  BuiltLevel <- Flat2
  NSlots = 4
  M = 2
  MaxLevel = 1
  HeapTidsMax = 2
  MaxVacuums = 1
  MaxCancels = 0
SYMMETRY InserterSymmetry
INVARIANTS TidRightValue WriteTarget EntryOk AllReachable Coherent
