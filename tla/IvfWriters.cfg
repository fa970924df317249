SPECIFICATION Spec
CHECK_DEADLOCK FALSE
CONSTANTS
  Inserters = {i1, i2}
  Scanners = {}
  Vacuum = v
  Tids = {1, 2, 3, 4, 5, 7}
  Indexed = {1, 2, 3, 4, 5, 7}
  NLists = 2
  TidDist <- Nearby
  QueryDists <- FarApart
  NBlocks = 5
  PageCap = 1
  BuiltOwner <- Owner3
  BuiltTids <- Tuples3
  NBuilt = 3
  Probes = 1
  MaxProbesOption = 1
  Iterative = FALSE
  MaxVacuums = 1
  MaxCancels = 1
INVARIANTS TypeOK Separated TidPlaced
SYMMETRY InserterSymmetry
