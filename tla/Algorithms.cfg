CONSTANTS
  U16Max = 7
  U32Max = 63
  VarBase = 4
  VarBytes = 3
  MaxPerChunk = 3
  DenseGens = 3
  Strategies = {"auto", "wand", "daat"}
  QueryDocs = 3
SPECIFICATION Spec
INVARIANTS TopKExact PostingsExact FusionExact SelectionCached KmeansNearest GraphFound ScanIterates TypesExact
CHECK_DEADLOCK FALSE
