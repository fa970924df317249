CONSTANTS
  U16Max = 7
  U32Max = 63
  VarBase = 4
  VarBytes = 3
  MaxPerChunk = 2
  DenseGens = 3
  Strategies = {"wand"}
  QueryDocs = 3
SPECIFICATION Spec
INVARIANT TopKExact
CHECK_DEADLOCK FALSE
