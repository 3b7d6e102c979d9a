SPECIFICATION Spec
CONSTANTS
  Shapes <- MCShapes
  MaxSeq = 4
  MaxUnits = 3
  MaxTokens = 4
INVARIANT
  EchoIsMarked
CHECK_DEADLOCK FALSE
