SPECIFICATION Spec
CONSTANTS
  Shapes <- MCShapes
  MaxSeq = 4
  MaxUnits = 3
  MaxTokens = 4
INVARIANTS
  TypeOK
  ProcessedIsTold
  NoEchoIsEvidence
  CutIsRepresented
CHECK_DEADLOCK FALSE
