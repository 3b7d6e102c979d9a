SPECIFICATION Spec
CONSTANTS
  bust = bust
  memory = memory
  Actors = {bust, memory}
  MaxCommits = 2
SYMMETRY Interchangeable
INVARIANTS
  TypeOK
  ReclaimedIsReleased
PROPERTY
  ConditionsOnlyAdvance
CHECK_DEADLOCK FALSE
