SPECIFICATION FairSpec
CONSTANTS
  Adapters = {a1}
  NoAdapter = NoAdapter
  Sources = {"persona"}
  Calls = {c1, c2}
  MaxPending = 2
  MaxSignals = 1
  MaxCloses = 1
INVARIANTS
  TypeOK
  GateHeldByCycle
  P4IsHonest
  StaleGenerationIsRequested
PROPERTIES
  EveryRequestRun
