SPECIFICATION FairSpec
CONSTANTS
  MaxSeq = 3
  LegacyHead = 1
  SoftCap = 2
  MaxPending = 1
  MaxFaults = 2
  MaxCloses = 1
PROPERTIES
  EveryToldUnitRetired
INVARIANTS
  TypeOK
  GenerationIsPartition
  LiveUnitsAreKept
  RetiredIsTold
  GenerationOwnsWatermark
