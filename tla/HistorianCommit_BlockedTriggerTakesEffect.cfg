SPECIFICATION FairSpec
CONSTANTS
  MaxSeq = 2
  LegacyHead = 0
  SoftCap = 2
  HardCap = 2
  MaxUnits = 1
  MaxAttempts = 2
  MaxFaults = 2
  SettleMayFail = TRUE
PROPERTY BlockedTriggerTakesEffect
