SPECIFICATION FairSpec
CONSTANTS
  MaxSeq = 4
  LegacyHead = 1
  SoftCap = 3
  HardCap = 4
  MaxUnits = 2
  MaxAttempts = 3
  MaxFaults = 2
  SettleMayFail = TRUE
INVARIANTS
  TypeOK
  BatchesTileProcessedPrefix
  PublicationsMatchCommitted
  IncludedPublishedOnce
  AckFollowsCommit
  JobsAnchoredOrDone
PROPERTIES ImplementsHistoryLog
  EveryUnitProcessed
  EveryCommitAcked
