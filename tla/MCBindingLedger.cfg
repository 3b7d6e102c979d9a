SPECIFICATION FairSpec
CONSTANTS
  s1 = s1
  s2 = s2
  s3 = s3
  s4 = s4
  l1 = l1
  l2 = l2
  NoSession = NoSession
  Sessions = {s1, s2, s3, s4}
  Lineages = {l1, l2}
  SoftLimit = 1
  HardLimit = 2
  RetainRecent = 1
  StagingCap = 3
  BatchLimit = 2
  MaxTenures = 4
  MaxFaults = 2
  HostRebinds = TRUE
  CreateMayFail = FALSE
  HostReclaims = TRUE
INVARIANTS
  TypeOK
  LedgerAgrees
  RecoveryResolves
  ProvenanceKept
PROPERTY
  EveryPrunedArchived
