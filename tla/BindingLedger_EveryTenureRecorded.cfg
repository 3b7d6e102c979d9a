SPECIFICATION Spec
CONSTANTS
  s1 = s1
  s2 = s2
  s3 = s3
  s4 = s4
  l1 = l1
  l2 = l2
  NoSession = NoSession
  Sessions = {s1, s2}
  Lineages = {l1}
  SoftLimit = 1
  HardLimit = 2
  RetainRecent = 0
  StagingCap = 3
  BatchLimit = 2
  MaxTenures = 6
  MaxFaults = 2
  HostRebinds = TRUE
  CreateMayFail = FALSE
  HostReclaims = TRUE
INVARIANT
  EveryTenureRecorded
