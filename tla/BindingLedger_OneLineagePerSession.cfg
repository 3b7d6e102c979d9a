SPECIFICATION Spec
CONSTANTS
  s1 = s1
  s2 = s2
  s3 = s3
  s4 = s4
  l1 = l1
  l2 = l2
  NoSession = NoSession
  Sessions = {s1, s2, s3}
  Lineages = {l1, l2}
  SoftLimit = 1
  HardLimit = 2
  RetainRecent = 1
  StagingCap = 3
  BatchLimit = 2
  MaxTenures = 5
  MaxFaults = 1
  HostRebinds = TRUE
  CreateMayFail = TRUE
  HostReclaims = TRUE
INVARIANT
  OneLineagePerSession
