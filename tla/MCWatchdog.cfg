SPECIFICATION FairSpec
CONSTANTS
  Services <- MCServices
  VMs <- MCVMs
  Dirs = {d1, d2}
  DiskLimit = 2
  NoDir = NoDir
INVARIANTS
  TypeOK
  HealthyIsHonest
PROPERTIES
  CheckIsReadOnly
  PruneSparesAnalyses
  WatchdogEnds
