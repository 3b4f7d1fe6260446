\* A run that meets a running VM.
SPECIFICATION Spec
CONSTANTS
  Services <- MCServices
  VMs <- MCVMs
  Dirs = {d1, d2}
  DiskLimit = 2
  NoDir = NoDir
INVARIANT EveryRunReports
