SPECIFICATION FairSpec
CONSTANTS
  Clean = "clean"
  SnapNames = {"clean"}
  Platforms = {"windows", "linux"}
  MayFail <- MCMayFail
  AgentPolls = 2
  ShutdownPolls = 1
INVARIANTS
  TypeOK
  BuildYieldsSnapshot
  SnapshotsBacked
  DomainHasDisk
PROPERTIES
  KeepsLifecycle
  InvocationEnds
