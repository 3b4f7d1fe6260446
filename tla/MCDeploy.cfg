SPECIFICATION FairSpec
CONSTANTS
  VMs = {v1, v2}
  NoVM = NoVM
  Invocations <- MCInvocations
  Kernels = {"old", "new"}
  IsoMode = "isolated"
  MayFail <- MCMayFail
INVARIANTS
  TypeOK
  ServicesAfterIsolation
  MachineryOnce
  MongoFitsKernel
  BuiltOrWarned
PROPERTIES
  KeepsLifecycle
  DeployEnds
