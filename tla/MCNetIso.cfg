SPECIFICATION Spec
CONSTANTS
  Packets <- MCPackets
  LibvirtNat = FALSE
  MaxFlows = 2
INVARIANTS
  TypeOK
  NewFlowsFollowMode
  OnlyOldFlowsLeak
  KillSwitch
  AnalysisWorks
