\* `all` with a ruleset nft refuses.
SPECIFICATION Spec
CONSTANTS
  VMs = {v1}
  NoVM = NoVM
  Invocations <- JustAll
  Kernels = {"old"}
  IsoMode = "isolated"
  MayFail = {"nft"}
INVARIANT AnalysesContained
