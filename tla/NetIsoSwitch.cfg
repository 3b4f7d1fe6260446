\* Flows opened in gateway mode after a switch to isolated mode.
SPECIFICATION Spec
CONSTANTS
  Packets <- MCPackets
  LibvirtNat = FALSE
  MaxFlows = 1
INVARIANT IsolatedReachesHostOnly
