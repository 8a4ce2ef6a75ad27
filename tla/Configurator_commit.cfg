CONSTANTS
  BankSize = 2
  LastBank = 1
  Modes = {{0}, {1}}
  MayDrop = TRUE
  BusMayFail = TRUE
  MayRestart = TRUE
SPECIFICATION Spec
INVARIANTS TypeOK CommitInv ShadowInSync
PROPERTIES OnlyRequestedPortsChange CommitAppliesAll OnlyAskedOrStrayBitsChange
