CONSTANTS
  BankSize = 2
  LastBank = 1
  Modes = {{0}, {1}}
  MayDrop = TRUE
  BusMayFail = FALSE
  MayRestart = FALSE
SPECIFICATION Spec
PROPERTY OnlyAskedBitsChange
