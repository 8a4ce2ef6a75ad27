CONSTANTS
  Contexts = {c1, c2}
  NoOne = NoOne
  Ports = {1, 2}
  Inputs = {2}
  SinglePortBase = 0
  ReadBit = 3
  Registers = {1, 2}
  HalMayFail = TRUE
  HalMayPanic = TRUE
SPECIFICATION FairSpec
INVARIANTS TypeOK BusInv
PROPERTIES ImplementsMemory OnlyOwnRegisterChanges MutexReleased
