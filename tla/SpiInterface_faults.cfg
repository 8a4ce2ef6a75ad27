CONSTANTS
  ReadBit = 4
  Registers = {1, 2}
  Values = {2}
  ResetValue = 1
  SpiErrorsAt = {0, 1, 2}
  CsMayFail = TRUE
  ChipMayReset = TRUE
SPECIFICATION Spec
INVARIANTS TypeOK WritesLand ReadsAreCurrent SoundCallsSucceed
PROPERTIES OnlyAddressedRegisterChanges ImplementsMemory
