CONSTANTS
  FirstPort = 2
  LastPort = 6
  LastBank = 6
  BankConfigBase = 9
  SinglePortBase = 32
  PortRangeBase = 64
  Window = 3
  WordBits = 8
  ResetBits = {FALSE}
SPECIFICATION Spec
INVARIANT ExactIsCostliest
