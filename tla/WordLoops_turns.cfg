CONSTANTS
  FirstPort = 2
  LastPort = 4
  LastBank = 6
  BankConfigBase = 9
  SinglePortBase = 32
  PortRangeBase = 64
  Window = 2
  WordBits = 5
  ResetBits = {FALSE, TRUE}
SPECIFICATION Spec
INVARIANTS TypeOK LoopInv
PROPERTIES TurnsAreSetTurns StompsAreHarmless
