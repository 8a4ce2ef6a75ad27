CONSTANTS
  Contexts = {c1, c2}
  FirstPort = 2
  LastPort = 3
  Window = 2
  WordBits = 4
  Outputs = {2, 3}
  Bracketed = FALSE
  Reorder = FALSE
  ReadsMayFail = FALSE
  WritesMayFail = FALSE
SPECIFICATION Spec
PROPERTY PendingReachesDevice
