CONSTANTS
  Contexts = {c1, c2}
  FirstPort = 2
  LastPort = 4
  Window = 1
  WordBits = 5
  Outputs = {2, 3}
  Bracketed = FALSE
  Reorder = TRUE
  ReadsMayFail = TRUE
  WritesMayFail = TRUE
  NoOne = NoOne
SPECIFICATION LowSpec
INVARIANT HeldForTransaction
PROPERTIES CallsReturn PinCallsReturn StarvedOnlyByOthers
