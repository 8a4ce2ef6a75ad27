CONSTANTS
  Contexts = {c1}
  FirstPort = 2
  LastPort = 4
  Window = 2
  WordBits = 6
  Outputs = {2, 3}
  Bracketed = TRUE
  Reorder = FALSE
  ReadsMayFail = TRUE
  WritesMayFail = TRUE
SPECIFICATION Spec
PROPERTY DiscardedStaysDiscarded
