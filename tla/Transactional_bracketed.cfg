CONSTANTS
  Contexts = {c1, c2}
  FirstPort = 2
  LastPort = 3
  Window = 2
  WordBits = 5
  Outputs = {2, 3}
  Bracketed = TRUE
  Reorder = TRUE
  ReadsMayFail = FALSE
  WritesMayFail = TRUE
SPECIFICATION Spec
INVARIANTS CoherenceInv ReadsMatchDevice
PROPERTIES PendingValueKept ImplementsPortTransactions
SYMMETRY Symmetry
