CONSTANTS
  Contexts = {c1}
  FirstPort = 2
  LastPort = 5
  Window = 3
  WordBits = 6
  Outputs = {2, 3, 5}
  Bracketed = TRUE
  Reorder = FALSE
  ReadsMayFail = FALSE
  WritesMayFail = TRUE
SPECIFICATION Spec
INVARIANTS TypeOK AddressesValid CacheCoherent
PROPERTIES OnlyPendingPortsChange PendingReachesDevice ImplementsPortTransactions
