CONSTANTS
  Contexts = {c1, c2}
  FirstPort = 2
  LastPort = 3
  Window = 2
  WordBits = 4
  Outputs = {2, 3}
  Bracketed = FALSE
  Reorder = TRUE
  ReadsMayFail = TRUE
  WritesMayFail = TRUE
SPECIFICATION Spec
INVARIANT IssuedInv
PROPERTIES UnissuedPortsUntouched CallsShorten
SYMMETRY Symmetry
