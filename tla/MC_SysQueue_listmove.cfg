CONSTANTS
  h1 = h1
  h2 = h2
  e1 = e1
  e2 = e2
  e3 = e3
  e4 = e4
  Heads <- MCHeads
  Elements <- MCElements
  Null = Null
  Garbage = Garbage
  TrustMoved = TRUE
SYMMETRY Symmetry
SPECIFICATION Spec
INVARIANTS
  ChecksPass
