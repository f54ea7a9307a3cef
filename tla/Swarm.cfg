CONSTANTS
  n1 = n1
  n2 = n2
  n3 = n3
  b1 = b1
  Nodes <- MCNodes
  Addressed <- MCAddressed
  Bare <- MCBare
  Cutoff = 2
  Copies = 1
  Capacity = 1
  Lossy = FALSE
  MaxAsked = 2
SYMMETRY MCSymmetry
SPECIFICATION Spec
INVARIANTS
  SwarmTypeOK
  RateBounded
  SteadyFlow
