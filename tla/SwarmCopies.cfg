CONSTANTS
  n1 = n1
  n2 = n2
  n3 = n3
  b1 = b1
  Nodes <- MCNodes
  Addressed <- MCAddressed
  Bare <- MCBare
  Cutoff = 2
  Copies = 2
  Capacity = 2
  Lossy = FALSE
  MaxAsked = 2
SPECIFICATION Spec
INVARIANT
  SteadyFlow
