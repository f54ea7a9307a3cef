CONSTANTS
  a = a
  b = b
  c = c
  i1 = i1
  i2 = i2
  PeerIds <- MCPeerIds3
  Infos = {i1}
  MaxAge = 5
  Cutoff = 2
  MailboxCap <- MCMailboxCap
  EnvCap = 1
  Tau = 1
  Unknown = Unknown
  StampAges = {0}
  Skew = 0
  MaxBatch = 2
  Droppable = TRUE
SPECIFICATION USpec
SYMMETRY Symmetry
INVARIANTS
  UpdaterTypeOK
  GcChain
  ViewMatches
PROPERTY
  DirectorySpec
