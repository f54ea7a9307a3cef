CONSTANTS
  a = a
  b = b
  c = c
  i1 = i1
  i2 = i2
  PeerIds <- MCPeerIds
  Infos = {i1}
  MaxAge = 3
  Cutoff = 2
  MailboxCap <- MCMailboxCap
  EnvCap = 2
  Tau = 1
  Unknown = Unknown
  StampAges = {0, 1}
  Skew = 1
  MaxBatch = 1
  Droppable = TRUE
SPECIFICATION UFairSpec
PROPERTIES
  DirectorySpec
  StaleExpired
