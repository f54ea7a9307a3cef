CONSTANTS
  self = self
  p = p
  i1 = i1
  i2 = i2
  PeerIds <- MCPeerIds
  Infos = {i1, i2}
  MaxAge = 3
  Cutoff = 2
  MailboxCap <- MCMailboxCap
  EnvCap = 1
  Self = self
  ExtraCap = 0
  MaxLate = 0
  CountMod = 3
  Announcing = {FALSE}
  Queries = {}
  Sizes = {}
  Ops = {}
  MaxPayload = 1
  Tau = 1
  Unknown = Unknown
  StampAges = {}
  Skew = 0
  MaxBatch = 0
  MaxWait = 0
  Droppable = TRUE
SPECIFICATION FairSpec
INVARIANTS
  TypeOK
  SizeFresh
  InfoFresh
PROPERTY
  Discovered
