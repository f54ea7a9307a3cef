CONSTANTS
  peer = peer
  longest = longest
  oversize = oversize
  service = service
  udp = udp
  local = local
  t = t
  eq = eq
  PeerNames <- MCPeerNames
  Labels <- MCLabels
  LabelLen <- MCLabelLen
  ServiceName <- MCServiceName
  Local <- MCLocal
  MaxLabel = 4
  Ports = {p1, p2}
  PortLen <- MCPortLen
  Ips = {v4, v6}
  KeySeq <- MCKeySeq
  Values <- MCValues
  Bytes <- MCBytes
  Equals = eq
  NoValue = NoValue
  MaxText = 3
  MaxString = 4
  UpdateCap = 1
  None = None
CHECK_DEADLOCK FALSE
SPECIFICATION ASpec
INVARIANT
  CheckedInSpawn
