CONSTANTS
  self = self
  p = p
  i1 = i1
  PeerIds <- MCPeerIds
  Infos = {i1}
  MaxAge = 0
  MailboxCap <- MCMailboxCap
  Self = self
  Cutoff = 2
  ExtraCap = 2
  MaxLate = 1
  CountMod = 4
  Announcing = {TRUE, FALSE}
  Queries = {"QueryV4"}
  Sizes = {6}
  Ops = {"RemoveAll", "AddAddr"}
  MaxPayload = 1
  EnvCap = 1
SPECIFICATION SFairSpec
INVARIANTS
  SenderTypeOK
  TimerDiscipline
  WakeUpPending
  HandicapDecays
PROPERTY
  SenderCycles
