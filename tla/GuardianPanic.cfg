CONSTANTS
  Interfaces = {a1, a2}
  NoAddr = NoAddr
  Classes <- MCClasses
  OsFails = FALSE
  RequestCap = 1
  MaxReceivers = 2
  MaxFailures = 1
CHECK_DEADLOCK FALSE
SPECIFICATION GSpec
INVARIANT
  KeepsRunning
