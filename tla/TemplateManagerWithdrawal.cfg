SPECIFICATION Spec
CONSTANTS
  s1 = s1
  s2 = s2
  Sources = {s1}
  OdidOf <- OneSource
  Ids = {1}
  Versions = {1}
  Withdrawals = {1}
  InitialLength = 1
  MaxSessions = 1
  MaxPackets = 4
INVARIANTS UsedTemplatesNotWithdrawn
CHECK_DEADLOCK FALSE
