SPECIFICATION Spec
CONSTANTS
  s1 = s1
  s2 = s2
  Sources = {s1, s2}
  OdidOf <- OneManager
  Ids = {1}
  Versions = {1}
  Withdrawals = {}
  InitialLength = 1
  MaxSessions = 2
  MaxPackets = 5
INVARIANTS ReconnectedTemplatesKept
CHECK_DEADLOCK FALSE
