SPECIFICATION Spec
CONSTANTS
  s1 = s1
  s2 = s2
  Sources = {s1}
  OdidOf <- OneSource
  Ids = {1, 2, 3}
  Versions = {1}
  Withdrawals = {1, 2}
  InitialLength = 1
  MaxSessions = 1
  MaxPackets = 6
INVARIANTS LookupFindsAll
CHECK_DEADLOCK FALSE
